------------------------------ MODULE IoWorkers ------------------------------
(***************************************************************************)
(* The command line of the recorder and the programs it starts for -d and  *)
(* -n: recorder/ioworker.c, parse_opts of main.c, and the calls to them in *)
(* recorder.c.  The event pump and the control files are left out here;    *)
(* Recorder models a run without io workers.                               *)
(*                                                                         *)
(* The children are started twice on the same handles, in setup_ioworkers  *)
(* and in record_ioworkers.  The handle has the pid of the second child.   *)
(* Whether libuv still reports the exit of a child on a handle that was    *)
(* initialized again while active is open: the model has both.             *)
(***************************************************************************)
EXTENDS Naturals, Sequences, FiniteSets

CONSTANTS
  CommandLines,         \* what the recorder may be started with: sequences of
                        \* options, "-P bad" for a period that is not a number
  Faults                \* which calls may fail, a part of FaultKinds

FaultKinds == {"open", "spawn"}
ASSUME FaultsAssumption == Faults \subseteq FaultKinds

VARIABLES
  pc,                   \* what the recorder does next
  opts,                 \* the options that are still to be parsed
  lists,                \* the lists that were given: "disk", "nic"
  argv,                 \* cf->argv, by enum iotype
  workers,              \* the workers, in the order they were set up
  children,             \* every child started: its worker, program, state
  enabled,              \* the events are on
  expired,
  k                     \* how many workers record_ioworkers has left

vars == <<pc, opts, lists, argv, workers, children, enabled, expired, k>>
config == <<opts, lists, argv>>

Types == <<"disk", "nic">>       \* enum iotype
Program == [disk |-> "iostat", nic |-> "ifstat"]
Accepted == {"-f", "-P", "-d", "-n", "-o", "-b"}

Worker == [type : {"disk", "nic"}, args : {"iostat", "ifstat"},
           handle : {"unused", "active", "reused", "closed"}, pid : 0 .. 4, closes : Nat]

TypeOK ==
  /\ pc \in {"parse", "usage", "args", "disk", "nic", "enable", "record", "loop", "failed",
            "returned"}
  /\ lists \subseteq {"disk", "nic"}
  /\ argv \in [{"disk", "nic"} -> {"iostat", "ifstat", "none"}]
  /\ workers \in Seq(Worker) /\ Len(workers) <= 2
  /\ children \in Seq([worker : 1 .. 2, program : {"iostat", "ifstat"},
                       state : {"runs", "told", "exited", "reaped"}])
  /\ Len(children) <= 4
  /\ enabled \in BOOLEAN /\ expired \in BOOLEAN /\ k \in 0 .. 2

Init ==
  /\ pc = "parse"
  /\ opts \in CommandLines
  /\ lists = {}
  /\ argv = [t \in {"disk", "nic"} |-> "none"]
  /\ workers = <<>> /\ children = <<>>
  /\ enabled = FALSE /\ expired = FALSE /\ k = 0

-----------------------------------------------------------------------------
(* parse_opts: usage does not return.                                      *)

ParseOption ==
  /\ pc = "parse" /\ opts # <<>>
  /\ IF Head(opts) \in Accepted
       THEN /\ opts' = Tail(opts)
            /\ lists' = lists \cup CASE Head(opts) = "-d" -> {"disk"}
                                     [] Head(opts) = "-n" -> {"nic"}
                                     [] OTHER -> {}
            /\ UNCHANGED pc
       ELSE pc' = "usage" /\ UNCHANGED <<opts, lists>>
  /\ UNCHANGED <<argv, workers, children, enabled, expired, k>>

ParseEnd ==
  /\ pc = "parse" /\ opts = <<>>
  /\ pc' = "args"
  /\ UNCHANGED <<config, workers, children, enabled, expired, k>>

-----------------------------------------------------------------------------
(* setup_ioworkers.  With -n alone argv has room for one element; index 1  *)
(* lies in what calloc rounds up to, and keeps what is written there.      *)

BuildArgs ==
  /\ pc = "args"
  /\ argv' = [t \in {"disk", "nic"} |-> IF t \in lists THEN Program[t] ELSE "none"]
  /\ pc' = "disk"
  /\ UNCHANGED <<opts, lists, workers, children, enabled, expired, k>>

After(t) == IF t = "disk" THEN "nic" ELSE "enable"

SkipWorker(t) ==
  /\ pc = t /\ t \notin lists
  /\ pc' = After(t)
  /\ UNCHANGED <<config, workers, children, enabled, expired, k>>

(* uv_spawn: the handle takes the pid of the new child. *)
Spawned(ws, w, pid) ==
  [ws EXCEPT ![w].pid = pid, ![w].handle = IF @ = "unused" THEN "active" ELSE "reused"]
Child(w, program) == [worker |-> w, program |-> program, state |-> "runs"]

\* Slip: the argument list is taken by the number of the worker.
ArgsOfNumber(t) == argv[Types[Len(workers) + 1]]

ArgsOf(t) == argv[t]

(* __setup_ioworkers.  The result of uv_spawn is not looked at. *)
SetupWorker(t) ==
  /\ pc = t /\ t \in lists
  /\ LET w  == Len(workers) + 1
         ws == Append(workers, [type |-> t, args |-> ArgsOf(t), handle |-> "unused",
                                pid |-> 0, closes |-> 0])
     IN \/ /\ children' = Append(children, Child(w, ArgsOf(t)))
           /\ workers' = Spawned(ws, w, Len(children'))
        \/ /\ "spawn" \in Faults
           /\ workers' = ws /\ UNCHANGED children
  /\ pc' = After(t)
  /\ UNCHANGED <<config, enabled, expired, k>>

OpenFails(t) ==
  /\ pc = t /\ t \in lists /\ "open" \in Faults
  /\ pc' = "failed"
  /\ UNCHANGED <<config, workers, children, enabled, expired, k>>

-----------------------------------------------------------------------------
(* set_filter_and_enable, and record_ioworkers: from the last worker to    *)
(* the first, each is started again.                                       *)

Enable ==
  /\ pc = "enable"
  /\ enabled' = TRUE
  /\ pc' = "record" /\ k' = Len(workers)
  /\ UNCHANGED <<config, workers, children, expired>>

RecordWorker ==
  /\ pc = "record" /\ k > 0
  /\ children' = Append(children, Child(k, workers[k].args))
  /\ workers' = Spawned(workers, k, Len(children'))
  /\ k' = k - 1
  /\ UNCHANGED <<pc, config, enabled, expired>>

(* recorder_run returns -1 and main exits, with the events enabled. *)
SpawnFails ==
  /\ pc = "record" /\ k > 0 /\ "spawn" \in Faults
  /\ pc' = "failed"
  /\ UNCHANGED <<config, workers, children, enabled, expired, k>>

StartLoop ==
  /\ pc = "record" /\ k = 0
  /\ pc' = "loop"
  /\ UNCHANGED <<config, workers, children, enabled, expired, k>>

-----------------------------------------------------------------------------
(* The event loop.                                                         *)

\* Slip: the loop over the workers leaves out the first.
KilledButFirst == {workers[w].pid : w \in 2 .. Len(workers)}

(* What uv_process_kill is called for in cleanup. *)
Killed == {workers[w].pid : w \in 1 .. Len(workers)}

Signalled == [c \in 1 .. Len(children) |->
  IF c \in Killed /\ children[c].state = "runs" THEN [children[c] EXCEPT !.state = "told"]
                                                ELSE children[c]]

\* Slip: cleanup closes the output files as well.
ExpireAndClose ==
  /\ pc = "loop" /\ ~expired
  /\ expired' = TRUE
  /\ enabled' = FALSE
  /\ children' = Signalled
  /\ workers' = [w \in 1 .. Len(workers) |-> [workers[w] EXCEPT !.closes = @ + 1]]
  /\ UNCHANGED <<pc, config, k>>

(* timer_expire, and cleanup.  A child that was reaped is not there any    *)
(* more to get the signal.                                                 *)
Expire ==
  /\ pc = "loop" /\ ~expired
  /\ expired' = TRUE
  /\ enabled' = FALSE
  /\ children' = Signalled
  /\ UNCHANGED <<pc, config, workers, k>>

(* A child ends by itself, or for the signal. *)
Exits(c) ==
  /\ children[c].state \in {"runs", "told"}
  /\ children' = [children EXCEPT ![c].state = "exited"]
  /\ UNCHANGED <<pc, config, workers, enabled, expired, k>>

(* close_process_handle *)
CloseProcessHandle(w) ==
  workers' = [workers EXCEPT ![w].closes = @ + 1, ![w].handle = "closed"]

(* libuv reaps the child of the handle and calls the exit callback. *)
Reported(w) ==
  /\ pc = "loop" /\ workers[w].handle \in {"active", "reused"}
  /\ LET c == workers[w].pid IN
       /\ children[c].state = "exited"
       /\ CloseProcessHandle(w)
       /\ children' = [children EXCEPT ![c].state = "reaped"]
  /\ UNCHANGED <<pc, config, enabled, expired, k>>

(* The copy of the instances, which ends after the expiry, is left out. *)
Returns ==
  /\ pc = "loop" /\ expired
  /\ \A w \in 1 .. Len(workers) : workers[w].handle = "closed"
  /\ pc' = "returned"
  /\ UNCHANGED <<config, workers, children, enabled, expired, k>>

Next ==
  \/ ParseOption \/ ParseEnd \/ BuildArgs
  \/ \E t \in {"disk", "nic"} : SkipWorker(t) \/ SetupWorker(t) \/ OpenFails(t)
  \/ Enable \/ RecordWorker \/ SpawnFails \/ StartLoop
  \/ Expire \/ Returns
  \/ \E c \in 1 .. Len(children) : Exits(c)
  \/ \E w \in 1 .. Len(workers) : Reported(w)

(* The loop thread runs; a child that was told to ends; libuv reports the  *)
(* exit of a child on a handle that was used once.                         *)
Fairness ==
  /\ WF_vars(ParseOption \/ ParseEnd \/ BuildArgs \/ Enable \/ RecordWorker \/ StartLoop)
  /\ WF_vars(\E t \in {"disk", "nic"} : SkipWorker(t) \/ SetupWorker(t))
  /\ WF_vars(Expire) /\ WF_vars(Returns)
  /\ \A c \in 1 .. 4 : WF_vars(c \in 1 .. Len(children) /\ children[c].state = "told" /\ Exits(c))
  /\ \A w \in 1 .. 2 :
       WF_vars(w \in 1 .. Len(workers) /\ workers[w].handle = "active" /\ Reported(w))

Spec == Init /\ [][Next]_vars /\ Fairness

-----------------------------------------------------------------------------
(* Properties.                                                             *)

(* Whatever lists are given, every child runs the program of its worker,   *)
(* the second time as the first, although workers are numbered in the      *)
(* order they are set up and argument lists by their type.                 *)
OwnProgram ==
  \A c \in 1 .. Len(children) :
    children[c].program = Program[workers[children[c].worker].type]

(* The output file of a worker is closed at most once, and not before the  *)
(* child that was started last, which writes to it, has ended.             *)
ClosedOnce ==
  \A w \in 1 .. Len(workers) :
    /\ workers[w].closes <= 1
    /\ workers[w].closes = 1 => children[workers[w].pid].state = "reaped"

(* When the period is over and no handle was used twice, the recorder      *)
(* returns: cleanup has told every child to end that keeps the loop alive. *)
RunEnds == expired /\ (\A w \in 1 .. Len(workers) : workers[w].handle # "reused") ~> pc = "returned"

=============================================================================
