---------------------------- MODULE TracedThread ----------------------------
(***************************************************************************)
(* A thread that is scheduled and traced, and the analyzer that has only   *)
(* the trace to go by.                                                     *)
(*                                                                         *)
(* The kernel moves the thread about on its CPUs, runs softirqs there and  *)
(* has other threads and interrupts wake it; the probes of                 *)
(* module/trace_wperf_events.c write a record at each of these points.     *)
(* What the thread really did is kept beside it, moment by moment.  At any *)
(* time the trace ends and Segments breaks the thread's time up again.     *)
(*                                                                         *)
(* The clock ticks with every step of the kernel, so that no two of them   *)
(* share a time stamp: the probes take it with rdtsc_ordered.  Moment m is *)
(* the time between m - 1 and m.                                           *)
(***************************************************************************)
EXTENDS Integers, Sequences, SequencesExt

CONSTANTS
  Pid, CPUs,            \* of Segments
  Waker,                \* another thread
  SoftNr,               \* the number of the softirqs that run
  StaleStamps,          \* what the ring buffer may hold where a stamp belongs
  WakeUpRaces,          \* which wake-ups may mislead, a part of RaceKinds
  MaxTime               \* bound: how long the thread is traced

(* "failed": the thread sleeps on, for it is in another state than the     *)
(* caller would wake it from.  "second": the thread was woken before it    *)
(* was switched out, and is woken once more.                               *)
RaceKinds == {"failed", "second"}

ASSUME PidAssumption     == Pid \in Nat \ {0}
ASSUME WakerAssumption   == Waker \in Nat \ {0, Pid}
ASSUME SoftNrAssumption  == SoftNr \in 0 .. 9
ASSUME StampsAssumption  == StaleStamps \subseteq Nat
ASSUME RacesAssumption   == WakeUpRaces \subseteq RaceKinds
ASSUME MaxTimeAssumption == MaxTime \in Nat

VARIABLES
  now,
  doing,                \* what the thread is doing
  cpu,                  \* the CPU it is on, or was on last
  began,                \* when the softirq of a CPU began, 0 when none runs
  trace,                \* the records written, in the order of their stamps
  softTrace             \* the records of softirqs

VARIABLES
  truth,                \* history: what the thread was doing in moment m
  woken                 \* history: when it was woken, and by whom

VARIABLES pc, swl, softs, n, ps, segs       \* of Segments

Analyzer == INSTANCE Segments

analyzerVars == <<pc, swl, softs, n, ps, segs>>
kernelVars == <<now, doing, cpu, began, trace, softTrace, truth, woken>>
vars == <<kernelVars, analyzerVars>>

(* "leaving": its state is set to sleep and a wake-up has come already, so *)
(* that it will be runnable when it is switched out, "left".               *)
OnCpu  == {"running", "leaving", "exiting"}
OffCpu == {"unborn", "runnable", "left", "blocked", "exited"}

TypeOK ==
  /\ Analyzer!TypeOK
  /\ now \in 0 .. MaxTime
  /\ doing \in OnCpu \cup OffCpu
  /\ cpu \in CPUs
  /\ began \in [CPUs -> 0 .. MaxTime]
  /\ trace \in Seq(Analyzer!Switch)
  /\ softTrace \subseteq Analyzer!Soft
  /\ truth \in Seq({"absent", "running", "displaced", "runnable", "blocked"})
  /\ woken \subseteq (1 .. MaxTime) \X Int

Init ==
  /\ Analyzer!Init
  /\ now = 0
  /\ doing \in {"unborn", "running", "runnable", "blocked"}
  /\ cpu \in CPUs
  /\ began = [c \in CPUs |-> 0]
  /\ trace = <<>>
  /\ softTrace = {}
  /\ truth = <<>>
  /\ woken = {}

-----------------------------------------------------------------------------
(* Time and records.                                                       *)

Truth ==
  CASE doing \in {"unborn", "exited"}           -> "absent"
    [] doing \in OnCpu /\ began[cpu] = 0        -> "running"
    [] doing \in OnCpu /\ began[cpu] # 0        -> "displaced"
    [] doing \in {"runnable", "left"}           -> "runnable"
    [] doing = "blocked"                        -> "blocked"

Tick ==
  /\ pc = "load"
  /\ now < MaxTime
  /\ now' = now + 1
  /\ truth' = Append(truth, Truth)
  /\ UNCHANGED analyzerVars

Record(type, c, prev, next, prevState, ctx) ==
  [type |-> type, time |-> now + 1, cpu |-> c, prev |-> prev, next |-> next,
   prevState |-> prevState, ctx |-> ctx]

(* LoadSwitch sorts the records by their stamps, those of equal stamp in    *)
(* any order.                                                               *)
Log(e) ==
  \E p \in 1 .. Len(trace) + 1 :
    /\ \A m \in 1 .. p - 1 : trace[m].time <= e.time
    /\ \A m \in p .. Len(trace) : e.time <= trace[m].time
    /\ trace' = InsertAt(trace, p, e)

(* No thread is switched on a CPU that serves a softirq. *)
MaySwitch(c) == began[c] = 0

-----------------------------------------------------------------------------
(* The thread.                                                             *)

Create ==
  /\ Tick
  /\ doing = "unborn"
  /\ doing' = "runnable"
  /\ Log(Record("wake_up_new_task", cpu, Waker, Pid, 0, Analyzer!PROCESS))
  /\ UNCHANGED <<cpu, began, softTrace, woken>>

SwitchIn(c) ==
  /\ Tick
  /\ doing \in {"runnable", "left"} /\ MaySwitch(c)
  /\ doing' = "running" /\ cpu' = c
  /\ Log(Record("switch_to", c, Waker, Pid, 0, Analyzer!PROCESS))
  /\ UNCHANGED <<began, softTrace, woken>>

(* Preempted, or put to sleep. *)
SwitchOut(prevState) ==
  /\ Tick
  /\ MaySwitch(cpu)
  /\ \/ doing = "running" /\ prevState = 0 /\ doing' = "runnable"
     \/ doing = "running" /\ prevState = 1 /\ doing' = "blocked"
     \/ doing = "leaving" /\ prevState = 1 /\ doing' = "left"
     \/ doing = "exiting" /\ prevState = 1 /\ doing' = "exited"
  /\ Log(Record("switch_to", cpu, Pid, Waker, prevState, Analyzer!PROCESS))
  /\ UNCHANGED <<cpu, began, softTrace, woken>>

(* The assignments of the do_exit record leave its stamp out. *)
Exit ==
  /\ Tick
  /\ doing = "running" /\ MaySwitch(cpu)
  /\ doing' = "exiting"
  /\ \E stamp \in StaleStamps :
       Log([Record("do_exit", cpu, Pid, 0, 0, Analyzer!PROCESS) EXCEPT !.time = stamp])
  /\ UNCHANGED <<cpu, began, softTrace, woken>>

(* Threads, hard interrupts at any time, and softirqs while they run wake   *)
(* other threads.                                                           *)
Contexts ==
  {Analyzer!PROCESS, Analyzer!HARDIRQ} \cup {SoftNr : c \in {d \in CPUs : began[d] # 0}}

By(ctx) == IF ctx = Analyzer!PROCESS THEN Waker ELSE -ctx

LogWakeUp(ctx) == Log(Record("try_to_wake_up", cpu, Waker, Pid, 0, ctx))

WakeUp(ctx) ==
  /\ Tick
  /\ doing = "blocked" /\ ctx \in Contexts
  /\ doing' = "runnable"
  /\ woken' = woken \cup {<<now + 1, By(ctx)>>}
  /\ LogWakeUp(ctx)
  /\ UNCHANGED <<cpu, began, softTrace>>

(* The probe sits at the entry of try_to_wake_up, before that looks whether *)
(* there is a thread to wake: this one is awake, or on its way to sleep.    *)
NeedlessWakeUp(ctx) ==
  /\ Tick
  /\ doing \in {"runnable", "running"} /\ ctx \in Contexts
  /\ \/ doing' = doing
     \/ doing = "running" /\ MaySwitch(cpu) /\ doing' = "leaving"
  /\ LogWakeUp(ctx)
  /\ UNCHANGED <<cpu, began, softTrace, woken>>

MisleadingWakeUp(ctx) ==
  /\ Tick
  /\ \/ doing = "blocked" /\ "failed" \in WakeUpRaces
     \/ doing = "left" /\ "second" \in WakeUpRaces
  /\ ctx \in Contexts
  /\ LogWakeUp(ctx)
  /\ UNCHANGED <<doing, cpu, began, softTrace, woken>>

-----------------------------------------------------------------------------
(* The rest of the machine.                                                *)

OtherSwitch(c) ==
  /\ Tick
  /\ MaySwitch(c) /\ ~(doing \in OnCpu /\ cpu = c)
  /\ Log(Record("switch_to", c, Waker, 0, 0, Analyzer!PROCESS))
  /\ UNCHANGED <<doing, cpu, began, softTrace, woken>>

(* on___do_softirq_ent keeps the time, on___do_softirq_ret records it. *)
SoftirqBegin(c) ==
  /\ Tick
  /\ began[c] = 0 /\ ~(doing = "leaving" /\ cpu = c)
  /\ began' = [began EXCEPT ![c] = now + 1]
  /\ UNCHANGED <<doing, cpu, trace, softTrace, woken>>

SoftirqEnd(c) ==
  /\ Tick
  /\ began[c] # 0
  /\ softTrace' = softTrace \cup {[cpu |-> c, stime |-> began[c], etime |-> now + 1]}
  /\ began' = [began EXCEPT ![c] = 0]
  /\ UNCHANGED <<doing, cpu, trace, woken>>

(* The trace ends here, and the analyzer reads it. *)
Load == Analyzer!Load(trace, softTrace) /\ UNCHANGED kernelVars

Analyze == Analyzer!Step /\ UNCHANGED kernelVars

Next ==
  \/ Create \/ Exit
  \/ \E prevState \in {0, 1} : SwitchOut(prevState)
  \/ \E ctx \in Contexts : WakeUp(ctx) \/ NeedlessWakeUp(ctx) \/ MisleadingWakeUp(ctx)
  \/ \E c \in CPUs : SwitchIn(c) \/ OtherSwitch(c) \/ SoftirqBegin(c) \/ SoftirqEnd(c)
  \/ Load
  \/ Analyze

Spec == Init /\ [][Next]_vars

-----------------------------------------------------------------------------
(* Properties.                                                             *)

Moments == 1 .. now

(* The segments a moment lies in.  One that ends no later than it starts   *)
(* holds no moment.                                                        *)
At(m) == {segs[t] : t \in {k \in DOMAIN segs : k < m /\ m <= segs[k].etime}}

(* The stamps of the thread's own switches. *)
OwnSwitches == {swl[m].time : m \in {l \in DOMAIN swl :
                  swl[l].type = "switch_to" /\ Pid \in {swl[l].prev, swl[l].next}}}

MayBeTold(what) ==
  CASE what = "running"   -> {"RUNNING"}
    [] what = "displaced" -> {"RUNNING", "RUNNABLE"}
    [] what = "runnable"  -> {"RUNNABLE"}
    [] what = "blocked"   -> {"BLOCKED"}
    [] what = "absent"    -> {}

(* No segment tells of the thread what it was not doing, whichever of its   *)
(* wake-ups were needless or came before the switch they answer, whatever   *)
(* softirqs ran, and wherever do_exit went in the trace.                    *)
SegmentsAreTrue ==
  pc = "done" =>
    \A m \in Moments : \A seg \in At(m) : seg.state \in MayBeTold(truth[m])

(* No moment lies in two segments, and every moment between the first and  *)
(* the last switch of the thread lies in one: segments that start together *)
(* replace each other, and only empty ones may be lost that way.           *)
SegmentsPartition ==
  pc = "done" =>
    \A m \in Moments :
      /\ \A r, s \in At(m) : r = s
      /\ (\E a, b \in OwnSwitches : a < m /\ m <= b) => At(m) # {}

(* The first softirq that displaces the thread between being switched in   *)
(* and out is told, to the moment.                                         *)
FirstSoftirqTold ==
  LET onCpu(m)    == truth[m] \in {"running", "displaced"}
      resumed(m)  == \E a, b \in 1 .. m - 1 :
                       /\ a < b /\ truth[a] = "displaced" /\ truth[b] = "running"
                       /\ \A c \in a .. m : onCpu(c)
  IN  pc = "done" =>
        \A m \in Moments : \A seg \in At(m) :
          truth[m] = "displaced" /\ ~resumed(m) => seg.state = "RUNNABLE"

(* process.go:294, "blocked => runnable": a wait ends when the thread is    *)
(* woken, and is put down to what woke it.                                  *)
WaitsNameWakers ==
  pc = "done" =>
    \A t \in DOMAIN segs :
      segs[t].state = "BLOCKED" /\ t < segs[t].etime => <<segs[t].etime, segs[t].waitFor>> \in woken

(* The analyzer only gives up on an empty trace and on a thread that exits  *)
(* and was not switched in or out before the trace ended.                   *)
CrashesKnown ==
  pc = "crashed" => trace = <<>> \/ (doing = "exiting" /\ OwnSwitches = {})

=============================================================================
