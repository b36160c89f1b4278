-------------------------------- MODULE TxStat --------------------------------
(***************************************************************************)
(* The files enable, filter and output of tx_stat in                       *)
(* module/trace_wperf_events.c, and the probes they control.               *)
(*                                                                         *)
(* Five probes sit on the functions a send passes through; while one is    *)
(* armed, its handler adds the bytes that the current process sends, if    *)
(* the bitmap has its pid.  The probes are armed and disarmed one after    *)
(* the other.  As in DiskUtils, event_mutex is held while the filter is    *)
(* written and the output read, and not while enable is written.           *)
(*                                                                         *)
(* A handler looks at its probe and at the filter in one step, where that  *)
(* of DiskUtils takes two: one that is held up between them, while threads *)
(* use the files, is outside the model.                                    *)
(***************************************************************************)
EXTENDS Naturals, Sequences

CONSTANTS
  Enablers, Filterers, Readers,   \* threads, by the file they use
  ProbeList,                      \* in the order they are armed
  Pids, Bad,                      \* pids, and a name that is not a number
  Lists,                          \* what is written to the filter
  Paths,                          \* the probed functions a send goes through
  MaxSends,                       \* bound: sends of one process
  Nobody

Holders == Filterers \cup Readers
Threads == Enablers \cup Holders
Probes == {ProbeList[n] : n \in 1 .. Len(ProbeList)}

VARIABLES
  tx_enabled,
  filter,               \* the pids whose bit is set
  bytes,                \* tx_stats: one unit for each time a send is counted
  armed,                \* the probes that are armed
  mutex,                \* the thread that holds event_mutex, or Nobody
  call,                 \* what each thread is doing
  send,                 \* what each process is sending
  sends,                \* how often it has sent
  halted                \* history: the last write of the filter failed, and
                        \* nothing has begun to arm the probes since

vars == <<tx_enabled, filter, bytes, armed, mutex, call, send, sends, halted>>
world == <<bytes, send, sends>>

Idle == [at |-> "idle", on |-> FALSE, n |-> 1, rest |-> <<>>, bits |-> {}]
NotSending == [path |-> <<>>, tested |-> FALSE]

TypeOK ==
  /\ tx_enabled \in BOOLEAN /\ halted \in BOOLEAN
  /\ filter \subseteq Pids
  /\ bytes \in [Pids -> Nat]
  /\ armed \subseteq Probes
  /\ mutex \in Holders \cup {Nobody}
  /\ call \in [Threads -> [at : {"idle", "store", "switch", "disarm", "zero", "next",
                                 "set", "test", "arm"},
                           on : BOOLEAN, n : 1 .. Len(ProbeList), rest : Seq(Pids \cup {Bad}),
                           bits : SUBSET Pids]]
  /\ send \in [Pids -> [path : Seq(Probes), tested : BOOLEAN]]
  /\ sends \in [Pids -> 0 .. MaxSends]

Fresh(flag, bits, counts, arm, lock, calls, paths, ns, off) ==
  /\ flag = FALSE /\ bits = {} /\ arm = {} /\ lock = Nobody
  /\ counts = [p \in Pids |-> 0]
  /\ calls = [t \in Threads |-> Idle]
  /\ paths = [p \in Pids |-> NotSending]
  /\ ns = [p \in Pids |-> 0]
  /\ off = FALSE

Init == Fresh(tx_enabled, filter, bytes, armed, mutex, call, send, sends, halted)

At(t, place) == call[t].at = place
Goto(t, place) == call' = [call EXCEPT ![t].at = place, ![t].n = 1]
Return(t) ==
  /\ call' = [call EXCEPT ![t] = Idle]
  /\ mutex' = IF mutex = t THEN Nobody ELSE mutex

-----------------------------------------------------------------------------
(* disable_tx_stat_probes and enable_tx_stat_probes.  What follows depends *)
(* on who called.                                                          *)

AfterDisarm(t) ==
  CASE t \in Enablers -> "zero" [] t \in Filterers -> "next" [] t \in Readers -> "test"

Disarm(t) ==
  /\ At(t, "disarm")
  /\ armed' = armed \ {ProbeList[call[t].n]}
  /\ IF call[t].n = Len(ProbeList) THEN Goto(t, AfterDisarm(t))
                                   ELSE call' = [call EXCEPT ![t].n = @ + 1]
  /\ UNCHANGED <<tx_enabled, filter, mutex, world, halted>>

Arm(t) ==
  /\ At(t, "arm")
  /\ armed' = armed \cup {ProbeList[call[t].n]}
  /\ halted' = (halted /\ call[t].n # 1)
  /\ IF call[t].n = Len(ProbeList)
       THEN Return(t)
       ELSE call' = [call EXCEPT ![t].n = @ + 1] /\ UNCHANGED mutex
  /\ UNCHANGED <<tx_enabled, filter, world>>

-----------------------------------------------------------------------------
(* Writing 0 or 1 to enable.                                               *)

EnableWrite(t, on) ==
  /\ At(t, "idle") /\ mutex = Nobody
  /\ call' = [call EXCEPT ![t].at = "store", ![t].on = on]
  /\ UNCHANGED <<tx_enabled, filter, armed, mutex, world, halted>>

StoreEnable(t) ==
  /\ At(t, "store")
  /\ tx_enabled' = call[t].on
  /\ Goto(t, "switch")
  /\ UNCHANGED <<filter, armed, mutex, world, halted>>

(* The switch may read the flag again, or go by what it has just stored. *)
Switch(t) ==
  /\ At(t, "switch")
  /\ \E on \in {call[t].on, tx_enabled} : Goto(t, IF on THEN "arm" ELSE "disarm")
  /\ UNCHANGED <<tx_enabled, filter, armed, mutex, world, halted>>

\* Slip: the bitmap keeps its pids.
KeepFilter(t) ==
  /\ At(t, "zero") /\ t \in Enablers
  /\ Return(t)
  /\ UNCHANGED <<tx_enabled, filter, armed, world, halted>>

ZeroFilter(t) ==
  /\ At(t, "zero") /\ t \in Enablers
  /\ filter' = {}
  /\ Return(t)
  /\ UNCHANGED <<tx_enabled, armed, world, halted>>

-----------------------------------------------------------------------------
(* Writing a list of pids to filter.  They are added to those it has.      *)
(* bitmap_set reads a word of the bitmap and writes it back.               *)

FilterWrite(t, list) ==
  /\ At(t, "idle") /\ mutex = Nobody
  /\ mutex' = t
  /\ call' = [call EXCEPT ![t].at = "disarm", ![t].rest = list]
  /\ UNCHANGED <<tx_enabled, filter, armed, world, halted>>

ReadBits(t) ==
  /\ At(t, "next") /\ call[t].rest # <<>> /\ Head(call[t].rest) # Bad
  /\ call' = [call EXCEPT ![t].at = "set", ![t].bits = filter]
  /\ UNCHANGED <<tx_enabled, filter, armed, mutex, world, halted>>

(* The code does not compare a pid with the size of the bitmap: Pids are   *)
(* those it has a bit for.                                                 *)
WriteBits(t) ==
  /\ At(t, "set")
  /\ filter' = call[t].bits \cup {Head(call[t].rest)}
  /\ call' = [call EXCEPT ![t].at = "next", ![t].rest = Tail(@), ![t].bits = {}]
  /\ UNCHANGED <<tx_enabled, armed, mutex, world, halted>>

(* What is not a number ends the write with -EINVAL, the probes off. *)
FilterFails(t) ==
  /\ At(t, "next") /\ call[t].rest # <<>> /\ Head(call[t].rest) = Bad
  /\ filter' = {}
  /\ halted' = TRUE
  /\ Return(t)
  /\ UNCHANGED <<tx_enabled, armed, world>>

-----------------------------------------------------------------------------
(* Reading output; what it prints is left out.                             *)

OutputRead(t) ==
  /\ At(t, "idle") /\ mutex = Nobody
  /\ mutex' = t
  /\ Goto(t, "disarm")
  /\ UNCHANGED <<tx_enabled, filter, armed, world, halted>>

(* Both end with the probes armed again if the flag says so. *)
Ended(t) == At(t, "test") \/ (At(t, "next") /\ call[t].rest = <<>>)

\* Slip: the flag is not looked at.
ArmAgain(t) ==
  /\ Ended(t)
  /\ Goto(t, "arm")
  /\ UNCHANGED <<tx_enabled, filter, armed, mutex, world, halted>>

TestEnabled(t) ==
  /\ Ended(t)
  /\ IF tx_enabled THEN Goto(t, "arm") /\ UNCHANGED mutex ELSE Return(t)
  /\ UNCHANGED <<tx_enabled, filter, armed, world, halted>>

-----------------------------------------------------------------------------
(* A process sends; the probed functions call each other, and each handler *)
(* that finds its pid in the filter counts the bytes.                      *)

Send(p, path) ==
  /\ send[p] = NotSending /\ sends[p] < MaxSends
  /\ send' = [send EXCEPT ![p].path = path]
  /\ sends' = [sends EXCEPT ![p] = @ + 1]
  /\ UNCHANGED <<tx_enabled, filter, bytes, armed, mutex, call, halted>>

TestBit(p) ==
  /\ send[p].path # <<>> /\ ~send[p].tested
  /\ send' = [send EXCEPT ![p] = IF Head(@.path) \in armed /\ p \in filter
                                 THEN [@ EXCEPT !.tested = TRUE]
                                 ELSE [@ EXCEPT !.path = Tail(send[p].path)]]
  /\ UNCHANGED <<tx_enabled, filter, bytes, armed, mutex, call, sends, halted>>

AddBytes(p) ==
  /\ send[p].tested
  /\ bytes' = [bytes EXCEPT ![p] = @ + 1]
  /\ send' = [send EXCEPT ![p] = [path |-> Tail(@.path), tested |-> FALSE]]
  /\ UNCHANGED <<tx_enabled, filter, armed, mutex, call, sends, halted>>

-----------------------------------------------------------------------------
EnableStep(t) ==
  \/ \E on \in BOOLEAN : EnableWrite(t, on)
  \/ StoreEnable(t) \/ Switch(t) \/ ZeroFilter(t)

FilterStep(t) ==
  \/ \E list \in Lists : FilterWrite(t, list)
  \/ ReadBits(t) \/ WriteBits(t) \/ FilterFails(t)

Sender(p) == (\E path \in Paths : Send(p, path)) \/ TestBit(p) \/ AddBytes(p)

ThreadStep(t) ==
  \/ Disarm(t) \/ Arm(t)
  \/ t \in Enablers /\ EnableStep(t)
  \/ t \in Filterers /\ FilterStep(t)
  \/ t \in Readers /\ OutputRead(t)
  \/ t \in Holders /\ TestEnabled(t)

Next == (\E t \in Threads : ThreadStep(t)) \/ (\E p \in Pids : Sender(p))

Spec == Init /\ [][Next]_vars

-----------------------------------------------------------------------------
(* Properties, for one thread that writes enable.                          *)

Quiet == \A t \in Threads : At(t, "idle")

(* When enable says 1 all five probes are armed, however the writes of     *)
(* enable fell between those that disarm and arm them one by one; only a   *)
(* filter that was refused leaves them off.                                *)
EnabledMeansArmed == Quiet /\ tx_enabled /\ ~halted => armed = Probes

=============================================================================
