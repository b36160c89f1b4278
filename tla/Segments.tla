------------------------------ MODULE Segments ------------------------------
(***************************************************************************)
(* analyzer/lib/process/process.go, BreakIntoSegments: the events of a     *)
(* trace, in the order of their time stamps, break the time of one thread  *)
(* into segments that are RUNNING, RUNNABLE or BLOCKED.  main calls it for *)
(* every thread in turn, and the calls share nothing that changes, so one  *)
(* thread is enough here.                                                  *)
(*                                                                         *)
(* Segments live in a sorted map keyed by their start: a second segment    *)
(* with the same start takes the place of the first.                       *)
(***************************************************************************)
EXTENDS Integers, Sequences

CONSTANTS
  Pid,                  \* the thread
  CPUs

(* The numbers of the contexts in a record, and what a segment waits for. *)
HARDIRQ == 11
PROCESS == 12
UNKNOWN == 13
NONE    == 0

EventTypes == {"switch_to", "try_to_wake_up", "wake_up_new_task", "do_exit"}

Switch == [type : EventTypes, time : Nat, cpu : CPUs, prev : Nat, next : Nat,
           prevState : {0, 1},        \* 1 stands for every state but 0
           ctx : 0 .. PROCESS]
Soft    == [cpu : CPUs, stime : Nat, etime : Nat]
States  == {"RUNNING", "RUNNABLE", "BLOCKED"}
Segment == [state : States, stime : Nat, etime : Nat, waitFor : Int]

VARIABLES
  pc,                   \* "load", "break", "done" or "crashed"
  swl,                  \* the switch events, sorted by time
  softs,                \* the softirqs
  n,                    \* index of the loop over swl
  ps,                   \* the local copy of the thread's PrevState
  segs                  \* the segments, by their start

vars == <<pc, swl, softs, n, ps, segs>>

(* PrevState{t, -1} *)
Unknown(t) == [time |-> t, state |-> "-1"]

TypeOK ==
  /\ pc \in {"load", "break", "done", "crashed"}
  /\ swl \in Seq(Switch)
  /\ softs \subseteq Soft
  /\ n \in Nat \ {0}
  /\ ps \in [time : Nat, state : States \cup {"-1"}]
  /\ DOMAIN segs \subseteq Nat
  /\ \A t \in DOMAIN segs : segs[t] \in Segment /\ segs[t].stime = t

Init ==
  /\ pc = "load"
  /\ swl = <<>>
  /\ softs = {}
  /\ n = 1
  /\ ps = Unknown(0)
  /\ segs = [t \in {} |-> t]

-----------------------------------------------------------------------------
(* The maps of the package.                                                *)

(* Slip: the segments are keyed by their end. *)
PutByEnd(map, seg) ==
  [t \in DOMAIN map \cup {seg.etime} |-> IF t = seg.etime THEN seg ELSE map[t]]

Put(map, seg) ==
  [t \in DOMAIN map \cup {seg.stime} |-> IF t = seg.stime THEN seg ELSE map[t]]

Seg(state, stime, etime, waitFor) ==
  [state |-> state, stime |-> stime, etime |-> etime, waitFor |-> waitFor]

(* Slip: a segment that starts at t itself is passed over. *)
FloorBefore(map, t) == {k \in DOMAIN map : k < t /\ \A j \in DOMAIN map : j < t => j <= k}

(* The start of the last segment that starts at t or before, if there is one. *)
Floor(map, t) == {k \in DOMAIN map : k <= t /\ \A j \in DOMAIN map : j <= t => j <= k}

(* The softirq of a CPU that ends first at t or after, if there is one. *)
GetCeilingSoft(cpu, t) ==
  LET after == {s \in softs : s.cpu = cpu /\ s.etime >= t}
  IN  {s \in after : \A r \in after : s.etime <= r.etime}

TraceEtime(sl) == sl[Len(sl)].time

(* exitTimeList: the last do_exit of the thread counts. *)
Exits(sl) == {m \in DOMAIN sl : sl[m].type = "do_exit" /\ sl[m].prev = Pid}
ExitTime(sl) == sl[CHOOSE m \in Exits(sl) : \A l \in Exits(sl) : l <= m].time

(* PrevStateMap.Init gives the thread the time it was created, or the start *)
(* of the trace, and then overwrites that with the time it exited, or the  *)
(* end of the trace.                                                       *)
GetPrevState(sl) ==
  Unknown(IF Exits(sl) # {} THEN ExitTime(sl) ELSE TraceEtime(sl))

(* An empty trace has no sl[0]. *)
Load(sl, ss) ==
  /\ pc = "load"
  /\ swl' = sl
  /\ softs' = ss
  /\ IF sl = <<>>
       THEN pc' = "crashed" /\ UNCHANGED ps
       ELSE pc' = "break" /\ ps' = GetPrevState(sl)
  /\ UNCHANGED <<n, segs>>

-----------------------------------------------------------------------------
(* The loop of BreakIntoSegments, one event at a time.                     *)

Round ==
  /\ pc = "break"
  /\ n <= Len(swl)
  /\ n' = n + 1
  /\ UNCHANGED <<pc, swl, softs>>

(* Slip: the time of the change is not kept. *)
BecomesOnly(state) == ps' = [ps EXCEPT !.state = state]

Becomes(state) == ps' = [time |-> swl[n].time, state |-> state]

(* Slip: the softirqs are left aside. *)
RanThrough(sw) == segs' = Put(segs, Seg("RUNNING", ps.time, sw.time, NONE))

(* The time since the thread was switched in.  The first softirq that ends *)
(* on the CPU in that time has kept the thread from running; those after   *)
(* it are not looked at.                                                   *)
Ran(sw) ==
  LET pt == ps.time
      inside == {s \in GetCeilingSoft(sw.cpu, pt) : s.stime < sw.time /\ s.etime < sw.time}
  IN  IF inside = {}
        THEN segs' = Put(segs, Seg("RUNNING", pt, sw.time, NONE))
        ELSE \E s \in inside :
               segs' = Put(Put(Put(segs, Seg("RUNNING", pt, s.stime, NONE)),
                               Seg("RUNNABLE", s.stime, s.etime, NONE)),
                           Seg("RUNNING", s.etime, sw.time, NONE))

SwitchOut ==
  LET sw == swl[n] IN
  /\ Round
  /\ sw.type = "switch_to" /\ sw.prev = Pid
  /\ Becomes(IF sw.prevState = 0 THEN "RUNNABLE" ELSE "BLOCKED")
  /\ Ran(sw)

SwitchIn ==
  LET sw == swl[n] IN
  /\ Round
  /\ sw.type = "switch_to" /\ sw.prev # Pid /\ sw.next = Pid
  /\ segs' = Put(segs, Seg("RUNNABLE", ps.time, sw.time, NONE))
  /\ Becomes("RUNNING")

(* Slip: the pid in the record is taken for the waker in every context. *)
WaitedForPid(sw) == sw.prev

(* A thread waits for a thread, or for a kind of interrupt. *)
WaitedFor(sw) == IF sw.ctx = PROCESS THEN sw.prev ELSE -sw.ctx

(* Slip: every wake-up of the thread ends a wait. *)
WakesAlways(sw) == sw.type = "try_to_wake_up" /\ sw.next = Pid

(* A wake-up counts if the thread is BLOCKED. *)
Wakes(sw) == sw.type = "try_to_wake_up" /\ sw.next = Pid /\ ps.state = "BLOCKED"

WakeUp ==
  LET sw == swl[n] IN
  /\ Round
  /\ Wakes(sw)
  /\ Becomes("RUNNABLE")
  /\ segs' = Put(segs, Seg("BLOCKED", ps.time, sw.time, WaitedFor(sw)))

(* Other threads, wake-ups that do not count, creation and exit. *)
Skip ==
  LET sw == swl[n] IN
  /\ Round
  /\ sw.type = "switch_to" => Pid \notin {sw.prev, sw.next}
  /\ ~Wakes(sw)
  /\ UNCHANGED <<ps, segs>>

(* After the loop the state is looked up again, and what is found is the   *)
(* state from before the loop, which is neither RUNNING nor RUNNABLE.  The *)
(* exit of a thread cuts the segment it falls into; Floor may find none.   *)
Finish ==
  LET again == GetPrevState(swl) IN
  /\ pc = "break"
  /\ n > Len(swl)
  /\ ps' = again
  /\ \/ /\ Exits(swl) # {}
        /\ \E k \in Floor(segs, ExitTime(swl)) :
             segs' = [segs EXCEPT ![k].etime = ExitTime(swl)]
        /\ pc' = "done"
     \/ /\ Exits(swl) # {} /\ Floor(segs, ExitTime(swl)) = {}
        /\ pc' = "crashed"
        /\ UNCHANGED segs
     \/ /\ Exits(swl) = {}
        /\ segs' = Put(segs, Seg("BLOCKED", again.time, TraceEtime(swl), -UNKNOWN))
        /\ pc' = "done"
  /\ UNCHANGED <<swl, softs, n>>

Step == SwitchOut \/ SwitchIn \/ WakeUp \/ Skip \/ Finish

(* Any trace whose time stamps are in order, and any softirqs. *)
Ordered(sl) == \A l, m \in DOMAIN sl : l < m => sl[l].time <= sl[m].time

Next ==
  \/ \E sl \in Seq(Switch), ss \in SUBSET Soft : Ordered(sl) /\ Load(sl, ss)
  \/ Step

Spec == Init /\ [][Next]_vars

=============================================================================
