----------------------------- MODULE TracedWaits -----------------------------
(***************************************************************************)
(* Threads that run, sleep and wake each other, the segments the analyzer  *)
(* makes of their trace, and the wait-for graph it makes of the segments.  *)
(*                                                                         *)
(* TracedThread shows that segments tell what a thread did between its     *)
(* first and its last switch; here they are written down while it does it. *)
(* Softirqs, stale wake-ups and wake-ups that fail are left out.           *)
(*                                                                         *)
(* The record of an exit holds no time of its own but what was there in    *)
(* the ring buffer, so an exit is no moment of the trace, while its stamp  *)
(* may be any: before the trace, within it or after it.                    *)
(***************************************************************************)
EXTENDS Integers, Sequences

CONSTANTS
  PidList, Comm, Word,  \* of Cascade
  Others,               \* what wakes the threads but these themselves: threads
                        \* that are not analysed, and kinds of interrupts
  Stamps,               \* what may be in place of the time of an exit
  MaxTime               \* bound: how many switches and wake-ups

VARIABLES
  now,
  doing,                \* what each thread is doing
  since,                \* when it began, 0 before the thread's first switch
  told,                 \* its segments
  stamp                 \* the stamp of its exit, or -1

VARIABLES pc, segs, nth, pos, stack, seg, found, graph   \* of Cascade

Analyzer == INSTANCE Cascade

analyzerVars == <<pc, segs, nth, pos, stack, seg, found, graph>>
kernelVars == <<now, doing, since, told, stamp>>
vars == <<kernelVars, analyzerVars>>

Pids == Analyzer!Pids

ASSUME PidsAssumption == PidList \in Seq(Nat)
ASSUME WordAssumption == Word \in Nat \ {0}
ASSUME MaxTimeAssumption == MaxTime \in Nat
ASSUME StampsAssumption == Stamps \subseteq Nat
ASSUME OthersAssumption == Others \subseteq Int \ Pids

Init ==
  /\ Analyzer!Init
  /\ now = 0
  /\ doing \in [Pids -> {"running", "runnable", "blocked"}]
  /\ since = [p \in Pids |-> 0]
  /\ told = [p \in Pids |-> [t \in {} |-> Analyzer!None]]
  /\ stamp = [p \in Pids |-> -1]

-----------------------------------------------------------------------------
(* Threads.  What a thread did before its first switch is not told.        *)

Put(map, s) == [t \in DOMAIN map \cup {s.stime} |-> IF t = s.stime THEN s ELSE map[t]]

Tick == pc = "load" /\ now < MaxTime /\ now' = now + 1 /\ UNCHANGED analyzerVars

Changes(p, from, to, state, waitFor) ==
  /\ Tick
  /\ doing[p] = from /\ doing' = [doing EXCEPT ![p] = to]
  /\ told' = IF since[p] = 0 THEN told
             ELSE [told EXCEPT ![p] = Put(@, [pid |-> p, state |-> state, stime |-> since[p],
                                              etime |-> now + 1, waitFor |-> waitFor])]
  /\ UNCHANGED stamp

Switched(p) == since' = [since EXCEPT ![p] = now + 1]

SwitchIn(p) == Changes(p, "runnable", "running", "RUNNABLE", 0) /\ Switched(p)

SwitchOut(p) ==
  /\ \/ Changes(p, "running", "runnable", "RUNNING", 0)
     \/ Changes(p, "running", "blocked", "RUNNING", 0)
     \/ Changes(p, "exiting", "exited", "RUNNING", 0)
  /\ Switched(p)

(* A wake-up is no first switch. *)
WakeUp(p, by) ==
  /\ by \in Pids => doing[by] \in {"running", "exiting"}
  /\ Changes(p, "blocked", "runnable", "BLOCKED", by)
  /\ since' = IF since[p] = 0 THEN since ELSE [since EXCEPT ![p] = now + 1]

Exit(p) ==
  /\ pc = "load"
  /\ doing[p] = "running" /\ doing' = [doing EXCEPT ![p] = "exiting"]
  /\ \E t \in Stamps : stamp' = [stamp EXCEPT ![p] = t]
  /\ UNCHANGED <<now, since, told, analyzerVars>>

-----------------------------------------------------------------------------
(* The trace ends, with its switches or with a stamp.  The first segment   *)
(* of a thread is keyed by the end of the trace, or by the stamp of its    *)
(* exit.  At the end of the trace the wait without an end takes its place. *)
(* At a stamp it is cut to nothing: it, or the segment that begins at the  *)
(* stamp and has taken its place.                                          *)

End == CHOOSE t \in {now} \cup {stamp[p] : p \in Pids} :
         \A u \in {now} \cup {stamp[p] : p \in Pids} : u <= t

Empty(p) ==
  IF stamp[p] = -1
    THEN [pid |-> p, state |-> "BLOCKED", stime |-> End, etime |-> End, waitFor |-> -13]
    ELSE [pid |-> p, state |-> "RUNNABLE", stime |-> stamp[p], etime |-> stamp[p], waitFor |-> 0]

Ended(p) ==
  IF stamp[p] \in DOMAIN told[p]
    THEN [told[p] EXCEPT ![stamp[p]].etime = stamp[p]]
    ELSE Put(told[p], Empty(p))

(* On the exit of a thread that was never switched Segments gives up.      *)
Load ==
  /\ now > 0
  /\ \A p \in Pids : stamp[p] # -1 => since[p] # 0
  /\ Analyzer!Load([p \in Pids |-> Ended(p)])
  /\ UNCHANGED kernelVars

Analyze == Analyzer!Step /\ UNCHANGED kernelVars

Next ==
  \/ \E p \in Pids :
       \/ SwitchIn(p) \/ SwitchOut(p) \/ Exit(p)
       \/ \E by \in (Pids \ {p}) \cup Others : WakeUp(p, by)
  \/ Load
  \/ Analyze

Spec == Init /\ [][Next]_vars /\ WF_vars(Analyze)

-----------------------------------------------------------------------------
(* Properties: those of Cascade on these traces.                           *)

TypeOK == Analyzer!TypeOK

(* Each wait counts once, and only a wait to which the wait of another     *)
(* thread could be passed on may count for more.                           *)
DirectWaitsCounted == Analyzer!DirectWaitsCounted

(* What the graph is in fact: nothing is passed on.                        *)
GraphIsDirectWaits == Analyzer!GraphIsDirectWaits

(* What README.md says of the graph: a wait is passed on to the waits of   *)
(* its waker.  None is.                                                    *)
WaitsPassedOn == Analyzer!WaitsPassedOn

(* It gives up on a waker only that exited, and only if the stamp is from  *)
(* before the end of the wait and none of its told segments begins after   *)
(* the stamp: either the waker was still on its way out, or the stamp has  *)
(* cut the last of its segments or found nothing but the last switch.      *)
CrashesKnown ==
  pc = "crashed" =>
    LET w == stack[1]
        by == w.waitFor
    IN  /\ stamp[by] \in 0 .. w.etime - 1
        /\ doing[by] = "exiting" \/ \A t \in DOMAIN told[by] : t <= stamp[by]

(* The walk over the segments ends, and so does every search in it.        *)
AnalysisEnds == pc = "walk" ~> pc \in {"done", "crashed"}

=============================================================================
