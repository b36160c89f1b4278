---------------------------- MODULE RecorderProofs ----------------------------
(***************************************************************************)
(* Proofs about Recorder, for every list of instances and of events and    *)
(* every set of faults.                                                    *)
(***************************************************************************)
EXTENDS Recorder, SequenceTheorems, TLAPS

(***************************************************************************)
(* The inductive invariant, in the order of the run.                       *)
(***************************************************************************)

IsFun(f) == f = [i \in Instances |-> f[i]]

(* As much of the types as the argument needs. *)
TypeInv ==
  /\ pc \in Pcs
  /\ k \in Nat \ {0}
  /\ enabled \subseteq Events
  /\ filtered \subseteq Events
  /\ sigCb \in {"off", "ignore", "cleanup"}
  /\ sigPending \in {"no", "early", "late"}
  /\ retry \in [Instances -> BOOLEAN]
  /\ IsFun(reqs) /\ IsFun(fdIn) /\ IsFun(fdOut)
  /\ pc \in {"filter", "enable", "disable", "unfilter"} => k <= Len(EventList)
  /\ pc = "events" => k <= Len(InstanceList)

(* The events the current round of write_debugfs has been at. *)
Done(e) == \E n \in 1 .. k - 1 : e = EventList[n]

(* How far the control files have been written. *)
ControlInv ==
  /\ enabled \subseteq filtered
  /\ pc = "filter"   => \A e \in Events : Done(e) => e \in filtered
  /\ pc = "enable"   => filtered = Events
  /\ pc = "disable"  => \A e \in Events : Done(e) => e \notin enabled
  /\ pc = "unfilter" => enabled = {} /\ \A e \in Events : Done(e) => e \notin filtered
  /\ pc \in {"stopped", "returned"} \/ (pc = "loop" /\ stoppers # {})
       => enabled = {} /\ filtered = {}

SettingUp == {"start", "instances", "bufsize", "filter", "enable", "hook", "events", "arm"}
InCleanup == {"disable", "unfilter", "stopped"}

(* Who stopped the run, and what is left that could stop it again. *)
StopInv ==
  /\ "timer" \in stoppers => stoppers = {"timer"}
  /\ sigCb = "off" => sigPending = "no"
  /\ pc \in SettingUp => stoppers = {} /\ timer = "off"
  /\ pc = "events" \/ pc = "arm" => sigCb = "cleanup"
  /\ pc = "loop" /\ "timer" \notin stoppers => sigCb = "cleanup"
  /\ pc = "loop" /\ stoppers # {} => timer = "off"
  /\ pc = "loop" /\ "timer" \in stoppers => sigCb = "off"
  /\ pc \in InCleanup =>
       \/ caller = "timer_expire" /\ stoppers = {"timer"} /\ timer = "off"
       \/ caller = "sig_cleanup" /\ stoppers # {} /\ "timer" \notin stoppers
          /\ sigCb = "cleanup"

(* A chain of callbacks that has ended has closed its files, or failed. *)
Ended(i) == fdOut[i] # "none" /\ reqs[i] = {} /\ ~retry[i]
EndInv == \A i \in Instances : Ended(i) => fdIn[i] = "closed" \/ i \in failed

(* Every instance has been started once record_events is through, and has  *)
(* ended when uv_run returns.                                              *)
StartInv ==
  /\ pc = "events" => \A n \in 1 .. k - 1 : fdOut[InstanceList[n]] # "none"
  /\ pc \in {"arm", "loop"} \cup InCleanup => \A i \in Instances : fdOut[i] # "none"
  /\ pc = "returned" => \A i \in Instances : Ended(i)

RInv == TypeInv /\ ControlInv /\ StopInv /\ EndInv /\ StartInv

-----------------------------------------------------------------------------
(* The lists are not empty, and their elements are the events and the      *)
(* instances.                                                              *)
LEMMA Lists ==
  /\ Len(EventList) \in Nat \ {0} /\ \A n \in 1 .. Len(EventList) : EventList[n] \in Events
  /\ \A e \in Events : \E n \in 1 .. Len(EventList) : e = EventList[n]
  /\ Len(InstanceList) \in Nat \ {0}
  /\ \A n \in 1 .. Len(InstanceList) : InstanceList[n] \in Instances
  /\ \A i \in Instances : \E n \in 1 .. Len(InstanceList) : InstanceList[n] = i
<1>1. Len(EventList) \in Nat \ {0} /\ Len(InstanceList) \in Nat \ {0}
  BY EventListAssumption, InstanceListAssumption, LenProperties
<1>2. \A n \in 1 .. Len(InstanceList) : InstanceList[n] \in Instances
  BY InstanceListAssumption, ElementOfSeq
<1> QED
  BY <1>1, <1>2, InstanceListAssumption DEF Events

(* One round of write_debugfs: the event at k is the one more that is done, *)
(* and after the last one all are.                                          *)
LEMMA Rounds ==
  ASSUME TypeInv, NEW from, NEW to, from # to, WriteRound(from, to), k <= Len(EventList)
  PROVE  /\ pc = from /\ EventList[k] \in Events /\ k' \in Nat \ {0}
         /\ \/ /\ pc' = from /\ k' <= Len(EventList)
               /\ \A e : Done(e)' => Done(e) \/ e = EventList[k]
            \/ /\ pc' = to /\ k' = 1 /\ ~\E e : Done(e)'
               /\ \A e \in Events : Done(e) \/ e = EventList[k]
<1>1. k \in 1 .. Len(EventList) /\ EventList[k] \in Events
  BY Lists DEF TypeInv
<1>2. CASE k < Len(EventList) /\ k' = k + 1 /\ pc' = pc
  BY <1>1, <1>2, Lists DEF WriteRound, Done
<1>3. CASE k = Len(EventList) /\ k' = 1 /\ pc' = to
  <2>1. \A e \in Events : Done(e) \/ e = EventList[k]
    BY <1>1, <1>3, Lists DEF Done
  <2>2. ~\E e : Done(e)'
    BY <1>3 DEF Done
  <2> QED
    BY <1>1, <1>3, <2>1, <2>2 DEF WriteRound
<1> QED
  BY <1>2, <1>3 DEF WriteRound

(* A step that leaves the copy alone leaves the ends of its chains alone. *)
LEMMA SameCopy ==
  ASSUME UNCHANGED pumpVars
  PROVE  /\ EndInv => EndInv'
         /\ \A i \in Instances : Ended(i)' <=> Ended(i)
         /\ fdOut' = fdOut /\ reqs' = reqs /\ retry' = retry /\ fdIn' = fdIn
  BY DEF pumpVars, EndInv, Ended

(* No step of the pool or of a callback leaves a chain with neither a      *)
(* request nor its timer nor its files closed, or takes back an output.    *)
CopyKept ==
  /\ retry' \in [Instances -> BOOLEAN] /\ IsFun(reqs)' /\ IsFun(fdIn)' /\ IsFun(fdOut)'
  /\ EndInv'
  /\ \A j \in Instances : fdOut[j] # "none" => fdOut'[j] # "none"

(* A thread of the pool answers a request: one is still under way. *)
LEMMA PoolKeepsEnds ==
  ASSUME TypeInv, EndInv, NEW i \in Instances, Pump!PoolStep(i)
  PROVE  CopyKept
<1> USE DEF TypeInv, IsFun
<1> DEFINE Answered == /\ reqs' = [reqs EXCEPT ![i] = reqs'[i]] /\ reqs'[i] # {}
                       /\ UNCHANGED <<retry, fdIn, fdOut, failed>>
<1>1. ASSUME NEW res, Pump!PerformOpen(i, res) \/ Pump!PerformReadNothing(i, res)
      PROVE  Answered
  BY <1>1 DEF Pump!PerformOpen, Pump!PerformReadNothing, Pump!Answer, Pump!fdVars, Pump!historyVars
<1>2. ASSUME NEW n, NEW res, Pump!PerformReadData(i, n) \/ Pump!PerformWrite(i, n, res)
      PROVE  Answered
  BY <1>2 DEF Pump!PerformReadData, Pump!PerformWrite, Pump!Answer, Pump!fdVars
<1>3. Answered
  BY <1>1, <1>2 DEF Pump!PoolStep
<1> QED
  BY <1>3 DEF CopyKept, EndInv, Ended

(* A callback submits the next request, starts the timer, closes the files *)
(* or has met an error.                                                    *)
LEMMA CallbackKeepsEnds ==
  ASSUME TypeInv, EndInv, NEW i \in Instances, Pump!Callback(i)
  PROVE  CopyKept
<1> USE DEF TypeInv, IsFun
<1> DEFINE Only(f) == f' = [f EXCEPT ![i] = f'[i]]
<1> DEFINE Moved == /\ Only(reqs) /\ Only(retry) /\ retry'[i] \in BOOLEAN
                    /\ Only(fdIn) /\ Only(fdOut) /\ failed \subseteq failed'
                    /\ fdOut[i] # "none" => fdOut'[i] # "none"
                    /\ reqs'[i] # {} \/ retry'[i] = TRUE \/ fdIn'[i] = "closed" \/ i \in failed'
<1>1. ASSUME NEW res, Pump!OnOpen(i, res) PROVE Moved
  BY <1>1 DEF Pump!OnOpen, Pump!Consume, Pump!ConsumeAndSubmit
<1>2. ASSUME NEW res, Pump!OnRead(i, res) PROVE Moved
  BY <1>2 DEF Pump!OnRead, Pump!WriteOut, Pump!CloseFiles, Pump!Consume, Pump!ConsumeAndSubmit,
              Pump!fdVars
<1>3. ASSUME NEW res, Pump!OnWrite(i, res) PROVE Moved
  BY <1>3 DEF Pump!OnWrite, Pump!ReadOn, Pump!CloseFiles, Pump!Consume, Pump!ConsumeAndSubmit,
              Pump!fdVars
<1>4. ASSUME Pump!OnRetry(i) PROVE Moved
  BY <1>4 DEF Pump!OnRetry, Pump!Submit, Pump!fdVars, Pump!historyVars
<1>5. Moved
  BY <1>1, <1>2, <1>3, <1>4 DEF Pump!Callback
<1> QED
  BY <1>5 DEF CopyKept, EndInv, Ended

-----------------------------------------------------------------------------
(* The steps of the recorder.                                              *)

LEMMA InitRInv == Init => RInv
<1> SUFFICES ASSUME Init PROVE RInv
  OBVIOUS
<1> USE DEF Init, FreshProcess
<1>1. TypeInv
  BY DEF TypeInv, Pcs, IsFun, Pump!Init, Pump!FreshContexts
<1>2. ControlInv /\ StopInv
  BY DEF ControlInv, StopInv, SettingUp, InCleanup
<1>3. EndInv /\ StartInv
  BY DEF EndInv, Ended, StartInv, InCleanup, Pump!Init, Pump!FreshContexts
<1> QED
  BY <1>1, <1>2, <1>3 DEF RInv

(* A run that dies or gives up leaves the control files as they are. *)
LEMMA DieInv ==
  ASSUME RInv, NEW from, NEW fault, Die(from, fault) \/ GiveUp(from, fault)
  PROVE  RInv'
<1> USE DEF Die, GiveUp, Fail, RInv
<1>1. TypeInv' /\ ControlInv' /\ StopInv'
  BY SameCopy DEF TypeInv, Pcs, IsFun, ControlInv, StopInv, SettingUp, InCleanup, kernelCtl, pumpVars
<1>2. EndInv' /\ StartInv'
  BY SameCopy DEF StartInv, InCleanup
<1> QED
  BY <1>1, <1>2

(* The steps of the set-up that write no file of an event. *)
LEMMA SetupInv ==
  ASSUME RInv, StartSigIgnore \/ SetupInstances \/ SetBufsize \/ StartSigCleanup
  PROVE  RInv'
<1> USE DEF RInv
<1>1. CASE StartSigIgnore
  BY <1>1, SameCopy
     DEF StartSigIgnore, Goto, TypeInv, Pcs, IsFun, ControlInv, StopInv, StartInv, SettingUp,
         InCleanup, kernelCtl
<1>2. CASE SetupInstances
  <2>1. CASE Die("instances", "mkdir")
    BY <2>1, DieInv
  <2>2. CASE ~Die("instances", "mkdir")
    BY <1>2, <2>2, SameCopy
       DEF SetupInstances, Goto, TypeInv, Pcs, IsFun, ControlInv, StopInv, StartInv, SettingUp,
           InCleanup, kernelCtl
  <2> QED
    BY <2>1, <2>2
<1>3. CASE SetBufsize
  <2>1. CASE Die("bufsize", "debugfs")
    BY <2>1, DieInv
  <2>2. CASE ~Die("bufsize", "debugfs")
    BY <1>3, <2>2, SameCopy, Lists
       DEF SetBufsize, Goto, TypeInv, Pcs, IsFun, ControlInv, StopInv, StartInv, SettingUp,
           InCleanup, kernelCtl, Done
  <2> QED
    BY <2>1, <2>2
<1>4. CASE StartSigCleanup
  BY <1>4, SameCopy, Lists
     DEF StartSigCleanup, Goto, TypeInv, Pcs, IsFun, ControlInv, StopInv, StartInv, SettingUp,
         InCleanup, kernelCtl
<1> QED
  BY <1>1, <1>2, <1>3, <1>4

(* The rounds of write_debugfs.  An event is enabled once all are filtered, *)
(* and loses its filter once none is enabled.                              *)
LEMMA SetFilterInv == RInv /\ SetFilter => RInv'
<1> SUFFICES ASSUME RInv, SetFilter, ~Die("filter", "debugfs") PROVE RInv'
  BY DieInv
<1> USE DEF RInv, SetFilter
<1>1. k <= Len(EventList) /\ TypeInv
  BY DEF TypeInv, WriteRound
<1>2. /\ pc = "filter" /\ EventList[k] \in Events /\ k' \in Nat \ {0}
      /\ \/ /\ pc' = "filter" /\ k' <= Len(EventList)
            /\ \A e : Done(e)' => Done(e) \/ e = EventList[k]
         \/ /\ pc' = "enable" /\ k' = 1 /\ ~\E e : Done(e)'
            /\ \A e \in Events : Done(e) \/ e = EventList[k]
  BY <1>1, Rounds
<1>3. TypeInv'
  BY <1>1, <1>2, SameCopy, Lists DEF TypeInv, Pcs, IsFun
<1>4. ControlInv' /\ StopInv' /\ EndInv' /\ StartInv'
  BY <1>2, SameCopy DEF TypeInv, ControlInv, StopInv, StartInv, SettingUp, InCleanup
<1> QED
  BY <1>3, <1>4

LEMMA SetEnableInv == RInv /\ SetEnable => RInv'
<1> SUFFICES ASSUME RInv, SetEnable, ~Die("enable", "debugfs") PROVE RInv'
  BY DieInv
<1> USE DEF RInv, SetEnable
<1>1. k <= Len(EventList) /\ TypeInv
  BY DEF TypeInv, WriteRound
<1>2. /\ pc = "enable" /\ EventList[k] \in Events /\ k' \in Nat \ {0}
      /\ \/ pc' = "enable" /\ k' <= Len(EventList)
         \/ pc' = "hook"
  BY <1>1, Rounds
<1>3. TypeInv'
  BY <1>1, <1>2, SameCopy, Lists DEF TypeInv, Pcs, IsFun
<1>4. ControlInv' /\ StopInv' /\ EndInv' /\ StartInv'
  BY <1>2, SameCopy DEF TypeInv, ControlInv, StopInv, StartInv, SettingUp, InCleanup
<1> QED
  BY <1>3, <1>4

LEMMA ClearEnableInv == RInv /\ ClearEnable => RInv'
<1> SUFFICES ASSUME RInv, ClearEnable, ~Die("disable", "debugfs") PROVE RInv'
  BY DieInv
<1> USE DEF RInv, ClearEnable
<1>1. k <= Len(EventList) /\ TypeInv
  BY DEF TypeInv, WriteRound
<1>2. /\ pc = "disable" /\ EventList[k] \in Events /\ k' \in Nat \ {0}
      /\ \/ /\ pc' = "disable" /\ k' <= Len(EventList)
            /\ \A e : Done(e)' => Done(e) \/ e = EventList[k]
         \/ /\ pc' = "unfilter" /\ k' = 1 /\ ~\E e : Done(e)'
            /\ \A e \in Events : Done(e) \/ e = EventList[k]
  BY <1>1, Rounds
<1>3. TypeInv'
  BY <1>1, <1>2, SameCopy, Lists DEF TypeInv, Pcs, IsFun
<1>4. ControlInv'
  BY <1>2 DEF TypeInv, ControlInv
<1>5. StopInv' /\ EndInv' /\ StartInv'
  BY <1>2, SameCopy DEF StopInv, StartInv, SettingUp, InCleanup
<1> QED
  BY <1>3, <1>4, <1>5

LEMMA ClearFilterInv == RInv /\ ClearFilter => RInv'
<1> SUFFICES ASSUME RInv, ClearFilter, ~Die("unfilter", "debugfs") PROVE RInv'
  BY DieInv
<1> USE DEF RInv, ClearFilter
<1>1. k <= Len(EventList) /\ TypeInv
  BY DEF TypeInv, WriteRound
<1>2. /\ pc = "unfilter" /\ EventList[k] \in Events /\ k' \in Nat \ {0}
      /\ \/ /\ pc' = "unfilter" /\ k' <= Len(EventList)
            /\ \A e : Done(e)' => Done(e) \/ e = EventList[k]
         \/ /\ pc' = "stopped"
            /\ \A e \in Events : Done(e) \/ e = EventList[k]
  BY <1>1, Rounds
<1>3. TypeInv'
  BY <1>1, <1>2, SameCopy, Lists DEF TypeInv, Pcs, IsFun
<1>4. ControlInv'
  BY <1>2 DEF TypeInv, ControlInv
<1>5. StopInv' /\ EndInv' /\ StartInv'
  BY <1>2, SameCopy DEF StopInv, StartInv, SettingUp, InCleanup
<1> QED
  BY <1>3, <1>4, <1>5

(* record_events starts one instance after the other; when the timer is    *)
(* armed all of them are started.                                          *)
LEMMA RecordEventInv == RInv /\ RecordEvent => RInv'
<1> SUFFICES ASSUME RInv, RecordEvent PROVE RInv'
  OBVIOUS
<1> DEFINE i == InstanceList[k]
<1>1. /\ pc = "events" /\ k \in 1 .. Len(InstanceList) /\ i \in Instances
      /\ UNCHANGED <<kernelCtl, sigCb, sigPending, timer, caller, stoppers>>
  BY Lists DEF RInv, TypeInv, RecordEvent
<1>2. /\ fdOut' = [fdOut EXCEPT ![i] = fdOut'[i]] /\ fdOut'[i] # "none"
      /\ reqs' = [reqs EXCEPT ![i] = reqs'[i]] /\ reqs'[i] # {}
      /\ UNCHANGED <<retry, fdIn, failed>>
  BY <1>1 DEF RInv, TypeInv, IsFun, RecordEvent, Pump!RecordEvents, Pump!Submit, Pump!historyVars
<1>3. \/ k < Len(InstanceList) /\ k' = k + 1 /\ pc' = "events"
      \/ k = Len(InstanceList) /\ k' = 1 /\ pc' = "arm"
  BY <1>1 DEF RecordEvent
<1> HIDE DEF i
<1>4. TypeInv'
  BY <1>1, <1>2, <1>3 DEF RInv, TypeInv, Pcs, IsFun, kernelCtl
<1>5. ControlInv' /\ StopInv'
  BY <1>1, <1>3 DEF RInv, ControlInv, StopInv, SettingUp, InCleanup, kernelCtl
<1>6. EndInv'
  BY <1>1, <1>2 DEF RInv, TypeInv, IsFun, EndInv, Ended
<1>7. \A j \in Instances : fdOut[j] # "none" => fdOut'[j] # "none"
  BY <1>1, <1>2 DEF RInv, TypeInv, IsFun
<1>8. \A n \in 1 .. k : fdOut'[InstanceList[n]] # "none"
  <2>1. \A n \in 1 .. k - 1 : fdOut'[InstanceList[n]] # "none"
    BY <1>1, <1>7, Lists DEF RInv, StartInv
  <2> QED
    BY <1>1, <1>2, <2>1 DEF i
<1>9. StartInv'
  <2>1. CASE pc' = "events"
    BY <1>1, <1>3, <1>8, <2>1 DEF StartInv, InCleanup
  <2>2. CASE pc' = "arm"
    <3>1. \A j \in Instances : fdOut'[j] # "none"
      BY <1>1, <1>3, <1>8, <2>2, Lists
    <3> QED
      BY <2>2, <3>1 DEF StartInv
  <2> QED
    BY <1>3, <2>1, <2>2
<1> QED
  BY <1>4, <1>5, <1>6, <1>9 DEF RInv

LEMMA RecordEventsInv == RInv /\ RecordEvents => RInv'
  BY RecordEventInv, DieInv DEF RecordEvents

LEMMA ArmTimerInv == RInv /\ ArmTimer => RInv'
<1> SUFFICES ASSUME RInv, ArmTimer, ~GiveUp("arm", "worker") PROVE RInv'
  BY DieInv
<1> QED
  BY SameCopy
     DEF RInv, ArmTimer, Goto, TypeInv, Pcs, IsFun, ControlInv, StopInv, StartInv, SettingUp,
         InCleanup, kernelCtl

(* cleanup is called by a callback that stops the run for good: nothing    *)
(* that could stop it again is left when the loop runs on.                 *)
LEMMA StopInvariant == RInv /\ (TimerExpire \/ OnSignal) => RInv'
<1> SUFFICES ASSUME RInv, TimerExpire \/ OnSignal PROVE RInv'
  OBVIOUS
<1>1. OnSignal => sigCb = "cleanup" /\ sigPending # "timer"
  BY DEF RInv, TypeInv, StopInv, OnSignal
<1>2. /\ pc = "loop" /\ pc' = "disable" /\ k' = 1
      /\ UNCHANGED <<enabled, filtered, fdOut, reqs, retry, fdIn, failed, sigCb>>
      /\ \/ /\ timer = "armed" /\ timer' = "off" /\ caller' = "timer_expire"
            /\ stoppers' = stoppers \cup {"timer"} /\ sigPending' = sigPending
         \/ /\ sigPending # "no" /\ sigPending' = "no" /\ caller' = "sig_cleanup"
            /\ stoppers' = stoppers \cup {sigPending}
  BY <1>1 DEF TimerExpire, OnSignal, Goto, Pump!Expire, Pump!fdVars, Pump!historyVars, kernelCtl
<1>3. TypeInv'
  BY <1>2, Lists DEF RInv, TypeInv, Pcs, IsFun
<1>4. ControlInv'
  BY <1>2 DEF RInv, ControlInv, Done
<1>5. StopInv'
  BY <1>2 DEF RInv, TypeInv, StopInv, SettingUp, InCleanup
<1>6. EndInv' /\ StartInv'
  BY <1>2 DEF RInv, EndInv, StartInv, Ended, InCleanup
<1> QED
  BY <1>3, <1>4, <1>5, <1>6 DEF RInv

LEMMA AfterCleanupInv == RInv /\ AfterCleanup => RInv'
<1> SUFFICES ASSUME RInv, AfterCleanup PROVE RInv'
  OBVIOUS
<1> USE DEF RInv, AfterCleanup, StopOther, Goto
<1>1. TypeInv' /\ ControlInv'
  BY SameCopy DEF TypeInv, Pcs, IsFun, ControlInv, kernelCtl
<1>2. StopInv'
  BY DEF TypeInv, StopInv, SettingUp, InCleanup
<1>3. EndInv' /\ StartInv'
  BY SameCopy DEF StartInv, InCleanup
<1> QED
  BY <1>1, <1>2, <1>3

(* uv_run returns only after the run was stopped, and with every chain at  *)
(* its end.                                                                *)
LEMMA LoopReturnsInv == RInv /\ LoopReturns => RInv'
<1> SUFFICES ASSUME RInv, LoopReturns PROVE RInv'
  OBVIOUS
<1> USE DEF RInv, LoopReturns, LoopAlive, Goto
<1>1. TypeInv' /\ ControlInv'
  BY SameCopy DEF TypeInv, Pcs, IsFun, ControlInv, StopInv, kernelCtl
<1>2. StopInv'
  BY DEF StopInv, SettingUp, InCleanup
<1>3. \A i \in Instances : Ended(i)
  BY DEF StartInv, Ended
<1>4. EndInv' /\ StartInv'
  BY <1>3, SameCopy DEF StartInv, InCleanup
<1> QED
  BY <1>1, <1>2, <1>4

(* The copy goes on beside the control files. *)
LEMMA CopyRInv ==
  ASSUME RInv, NEW i \in Instances, PumpCallback(i) \/ PoolStep(i) \/ Produce(i)
  PROVE  RInv'
<1>1. UNCHANGED <<kernelCtl, processCtl>>
  BY DEF PumpCallback, PoolStep, Produce
<1>2. CASE PumpCallback(i) \/ PoolStep(i)
  <2>1. CopyKept
    BY <1>2, PoolKeepsEnds, CallbackKeepsEnds DEF RInv, PumpCallback, PoolStep
  <2>2. pc \notin {"returned", "gaveup", "dead"}
    BY <1>2 DEF PumpCallback, PoolStep, Running
  <2>3. TypeInv'
    BY <1>1, <2>1 DEF RInv, TypeInv, CopyKept, kernelCtl, processCtl
  <2>4. ControlInv' /\ StopInv'
    BY <1>1 DEF RInv, ControlInv, StopInv, Done, kernelCtl, processCtl
  <2>5. StartInv'
    <3>1. pc = "events" => \A n \in 1 .. k - 1 : fdOut'[InstanceList[n]] # "none"
      <4> SUFFICES ASSUME pc = "events", NEW n \in 1 .. k - 1
                   PROVE  fdOut'[InstanceList[n]] # "none"
        OBVIOUS
      <4>1. n \in 1 .. Len(InstanceList)
        BY Lists DEF RInv, TypeInv
      <4> QED
        BY <2>1, <4>1, Lists DEF RInv, StartInv, CopyKept
    <3> QED
      BY <1>1, <2>1, <2>2, <3>1 DEF RInv, StartInv, CopyKept, processCtl
  <2> QED
    BY <2>1, <2>3, <2>4, <2>5 DEF RInv, CopyKept
<1>3. CASE Produce(i)
  <2>1. UNCHANGED <<reqs, retry, fdIn, fdOut, failed>>
    BY <1>3 DEF Produce, Pump!Produce, Pump!fdVars
  <2>2. TypeInv' /\ EndInv'
    BY <1>1, <2>1 DEF RInv, TypeInv, IsFun, EndInv, Ended, kernelCtl, processCtl
  <2>3. ControlInv' /\ StopInv' /\ StartInv'
    BY <1>1, <2>1 DEF RInv, ControlInv, StopInv, StartInv, Ended, Done, kernelCtl, processCtl
  <2> QED
    BY <2>2, <2>3 DEF RInv
<1> QED
  BY <1>2, <1>3

(* A SIGINT ends the process or waits for the loop. *)
LEMMA SigintInv == RInv /\ Sigint => RInv'
<1> SUFFICES ASSUME RInv, Sigint PROVE RInv'
  OBVIOUS
<1> USE DEF RInv, Sigint
<1>1. TypeInv' /\ ControlInv'
  BY SameCopy DEF TypeInv, Pcs, IsFun, ControlInv, Done, kernelCtl
<1>2. StopInv'
  BY DEF StopInv, SettingUp, InCleanup
<1>3. EndInv' /\ StartInv'
  BY SameCopy DEF StartInv, InCleanup
<1> QED
  BY <1>1, <1>2, <1>3

(* The next run starts with the events and filters the last one left. *)
LEMMA RestartInv == RInv /\ Restart => RInv'
<1> SUFFICES ASSUME RInv, Restart PROVE RInv'
  OBVIOUS
<1> USE DEF RInv, Restart, FreshProcess
<1>1. TypeInv'
  BY DEF TypeInv, Pcs, IsFun, Pump!NewRun, Pump!FreshContexts, kernelCtl
<1>2. ControlInv' /\ StopInv'
  BY DEF ControlInv, StopInv, SettingUp, InCleanup, kernelCtl
<1>3. EndInv' /\ StartInv'
  BY DEF EndInv, Ended, StartInv, InCleanup, Pump!NewRun, Pump!FreshContexts
<1> QED
  BY <1>1, <1>2, <1>3

LEMMA StepRInv == RInv /\ [Next]_vars => RInv'
<1> SUFFICES ASSUME RInv, [Next]_vars PROVE RInv'
  OBVIOUS
<1>1. CASE UNCHANGED vars
  BY <1>1, SameCopy
     DEF RInv, TypeInv, IsFun, ControlInv, StopInv, StartInv, Done, vars, kernelCtl, processCtl
<1>2. CASE Control
  BY <1>2, SetupInv, SetFilterInv, SetEnableInv, RecordEventsInv, ArmTimerInv, ClearEnableInv,
     ClearFilterInv, AfterCleanupInv, LoopReturnsInv DEF Control
<1>3. CASE TimerExpire \/ OnSignal
  BY <1>3, StopInvariant
<1>4. CASE Sigint \/ Restart
  BY <1>4, SigintInv, RestartInv
<1>5. ASSUME NEW i \in Instances, PumpCallback(i) \/ PoolStep(i) \/ Produce(i) PROVE RInv'
  BY <1>5, CopyRInv
<1> QED
  BY <1>1, <1>2, <1>3, <1>4, <1>5 DEF Next

-----------------------------------------------------------------------------
(* The theorems.                                                           *)

THEOREM RecorderInvariance == Spec => []RInv
<1> QED
  BY InitRInv, StepRInv, PTL DEF Spec

(* set_filter_and_enable and cleanup order their writes, and a run starts  *)
(* with the filters, so that no event is ever enabled without one, however *)
(* many runs have failed half-way before.                                  *)
THEOREM FilteredWhileEnabledHolds == Spec => []FilteredWhileEnabled
<1>1. RInv => FilteredWhileEnabled
  BY DEF RInv, ControlInv, FilteredWhileEnabled
<1> QED
  BY <1>1, RecorderInvariance, PTL

(* timer_expire and sig_cleanup switch each other off. *)
THEOREM OneStopperHolds == Spec => []OneStopper
<1>1. RInv => OneStopper
  BY DEF RInv, StopInv, OneStopper
<1> QED
  BY <1>1, RecorderInvariance, PTL

(* uv_run returns with the kernel restored and every copy ended.  A run    *)
(* that gave up before, with -1, leaves every event as it was.             *)
THEOREM CleanReturnHolds == Spec => []CleanReturn
<1>1. RInv => CleanReturn
  BY DEF RInv, ControlInv, StartInv, EndInv, CleanReturn
<1> QED
  BY <1>1, RecorderInvariance, PTL

(* Every step of the recorder is a step of the copy or leaves it alone. *)
LEMMA StepIsPumpStep == RInv /\ [Next]_vars => [Pump!Next]_(Pump!vars)
<1> SUFFICES ASSUME RInv, [Next]_vars PROVE [Pump!Next]_(Pump!vars)
  OBVIOUS
<1>1. UNCHANGED pumpVars => UNCHANGED Pump!vars
  BY DEF pumpVars, Pump!vars, Pump!kernelVars, Pump!iovVars, Pump!fdVars, Pump!historyVars
<1>2. CASE UNCHANGED vars
  BY <1>1, <1>2 DEF vars
<1>3. CASE RecordEvent
  BY <1>3, Lists DEF RInv, TypeInv, RecordEvent, Pump!Next
<1>4. CASE Control /\ ~RecordEvent
  BY <1>1, <1>4
     DEF Control, StartSigIgnore, SetupInstances, SetBufsize, SetFilter, SetEnable,
         StartSigCleanup, RecordEvents, ArmTimer, ClearEnable, ClearFilter, AfterCleanup,
         LoopReturns, Die, GiveUp, Fail
<1>5. CASE TimerExpire
  BY <1>5 DEF TimerExpire, Pump!Next
<1>6. CASE OnSignal
  BY <1>1, <1>6 DEF OnSignal, Pump!Next
<1>7. CASE Sigint
  BY <1>1, <1>7 DEF Sigint
<1>8. CASE Restart
  BY <1>8 DEF Restart, Pump!Next
<1>9. ASSUME NEW i \in Instances, PumpCallback(i) \/ PoolStep(i) \/ Produce(i)
      PROVE  Pump!Next
  BY <1>9 DEF PumpCallback, PoolStep, Produce, Pump!Next
<1> QED
  BY <1>2, <1>3, <1>4, <1>5, <1>6, <1>7, <1>8, <1>9 DEF Next

(* The recorder drives the copy as EventPump allows it, so what is proved  *)
(* of the copy holds inside the recorder, SIGINTs and restarts included.   *)
THEOREM RecorderImplementsPump == Spec => Pump!Spec
<1>1. Init => Pump!Init
  BY DEF Init
<1>2. RInv /\ [Next]_vars => [Pump!Next]_(Pump!vars)
  BY StepIsPumpStep
<1> QED
  BY <1>1, <1>2, RecorderInvariance, PTL DEF Spec, Pump!Spec

-----------------------------------------------------------------------------
(* What EventPumpProofs proves of the copy, inside the recorder.  The two  *)
(* instances of EventPump name the same formulas.                          *)

PumpProofs == INSTANCE EventPumpProofs

LEMMA SameInit == Pump!Init <=> PumpProofs!Init
  BY Zenon
     DEF Pump!Init, PumpProofs!Init, Pump!FreshContexts, PumpProofs!FreshContexts

LEMMA SameProduce ==
  ASSUME NEW i
  PROVE  Pump!Produce(i) <=> PumpProofs!Produce(i)
  BY Zenon
     DEF Pump!Produce, PumpProofs!Produce, Pump!kernelVars, PumpProofs!kernelVars,
         Pump!iovVars, PumpProofs!iovVars, Pump!fdVars, PumpProofs!fdVars,
         Pump!historyVars, PumpProofs!historyVars

LEMMA SamePerformOpen ==
  ASSUME NEW i, NEW res
  PROVE  Pump!PerformOpen(i, res) <=> PumpProofs!PerformOpen(i, res)
  BY Zenon
     DEF Pump!PerformOpen, PumpProofs!PerformOpen, Pump!Answer, PumpProofs!Answer,
         Pump!Request, PumpProofs!Request, Pump!kernelVars, PumpProofs!kernelVars,
         Pump!iovVars, PumpProofs!iovVars, Pump!fdVars, PumpProofs!fdVars,
         Pump!historyVars, PumpProofs!historyVars

LEMMA SamePerformRead ==
  ASSUME NEW i, NEW res, NEW n
  PROVE  /\ Pump!PerformReadNothing(i, res) <=> PumpProofs!PerformReadNothing(i, res)
         /\ Pump!PerformReadData(i, n) <=> PumpProofs!PerformReadData(i, n)
  BY Zenon
     DEF Pump!PerformReadNothing, PumpProofs!PerformReadNothing, Pump!PerformReadData,
         PumpProofs!PerformReadData, Pump!Ring, PumpProofs!Ring, Pump!Answer,
         PumpProofs!Answer, Pump!Request, PumpProofs!Request, Pump!kernelVars,
         PumpProofs!kernelVars, Pump!iovVars, PumpProofs!iovVars, Pump!fdVars,
         PumpProofs!fdVars, Pump!historyVars, PumpProofs!historyVars

LEMMA SamePerformWrite ==
  ASSUME NEW i, NEW n, NEW res
  PROVE  Pump!PerformWrite(i, n, res) <=> PumpProofs!PerformWrite(i, n, res)
  BY Zenon
     DEF Pump!PerformWrite, PumpProofs!PerformWrite, Pump!Stretch, PumpProofs!Stretch,
         Pump!Iov, PumpProofs!Iov, Pump!Range, PumpProofs!Range, Pump!Answer,
         PumpProofs!Answer, Pump!Request, PumpProofs!Request, Pump!kernelVars,
         PumpProofs!kernelVars, Pump!iovVars, PumpProofs!iovVars, Pump!fdVars,
         PumpProofs!fdVars, Pump!historyVars, PumpProofs!historyVars

LEMMA SameRecordEvents ==
  ASSUME NEW i, NEW out
  PROVE  Pump!RecordEvents(i, out) <=> PumpProofs!RecordEvents(i, out)
  BY Zenon
     DEF Pump!RecordEvents, PumpProofs!RecordEvents, Pump!Submit, PumpProofs!Submit,
         Pump!Request, PumpProofs!Request, Pump!kernelVars, PumpProofs!kernelVars,
         Pump!iovVars, PumpProofs!iovVars, Pump!fdVars, PumpProofs!fdVars,
         Pump!historyVars, PumpProofs!historyVars

LEMMA SameOnOpen ==
  ASSUME NEW i, NEW res
  PROVE  Pump!OnOpen(i, res) <=> PumpProofs!OnOpen(i, res)
  BY Zenon
     DEF Pump!OnOpen, PumpProofs!OnOpen, Pump!Deliver, PumpProofs!Deliver, Pump!Consume,
         PumpProofs!Consume, Pump!ConsumeAndSubmit, PumpProofs!ConsumeAndSubmit,
         Pump!Request, PumpProofs!Request, Pump!kernelVars, PumpProofs!kernelVars,
         Pump!iovVars, PumpProofs!iovVars, Pump!fdVars, PumpProofs!fdVars,
         Pump!historyVars, PumpProofs!historyVars

LEMMA SameOnRead ==
  ASSUME NEW i, NEW res
  PROVE  Pump!OnRead(i, res) <=> PumpProofs!OnRead(i, res)
  BY Zenon
     DEF Pump!OnRead, PumpProofs!OnRead, Pump!StopsReading, PumpProofs!StopsReading,
         Pump!CloseFiles, PumpProofs!CloseFiles, Pump!WriteOut, PumpProofs!WriteOut,
         Pump!Deliver, PumpProofs!Deliver, Pump!Consume, PumpProofs!Consume,
         Pump!ConsumeAndSubmit, PumpProofs!ConsumeAndSubmit, Pump!Request,
         PumpProofs!Request, Pump!kernelVars, PumpProofs!kernelVars, Pump!iovVars,
         PumpProofs!iovVars, Pump!fdVars, PumpProofs!fdVars, Pump!historyVars,
         PumpProofs!historyVars

LEMMA SameOnWrite ==
  ASSUME NEW i, NEW res
  PROVE  Pump!OnWrite(i, res) <=> PumpProofs!OnWrite(i, res)
  BY Zenon
     DEF Pump!OnWrite, PumpProofs!OnWrite, Pump!ReadOn, PumpProofs!ReadOn, Pump!CloseFiles,
         PumpProofs!CloseFiles, Pump!Deliver, PumpProofs!Deliver, Pump!Consume,
         PumpProofs!Consume, Pump!ConsumeAndSubmit, PumpProofs!ConsumeAndSubmit,
         Pump!Request, PumpProofs!Request, Pump!kernelVars, PumpProofs!kernelVars,
         Pump!iovVars, PumpProofs!iovVars, Pump!fdVars, PumpProofs!fdVars,
         Pump!historyVars, PumpProofs!historyVars

LEMMA SameOnRetry ==
  ASSUME NEW i
  PROVE  Pump!OnRetry(i) <=> PumpProofs!OnRetry(i)
  BY Zenon
     DEF Pump!OnRetry, PumpProofs!OnRetry, Pump!Submit, PumpProofs!Submit, Pump!Request,
         PumpProofs!Request, Pump!kernelVars, PumpProofs!kernelVars, Pump!iovVars,
         PumpProofs!iovVars, Pump!fdVars, PumpProofs!fdVars, Pump!historyVars,
         PumpProofs!historyVars

LEMMA SameExpire == Pump!Expire <=> PumpProofs!Expire
  BY Zenon
     DEF Pump!Expire, PumpProofs!Expire, Pump!kernelVars, PumpProofs!kernelVars,
         Pump!iovVars, PumpProofs!iovVars, Pump!fdVars, PumpProofs!fdVars,
         Pump!historyVars, PumpProofs!historyVars

LEMMA SameNewRun == Pump!NewRun <=> PumpProofs!NewRun
  BY Zenon
     DEF Pump!NewRun, PumpProofs!NewRun, Pump!FreshContexts, PumpProofs!FreshContexts,
         Pump!kernelVars, PumpProofs!kernelVars, Pump!iovVars, PumpProofs!iovVars,
         Pump!fdVars, PumpProofs!fdVars, Pump!historyVars, PumpProofs!historyVars

LEMMA SameNext == [Pump!Next]_(Pump!vars) => [PumpProofs!Next]_(PumpProofs!vars)
<1>1. ASSUME NEW i PROVE Pump!PoolStep(i) <=> PumpProofs!PoolStep(i)
  BY Zenon, SamePerformOpen, SamePerformRead, SamePerformWrite
     DEF Pump!PoolStep, PumpProofs!PoolStep, Pump!Results, PumpProofs!Results
<1>2. ASSUME NEW i PROVE Pump!Callback(i) <=> PumpProofs!Callback(i)
  BY Zenon, SameOnOpen, SameOnRead, SameOnWrite, SameOnRetry
     DEF Pump!Callback, PumpProofs!Callback, Pump!Results, PumpProofs!Results
<1>3. Pump!Next <=> PumpProofs!Next
  BY Zenon, <1>1, <1>2, SameProduce, SameRecordEvents, SameExpire, SameNewRun
     DEF Pump!Next, PumpProofs!Next
<1>4. UNCHANGED Pump!vars => UNCHANGED PumpProofs!vars
  BY Zenon
     DEF Pump!vars, PumpProofs!vars, Pump!kernelVars, PumpProofs!kernelVars, Pump!iovVars,
         PumpProofs!iovVars, Pump!fdVars, PumpProofs!fdVars, Pump!historyVars,
         PumpProofs!historyVars
<1> QED
  BY Zenon, <1>3, <1>4

LEMMA SameTypeOK == Pump!TypeOK <=> PumpProofs!TypeOK
  BY Zenon
     DEF Pump!TypeOK, PumpProofs!TypeOK, Pump!Files, PumpProofs!Files, Pump!Ops,
         PumpProofs!Ops, Pump!Results, PumpProofs!Results, Pump!FdState, PumpProofs!FdState

LEMMA SameProperties == 
  /\ Pump!OneOutstanding <=> PumpProofs!OneOutstanding
  /\ Pump!BufferDiscipline <=> PumpProofs!BufferDiscipline
  /\ Pump!NoSilentLoss <=> PumpProofs!NoSilentLoss
  /\ Pump!DrainedAtClose <=> PumpProofs!DrainedAtClose
  BY Zenon
     DEF Pump!OneOutstanding, PumpProofs!OneOutstanding, Pump!BufferDiscipline,
         PumpProofs!BufferDiscipline, Pump!NoSilentLoss, PumpProofs!NoSilentLoss,
         Pump!DrainedAtClose, PumpProofs!DrainedAtClose, Pump!Request, PumpProofs!Request,
         Pump!Iov, PumpProofs!Iov, Pump!Ring, PumpProofs!Ring, Pump!Written,
         PumpProofs!Written, Pump!Range, PumpProofs!Range

LEMMA PumpInside == Spec => PumpProofs!Spec
<1>1. Init => PumpProofs!Init
  BY SameInit DEF Init
<1>2. RInv /\ [Next]_vars => [PumpProofs!Next]_(PumpProofs!vars)
  BY StepIsPumpStep, SameNext
<1> QED
  BY <1>1, <1>2, RecorderInvariance, PTL DEF Spec, PumpProofs!Spec

LEMMA PumpConstants ==
  /\ BufRecords \in Nat \ {0} /\ RingRecords \in Nat \ {0} /\ MaxRecords \in Nat
  /\ Faults \subseteq PumpProofs!FaultKinds
  BY PumpAssumption DEF Pump!FaultKinds, PumpProofs!FaultKinds

(* The rest of the recorder's own variables. *)
HandleTypes ==
  /\ timer \in {"off", "armed"}
  /\ caller \in {"none", "timer_expire", "sig_cleanup"}
  /\ stoppers \subseteq {"timer", "early", "late"}

LEMMA StepHandles == RInv /\ HandleTypes /\ [Next]_vars => HandleTypes'
<1> SUFFICES ASSUME RInv, HandleTypes, [Next]_vars PROVE HandleTypes'
  OBVIOUS
<1>1. sigPending \in {"no", "early", "late"}
  BY DEF RInv, TypeInv
<1>2. CASE UNCHANGED vars
  BY <1>2 DEF HandleTypes, vars, processCtl
<1>3. CASE Control
  BY <1>3
     DEF HandleTypes, Control, StartSigIgnore, SetupInstances, SetBufsize, SetFilter, SetEnable,
         StartSigCleanup, RecordEvents, RecordEvent, ArmTimer, ClearEnable, ClearFilter,
         AfterCleanup, StopOther, LoopReturns, Die, GiveUp, Fail
<1>4. CASE TimerExpire \/ OnSignal
  BY <1>1, <1>4 DEF HandleTypes, TimerExpire, OnSignal
<1>5. CASE Sigint \/ Restart
  BY <1>5 DEF HandleTypes, Sigint, Restart, FreshProcess
<1>6. ASSUME NEW i \in Instances, PumpCallback(i) \/ PoolStep(i) \/ Produce(i)
      PROVE  HandleTypes'
  BY <1>6 DEF HandleTypes, PumpCallback, PoolStep, Produce, processCtl
<1> QED
  BY <1>2, <1>3, <1>4, <1>5, <1>6 DEF Next

(* Every variable of the recorder and of its event contexts keeps to its   *)
(* type, whatever fails and whenever SIGINT comes.                         *)
THEOREM TypeCorrect == Spec => []TypeOK
<1>1. Init => HandleTypes
  BY DEF Init, FreshProcess, HandleTypes
<1>2. RInv /\ HandleTypes /\ PumpProofs!TypeOK => TypeOK
  BY SameTypeOK DEF RInv, TypeInv, HandleTypes, TypeOK
<1>3. PumpProofs!Spec => []PumpProofs!TypeOK
  BY PumpConstants, PumpProofs!TypeCorrect
<1> QED
  BY <1>1, <1>2, <1>3, PumpInside, RecorderInvariance, StepHandles, PTL DEF Spec

(* What EventPump promises of the copy holds with the recorder's own       *)
(* order of starting, expiring and ending: one request at a time, whole    *)
(* reads and exact writes, no silent loss and no early end.                *)
THEOREM CopyInsideRecorder ==
  Spec => [](Pump!OneOutstanding /\ Pump!BufferDiscipline
               /\ Pump!NoSilentLoss /\ Pump!DrainedAtClose)
<1>1. PumpProofs!Spec => []PumpProofs!OneOutstanding
  BY PumpConstants, PumpProofs!OneOutstandingHolds
<1>2. PumpProofs!Spec => []PumpProofs!BufferDiscipline
  BY PumpConstants, PumpProofs!BufferDisciplineHolds
<1>3. PumpProofs!Spec => []PumpProofs!NoSilentLoss
  BY PumpConstants, PumpProofs!NoSilentLossHolds
<1>4. PumpProofs!Spec => []PumpProofs!DrainedAtClose
  BY PumpConstants, PumpProofs!DrainedAtCloseHolds
<1> QED
  BY <1>1, <1>2, <1>3, <1>4, SameProperties, PumpInside, PTL

=============================================================================
