------------------------------- MODULE Recorder -------------------------------
(***************************************************************************)
(* recorder/recorder.c with the parts of recorder/event.c it calls: one    *)
(* run of the recorder from recorder_run to its return, with the result of *)
(* uv_run or with -1, or to exit(1), and the next run on what that one     *)
(* left in the kernel.                                                     *)
(*                                                                         *)
(* The loop thread prepares the trace instances, writes a filter and then  *)
(* an enable file per event, starts the copy of every instance             *)
(* (EventPump), arms the expiry timer and runs the event loop.  The run is *)
(* stopped by the timer or by SIGINT; both callbacks call cleanup, which   *)
(* sets `expired' and writes the same files again to switch the events     *)
(* off.  The kernel keeps producing records and libuv's pool keeps         *)
(* performing requests while the loop thread is inside a callback.         *)
(*                                                                         *)
(* This is the recorder as README.md invokes it, with neither -d nor -n.   *)
(* Of the io workers there is only that starting one may fail.             *)
(***************************************************************************)
EXTENDS Integers, Sequences

CONSTANTS
  Instances, BufRecords, RingRecords, MaxRecords, Faults,   \* of EventPump
  InstanceList,         \* the instances in the order of `instances[]'
  EventList,            \* the events in the order write_debugfs visits them
  InstanceOf,           \* the instance an event belongs to
  CtlFaults             \* which steps outside the copy may fail

CtlFaultKinds == {"mkdir", "debugfs", "memory", "worker"}
Events == {EventList[n] : n \in 1 .. Len(EventList)}

ASSUME InstanceListAssumption ==
  /\ InstanceList \in Seq(Instances)
  /\ Len(InstanceList) > 0
  /\ \A i \in Instances : \E n \in 1 .. Len(InstanceList) : InstanceList[n] = i
  /\ \A m, n \in 1 .. Len(InstanceList) : InstanceList[m] = InstanceList[n] => m = n
ASSUME EventListAssumption ==
  /\ EventList \in Seq(Events)
  /\ Len(EventList) > 0
  /\ InstanceOf \in [Events -> Instances]
ASSUME CtlFaultsAssumption == CtlFaults \subseteq CtlFaultKinds

VARIABLES
  produced, head, lo, hi, iovLen, file, reqs, retry, fdIn, fdOut, expired,
  base, lost, lastRead, failed                              \* of EventPump

VARIABLES
  pc,                   \* what the loop thread does next
  k,                    \* index of the loop it is in
  enabled,              \* events whose enable file holds 1, in the kernel
  filtered,             \* events whose filter file holds an expression
  sigCb,                \* the callback of sig_handler, "off" when stopped
  sigPending,           \* a SIGINT waits for the loop: it arrived "early",
                        \* while sig_ignore was installed, or "late"
  timer,                \* expire_handler is "off" or "armed"
  caller,               \* the callback that is inside cleanup, or "none"
  stoppers              \* history: what made the run call cleanup

(* The copy.  Every action below makes a step of Pump or leaves its variables *)
(* alone, so the recorder implements Pump!Spec.                            *)
Pump == INSTANCE EventPump

(* What EventPump assumes of its constants. *)
ASSUME PumpAssumption ==
  /\ BufRecords \in Nat \ {0} /\ RingRecords \in Nat \ {0} /\ MaxRecords \in Nat
  /\ Faults \subseteq Pump!FaultKinds

pumpVars == <<produced, head, lo, hi, iovLen, file, reqs, retry, fdIn, fdOut,
              expired, base, lost, lastRead, failed>>

kernelCtl  == <<enabled, filtered>>
processCtl == <<pc, k, sigCb, sigPending, timer, caller, stoppers>>
vars == <<pumpVars, kernelCtl, processCtl>>

Pcs == {"start", "instances", "bufsize", "filter", "enable", "hook", "events",
        "arm", "loop", "disable", "unfilter", "stopped", "returned", "gaveup", "dead"}

TypeOK ==
  /\ Pump!TypeOK
  /\ pc \in Pcs
  /\ k \in Nat
  /\ enabled \subseteq Events
  /\ filtered \subseteq Events
  /\ sigCb \in {"off", "ignore", "cleanup"}
  /\ sigPending \in {"no", "early", "late"}
  /\ timer \in {"off", "armed"}
  /\ caller \in {"none", "timer_expire", "sig_cleanup"}
  /\ stoppers \subseteq {"timer", "early", "late"}

Running == pc \notin {"returned", "gaveup", "dead"}

FreshProcess(pc_, k_, sigCb_, sigPending_, timer_, caller_, stoppers_) ==
  /\ pc_ = "start"
  /\ k_ = 1
  /\ sigCb_ = "off"
  /\ sigPending_ = "no"
  /\ timer_ = "off"
  /\ caller_ = "none"
  /\ stoppers_ = {}

Init ==
  /\ Pump!Init
  /\ FreshProcess(pc, k, sigCb, sigPending, timer, caller, stoppers)
  /\ enabled = {}
  /\ filtered = {}

-----------------------------------------------------------------------------
(* Setting up, in the order of recorder_run.                               *)

Goto(from, to) == pc = from /\ pc' = to /\ k' = 1

Fail(from, fault, to) ==
  /\ pc = from /\ fault \in CtlFaults
  /\ pc' = to
  /\ UNCHANGED <<pumpVars, kernelCtl, k, sigCb, sigPending, timer, caller, stoppers>>

(* exit(1) or an assertion ends the process where it is. *)
Die(from, fault) == Fail(from, fault, "dead")

(* recorder_run returns -1, and main exits. *)
GiveUp(from, fault) == Fail(from, fault, "gaveup")

StartSigIgnore ==
  /\ Goto("start", "instances")
  /\ sigCb' = "ignore"
  /\ UNCHANGED <<pumpVars, kernelCtl, sigPending, timer, caller, stoppers>>

(* setup_event_instances; setup_ioworkers returns at once. *)
SetupInstances ==
  \/ /\ Goto("instances", "bufsize")
     /\ UNCHANGED <<pumpVars, kernelCtl, sigCb, sigPending, timer, caller, stoppers>>
  \/ Die("instances", "mkdir")

SetBufsize ==
  \/ /\ Goto("bufsize", "filter")
     /\ UNCHANGED <<pumpVars, kernelCtl, sigCb, sigPending, timer, caller, stoppers>>
  \/ Die("bufsize", "debugfs")

(* One round of write_debugfs: the file of event k is written, and after   *)
(* the last event the thread goes on to `to'.                              *)
WriteRound(from, to) ==
  /\ pc = from
  /\ \/ /\ k < Len(EventList)
        /\ k' = k + 1
        /\ pc' = pc
     \/ /\ k = Len(EventList)
        /\ k' = 1
        /\ pc' = to

(* set_filter_and_enable: all filters first, then all enables. *)
SetFilter ==
  \/ /\ WriteRound("filter", "enable")
     /\ filtered' = filtered \cup {EventList[k]}
     /\ UNCHANGED <<pumpVars, enabled, sigCb, sigPending, timer, caller, stoppers>>
  \/ Die("filter", "debugfs")

SetEnable ==
  \/ /\ WriteRound("enable", "hook")
     /\ enabled' = enabled \cup {EventList[k]}
     /\ UNCHANGED <<pumpVars, filtered, sigCb, sigPending, timer, caller, stoppers>>
  \/ Die("enable", "debugfs")

(* The handle is started already: uv_signal_start only replaces its callback. *)
StartSigCleanup ==
  /\ Goto("hook", "events")
  /\ sigCb' = "cleanup"
  /\ UNCHANGED <<pumpVars, kernelCtl, sigPending, timer, caller, stoppers>>

(* One round of the loop of record_events. *)
RecordEvent ==
  /\ pc = "events"
  /\ \E out \in {"open", "error"} : Pump!RecordEvents(InstanceList[k], out)
  /\ \/ k < Len(InstanceList) /\ k' = k + 1 /\ pc' = pc
     \/ k = Len(InstanceList) /\ k' = 1 /\ pc' = "arm"
  /\ UNCHANGED <<kernelCtl, sigCb, sigPending, timer, caller, stoppers>>

(* The array of the contexts comes before the first round; the buffer of a *)
(* context that cannot be had is an assertion.                             *)
RecordEvents ==
  \/ RecordEvent
  \/ k = 1 /\ GiveUp("events", "memory")
  \/ Die("events", "memory")

(* Without a worker record_ioworkers has nothing to do and cannot fail; it *)
(* may with one.                                                           *)
ArmTimer ==
  \/ /\ Goto("arm", "loop")
     /\ timer' = "armed"
     /\ UNCHANGED <<pumpVars, kernelCtl, sigCb, sigPending, caller, stoppers>>
  \/ GiveUp("arm", "worker")

-----------------------------------------------------------------------------
(* The event loop.                                                         *)

PumpCallback(i) ==
  /\ pc = "loop"
  /\ Pump!Callback(i)
  /\ UNCHANGED <<kernelCtl, processCtl>>

(* Slip: timer_expire does not set `expired'. *)
TimerExpireUnmarked ==
  /\ timer = "armed"
  /\ Goto("loop", "disable")
  /\ timer' = "off"
  /\ caller' = "timer_expire"
  /\ stoppers' = stoppers \cup {"timer"}
  /\ UNCHANGED <<pumpVars, kernelCtl, sigCb, sigPending>>

(* timer_expire, up to the writes of cleanup.  The timer does not repeat. *)
TimerExpire ==
  /\ timer = "armed"
  /\ Goto("loop", "disable")
  /\ timer' = "off"
  /\ Pump!Expire
  /\ caller' = "timer_expire"
  /\ stoppers' = stoppers \cup {"timer"}
  /\ UNCHANGED <<kernelCtl, sigCb, sigPending>>

(* The loop finds a SIGINT and calls what is installed by then: sig_ignore *)
(* does nothing, sig_cleanup begins with cleanup.                          *)
OnSignal ==
  /\ sigPending # "no"
  /\ pc = "loop"
  /\ sigPending' = "no"
  /\ IF sigCb = "ignore"
       THEN UNCHANGED <<pumpVars, pc, k, caller, stoppers>>
       ELSE /\ Pump!Expire
            /\ Goto("loop", "disable")
            /\ caller' = "sig_cleanup"
            /\ stoppers' = stoppers \cup {sigPending}
  /\ UNCHANGED <<kernelCtl, sigCb, timer>>

(* Slip: cleanup clears the filters before the enables. *)
ClearEnableLater ==
  \/ /\ WriteRound("disable", "unfilter")
     /\ filtered' = filtered \ {EventList[k]}
     /\ UNCHANGED <<pumpVars, enabled, sigCb, sigPending, timer, caller, stoppers>>
  \/ Die("disable", "debugfs")

(* cleanup(recorder): all enable files get 0, then all filter files. *)
ClearEnable ==
  \/ /\ WriteRound("disable", "unfilter")
     /\ enabled' = enabled \ {EventList[k]}
     /\ UNCHANGED <<pumpVars, filtered, sigCb, sigPending, timer, caller, stoppers>>
  \/ Die("disable", "debugfs")

ClearFilter ==
  \/ /\ WriteRound("unfilter", "stopped")
     /\ filtered' = filtered \ {EventList[k]}
     /\ UNCHANGED <<pumpVars, enabled, sigCb, sigPending, timer, caller, stoppers>>
  \/ Die("unfilter", "debugfs")

(* Slip: each callback stops its own handle. *)
StopSelf ==
  \/ /\ caller = "timer_expire"
     /\ timer' = "off"
     /\ UNCHANGED <<sigCb, sigPending>>
  \/ /\ caller = "sig_cleanup"
     /\ sigCb' = "off"
     /\ sigPending' = "no"
     /\ UNCHANGED timer

(* timer_expire stops the signal handle (a SIGINT that waits is dropped),  *)
(* sig_cleanup stops the timer.                                            *)
StopOther ==
  \/ /\ caller = "timer_expire"
     /\ sigCb' = "off"
     /\ sigPending' = "no"
     /\ UNCHANGED timer
  \/ /\ caller = "sig_cleanup"
     /\ timer' = "off"
     /\ UNCHANGED <<sigCb, sigPending>>

(* What the two callbacks do after cleanup. *)
AfterCleanup ==
  /\ Goto("stopped", "loop")
  /\ StopOther
  /\ caller' = "none"
  /\ UNCHANGED <<pumpVars, kernelCtl, stoppers>>

(* Slip: the loop is left although requests are under way. *)
LoopAliveHandles == sigCb # "off" \/ timer = "armed"

(* uv_run returns when no handle is active and no request under way. *)
LoopAlive ==
  \/ sigCb # "off"
  \/ timer = "armed"
  \/ \E i \in Instances : reqs[i] # {} \/ retry[i]

LoopReturns ==
  /\ ~LoopAlive
  /\ Goto("loop", "returned")
  /\ UNCHANGED <<pumpVars, kernelCtl, sigCb, sigPending, timer, caller, stoppers>>

-----------------------------------------------------------------------------
(* The environment.                                                        *)

PoolStep(i) ==
  /\ Running
  /\ Pump!PoolStep(i)
  /\ UNCHANGED <<kernelCtl, processCtl>>

Produce(i) ==
  /\ \E e \in enabled : InstanceOf[e] = i
  /\ Pump!Produce(i)
  /\ UNCHANGED <<kernelCtl, processCtl>>

(* SIGINT: caught while the handle is started, deadly otherwise. *)
Sigint ==
  /\ Running
  /\ \/ /\ sigCb = "off"
        /\ pc' = "dead"
        /\ UNCHANGED sigPending
     \/ /\ sigCb = "ignore"
        /\ sigPending' = "early"
        /\ UNCHANGED pc
     \/ /\ sigCb = "cleanup"
        /\ sigPending' = "late"
        /\ UNCHANGED pc
  /\ UNCHANGED <<pumpVars, kernelCtl, k, sigCb, timer, caller, stoppers>>

(* scripts/recorder.py starts the recorder again. *)
Restart ==
  /\ ~Running
  /\ Pump!NewRun
  /\ FreshProcess(pc', k', sigCb', sigPending', timer', caller', stoppers')
  /\ UNCHANGED kernelCtl

(* What the loop thread does of its own, callbacks of the copy excepted. *)
Control ==
  \/ StartSigIgnore \/ SetupInstances \/ SetBufsize \/ SetFilter \/ SetEnable
  \/ StartSigCleanup \/ RecordEvents \/ ArmTimer
  \/ ClearEnable \/ ClearFilter \/ AfterCleanup \/ LoopReturns

Next ==
  \/ Control
  \/ TimerExpire
  \/ OnSignal
  \/ Sigint
  \/ Restart
  \/ \E i \in Instances : PumpCallback(i) \/ PoolStep(i) \/ Produce(i)

(* The loop thread runs, its timer fires, every callback that is due is    *)
(* run, and the pool performs what was submitted.  Nothing obliges the     *)
(* kernel to produce records, a user to send SIGINT or to start again.     *)
Fairness ==
  /\ WF_vars(Control)
  /\ WF_vars(TimerExpire)
  /\ WF_vars(OnSignal)
  /\ \A i \in Instances : WF_vars(PumpCallback(i)) /\ WF_vars(PoolStep(i))

Spec == Init /\ [][Next]_vars /\ Fairness

-----------------------------------------------------------------------------
(* Properties.                                                             *)

(* An event is never enabled without a filter, which would trace every     *)
(* thread of the machine: not while set_filter_and_enable or cleanup are   *)
(* half done, nor when a run starts on what a failed one left behind.      *)
FilteredWhileEnabled == enabled \subseteq filtered

(* When uv_run returns, and recorder_run with it, the kernel is as it was: *)
(* every event is switched off, every filter cleared, and every instance   *)
(* was copied to its end unless one of its requests failed.  A run that    *)
(* gave up before (recorder.c:71, :75) has left everything switched on.    *)
CleanReturn ==
  pc = "returned" =>
    /\ enabled = {}
    /\ filtered = {}
    /\ \A i \in Instances : fdIn[i] = "closed" \/ i \in failed

(* timer_expire and sig_cleanup each switch the other off: the timer is    *)
(* never a second reason to call cleanup, nor is a SIGINT after it.        *)
OneStopper == "timer" \in stoppers => stoppers = {"timer"}

(* An armed timer puts an end to the recording, whatever the copy does,    *)
(* unless something else does before.                                      *)
RecordingEnds == timer = "armed" ~> (expired \/ ~Running)

(* After timer_expire the recorder drains the instances and returns. *)
ExpiryReturns == "timer" \in stoppers ~> ~Running

(* recorder.c:37, "Recv sig ... cleanup and exit": a run that was stopped  *)
(* by SIGINT exits, at the latest when no further SIGINT arrives.          *)
SigintExits ==
  <>[](sigPending = "no") => ("late" \in stoppers ~> ~Running)

=============================================================================
