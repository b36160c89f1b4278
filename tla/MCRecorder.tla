------------------------------ MODULE MCRecorder ------------------------------
(***************************************************************************)
(* Recorder with the instances and the events of recorder/event.c.         *)
(***************************************************************************)
EXTENDS Recorder

(* instances[] and the concatenation of switch_events[], softirq_events[]. *)
TwoInstances == <<"switch", "softirq">>
FiveEvents ==
  <<"__switch_to", "try_to_wake_up", "wake_up_new_task", "do_exit", "__do_softirq_ret">>
FiveEventsInstance ==
  [e \in {FiveEvents[n] : n \in 1 .. 5} |->
     IF e = "__do_softirq_ret" THEN "softirq" ELSE "switch"]

(* Both instances, with three of the events. *)
ThreeEvents == <<"__switch_to", "try_to_wake_up", "__do_softirq_ret">>
ThreeEventsInstance == [e \in {ThreeEvents[n] : n \in 1 .. 3} |-> FiveEventsInstance[e]]

(* One instance with two events. *)
OneInstance == <<"switch">>
TwoEvents == <<"__switch_to", "try_to_wake_up">>
TwoEventsInstance == [e \in {"__switch_to", "try_to_wake_up"} |-> "switch"]

=============================================================================
