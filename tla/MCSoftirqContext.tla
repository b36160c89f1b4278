--------------------------- MODULE MCSoftirqContext ---------------------------
(***************************************************************************)
(* SoftirqContext with three softirqs: a timer and a network one that have *)
(* probes, and HRTIMER_SOFTIRQ, which has none.                            *)
(***************************************************************************)
EXTENDS SoftirqContext

TimerAndNet == <<1, 3>>

=============================================================================
