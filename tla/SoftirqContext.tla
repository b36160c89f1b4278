---------------------------- MODULE SoftirqContext ----------------------------
(***************************************************************************)
(* In which context a record was made: the per-CPU data of                 *)
(* module/trace_wperf_events.c, the kretprobes that keep them, and the     *)
(* records that read them.                                                 *)
(*                                                                         *)
(* On each CPU a hard interrupt may come at any time but during another,   *)
(* __do_softirq runs over processes, and within it one softirq handler     *)
(* after the other.  A kretprobe calls its return handler only if it was   *)
(* registered when the function was entered, so that a module loaded in    *)
(* the middle of a softirq sees neither its entry nor its return.          *)
(***************************************************************************)
EXTENDS Integers, Sequences

CONSTANTS
  CPUs,
  KrpList,              \* the softirqs with a probe of their own, in the order
                        \* of wperf_krps; that of __do_softirq comes last
  Unprobed,             \* softirqs without one
  NR_SOFTIRQS,
  MaxTime               \* bound: how often a softirq begins or ends

Probed == {KrpList[n] : n \in 1 .. Len(KrpList)}
Numbers == Probed \cup Unprobed
HARDIRQ == NR_SOFTIRQS + 1
PROCESS == NR_SOFTIRQS + 2
Nobody == NR_SOFTIRQS + 3       \* no handler runs

ASSUME NumbersAssumption ==
  /\ NR_SOFTIRQS \in Nat \ {0}
  /\ KrpList \in Seq(Probed)
  /\ Numbers \subseteq 0 .. NR_SOFTIRQS - 1
  /\ Probed \cap Unprobed = {}
  /\ MaxTime \in Nat

VARIABLES
  softirqs_nr, softirq_btime,     \* wperf_cpu_data
  registered,           \* how many kretprobes are registered
  now,
  inIrq,                \* a hard interrupt runs on the CPU
  serving,              \* __do_softirq runs: "no", "seen" by its probe, "missed"
  since,                \* when that began
  handler,              \* the softirq whose handler runs, or Nobody
  seen,                 \* its probe has seen that handler begin
  label,                \* the context the last record of a wake-up gave
  span                  \* the last record of __do_softirq_ret

VARIABLES
  labelled,             \* history: what the label should have been
  spanned,              \* history: when that softirq began and ended
  cold                  \* history: no handler has been seen on the CPU

data == <<softirqs_nr, softirq_btime>>
context == <<inIrq, serving, since, handler, seen>>
records == <<label, span, labelled, spanned>>
vars == <<data, registered, now, context, records, cold>>

TypeOK ==
  /\ softirqs_nr \in [CPUs -> 0 .. NR_SOFTIRQS]
  /\ softirq_btime \in [CPUs -> 0 .. MaxTime]
  /\ registered \in 0 .. Len(KrpList) + 1
  /\ now \in 0 .. MaxTime
  /\ inIrq \in [CPUs -> BOOLEAN]
  /\ serving \in [CPUs -> {"no", "seen", "missed"}]
  /\ since \in [CPUs -> 0 .. MaxTime]
  /\ handler \in [CPUs -> Numbers \cup {Nobody}]
  /\ seen \in [CPUs -> BOOLEAN]
  /\ label \in 0 .. PROCESS
  /\ span \in (0 .. MaxTime) \X (0 .. MaxTime)
  /\ cold \in [CPUs -> BOOLEAN]

(* The data are zero when the module is loaded, whatever a CPU is doing. *)
Init ==
  /\ softirqs_nr = [c \in CPUs |-> 0]
  /\ softirq_btime = [c \in CPUs |-> 0]
  /\ registered = 0 /\ now = 0
  /\ inIrq = [c \in CPUs |-> FALSE]
  /\ serving = [c \in CPUs |-> "no"]
  /\ since = [c \in CPUs |-> 0]
  /\ handler = [c \in CPUs |-> Nobody]
  /\ seen = [c \in CPUs |-> FALSE]
  /\ label = PROCESS /\ labelled = {PROCESS}
  /\ span = <<0, 0>> /\ spanned = <<0, 0>>
  /\ cold = [c \in CPUs |-> TRUE]

Complete == registered = Len(KrpList) + 1
HasProbe(nr) == \E n \in 1 .. registered : n <= Len(KrpList) /\ KrpList[n] = nr

Register ==
  /\ ~Complete
  /\ registered' = registered + 1
  /\ UNCHANGED <<data, now, context, records, cold>>

\* Slip: the data are one static structure.
FirstCpu(c) == CHOOSE d \in CPUs : TRUE

(* __get_cpu_var: nothing moves from one CPU to another in these contexts. *)
ThisCpu(c) == c

-----------------------------------------------------------------------------
(* What a CPU does, with the handlers of the kretprobes.                   *)

HardirqEnter(c) ==
  /\ ~inIrq[c]
  /\ inIrq' = [inIrq EXCEPT ![c] = TRUE]
  /\ UNCHANGED <<data, registered, now, serving, since, handler, seen, records, cold>>

HardirqExit(c) ==
  /\ inIrq[c]
  /\ inIrq' = [inIrq EXCEPT ![c] = FALSE]
  /\ UNCHANGED <<data, registered, now, serving, since, handler, seen, records, cold>>

(* on___do_softirq_ent *)
SoftirqEnter(c) ==
  /\ ~inIrq[c] /\ serving[c] = "no" /\ now < MaxTime
  /\ now' = now + 1
  /\ serving' = [serving EXCEPT ![c] = IF Complete THEN "seen" ELSE "missed"]
  /\ since' = [since EXCEPT ![c] = now']
  /\ softirq_btime' = IF Complete THEN [softirq_btime EXCEPT ![ThisCpu(c)] = now']
                                  ELSE softirq_btime
  /\ UNCHANGED <<softirqs_nr, registered, inIrq, handler, seen, records, cold>>

(* on_*_ent of the handler *)
HandlerEnter(c, nr) ==
  /\ ~inIrq[c] /\ serving[c] # "no" /\ handler[c] = Nobody
  /\ handler' = [handler EXCEPT ![c] = nr]
  /\ seen' = [seen EXCEPT ![c] = HasProbe(nr)]
  /\ softirqs_nr' = IF HasProbe(nr) THEN [softirqs_nr EXCEPT ![ThisCpu(c)] = nr]
                                    ELSE softirqs_nr
  /\ cold' = [cold EXCEPT ![c] = @ /\ ~HasProbe(nr)]
  /\ UNCHANGED <<softirq_btime, registered, now, inIrq, serving, since, records>>

(* on_*_ret of the handler *)
HandlerExit(c) ==
  /\ ~inIrq[c] /\ handler[c] # Nobody
  /\ handler' = [handler EXCEPT ![c] = Nobody]
  /\ seen' = [seen EXCEPT ![c] = FALSE]
  /\ softirqs_nr' = IF seen[c] THEN [softirqs_nr EXCEPT ![ThisCpu(c)] = NR_SOFTIRQS]
                               ELSE softirqs_nr
  /\ UNCHANGED <<softirq_btime, registered, now, inIrq, serving, since, records, cold>>

(* on___do_softirq_ret *)
SoftirqExit(c) ==
  /\ ~inIrq[c] /\ serving[c] # "no" /\ handler[c] = Nobody /\ now < MaxTime
  /\ now' = now + 1
  /\ serving' = [serving EXCEPT ![c] = "no"]
  /\ IF serving[c] = "seen"
       THEN /\ span' = <<softirq_btime[ThisCpu(c)], now'>>
            /\ spanned' = <<since[c], now'>>
       ELSE UNCHANGED <<span, spanned>>
  /\ UNCHANGED <<data, registered, inIrq, since, handler, seen, label, labelled, cold>>

-----------------------------------------------------------------------------
(* A wake-up on a CPU, and the context its record names.                   *)

\* Slip: softirqs first, though a hard interrupt may have come over one.
LabelOfSoftirq(c) ==
  IF serving[c] # "no" THEN softirqs_nr[ThisCpu(c)]
  ELSE IF inIrq[c] THEN HARDIRQ ELSE PROCESS

\* Slip: the number is negated, as in the record of __switch_to.
LabelNegated(c) ==
  IF inIrq[c] THEN HARDIRQ
  ELSE IF serving[c] # "no" THEN -softirqs_nr[ThisCpu(c)]
  ELSE PROCESS

Label(c) ==
  IF inIrq[c] THEN HARDIRQ
  ELSE IF serving[c] # "no" THEN softirqs_nr[ThisCpu(c)]
  ELSE PROCESS

(* What it may name: in a softirq the handler that runs, NR_SOFTIRQS where *)
(* no probe can tell, and 0 as long as no probe has been there.            *)
MayName(c) ==
  CASE inIrq[c]                                    -> {HARDIRQ}
    [] ~inIrq[c] /\ serving[c] = "no"              -> {PROCESS}
    [] ~inIrq[c] /\ serving[c] # "no" /\ seen[c]   -> {handler[c]}
    [] ~inIrq[c] /\ serving[c] # "no" /\ ~seen[c]  -> {IF cold[c] THEN 0 ELSE NR_SOFTIRQS}

(* The events are enabled when the module has been loaded. *)
WakeUp(c) ==
  /\ Complete
  /\ label' = Label(c)
  /\ labelled' = MayName(c)
  /\ UNCHANGED <<data, registered, now, context, span, spanned, cold>>

Next ==
  \/ Register
  \/ \E c \in CPUs :
       \/ HardirqEnter(c) \/ HardirqExit(c)
       \/ SoftirqEnter(c) \/ SoftirqExit(c)
       \/ \E nr \in Numbers : HandlerEnter(c, nr)
       \/ HandlerExit(c)
       \/ WakeUp(c)

Spec == Init /\ [][Next]_vars

-----------------------------------------------------------------------------
(* Properties.                                                             *)

(* A wake-up is labelled with the context it was made in, across nested    *)
(* interrupts, CPUs and a module that is loaded in the middle of softirqs: *)
(* never with a handler that is over, nor with that of another CPU.  One   *)
(* case is excepted: where no handler with a probe has begun on a CPU yet, *)
(* the number there is still 0, HI_SOFTIRQ, and a wake-up in a softirq may *)
(* have that label.                                                        *)
LabelTrue == label \in labelled

(* A __do_softirq_ret record spans the softirq that has just returned on   *)
(* its CPU, though others begin and end in between on other CPUs.          *)
SpanTrue == span = spanned

=============================================================================
