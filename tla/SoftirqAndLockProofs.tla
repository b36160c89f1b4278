------------------------- MODULE SoftirqAndLockProofs -------------------------
(***************************************************************************)
(* The two smallest state machines, which share nothing: SoftirqContext    *)
(* for every set of CPUs, every list of probed softirqs, and a module that *)
(* is loaded at any moment; LockContention for every Max, Word and number  *)
(* of spurious wake-ups.                                                   *)
(***************************************************************************)
EXTENDS SoftirqContext, LockContention, TLAPS

-----------------------------------------------------------------------------
(* SoftirqContext.                                                         *)

(* A handler runs within __do_softirq, and a probe that has seen it begin  *)
(* has been there.                                                         *)
Nesting ==
  \A cpu \in CPUs :
    /\ handler[cpu] # Nobody => serving[cpu] # "no"
    /\ seen[cpu] => handler[cpu] # Nobody /\ ~cold[cpu]

(* The time kept is that of the softirq the probe has seen begin.          *)
TimeKept == \A cpu \in CPUs : serving[cpu] = "seen" => softirq_btime[cpu] = since[cpu]

(* Between handlers the number is that of none: what a handler without a   *)
(* probe, or one that was missed, is labelled with.                        *)
NumberMeansHandler ==
  \A cpu \in CPUs :
    softirqs_nr[cpu] = IF seen[cpu] THEN handler[cpu] ELSE IF cold[cpu] THEN 0 ELSE NR_SOFTIRQS

IInv == TypeOK /\ Nesting /\ TimeKept /\ NumberMeansHandler /\ LabelTrue /\ SpanTrue

Quiet(cpu) == HardirqEnter(cpu) \/ HardirqExit(cpu)

LEMMA NumbersAreSmall ==
  /\ NR_SOFTIRQS \in Nat \ {0} /\ Len(KrpList) \in Nat /\ MaxTime \in Nat
  /\ Numbers \subseteq 0 .. NR_SOFTIRQS - 1
  /\ HARDIRQ = NR_SOFTIRQS + 1 /\ PROCESS = NR_SOFTIRQS + 2 /\ Nobody = NR_SOFTIRQS + 3
  BY NumbersAssumption DEF HARDIRQ, PROCESS, Nobody

LEMMA InitIInv == Init => IInv
  BY NumbersAreSmall
  DEF Init, IInv, TypeOK, Nesting, TimeKept, NumberMeansHandler, LabelTrue, SpanTrue

(* TypeOK step by step: the numbers of softirqs leave room for none.       *)
LEMMA TypeStep == TypeOK /\ [Next]_vars => TypeOK'
  <1> SUFFICES ASSUME TypeOK, [Next]_vars PROVE TypeOK'
    OBVIOUS
  <1> USE NumbersAreSmall DEF TypeOK, data, context, records
  <1>1. CASE UNCHANGED vars BY <1>1 DEF vars
  <1>2. CASE Register BY <1>2 DEF Register, Complete
  <1>3. ASSUME NEW cpu \in CPUs, Quiet(cpu) PROVE TypeOK'
    BY <1>3 DEF Quiet, HardirqEnter, HardirqExit
  <1>4. ASSUME NEW cpu \in CPUs, SoftirqEnter(cpu) PROVE TypeOK'
    BY <1>4 DEF SoftirqEnter, ThisCpu
  <1>5. ASSUME NEW cpu \in CPUs, SoftirqExit(cpu) PROVE TypeOK'
    BY <1>5 DEF SoftirqExit, ThisCpu
  <1>6. ASSUME NEW cpu \in CPUs, NEW nr \in Numbers, HandlerEnter(cpu, nr) PROVE TypeOK'
    <2> HasProbe(nr) \in BOOLEAN
      BY DEF HasProbe
    <2> QED BY <1>6 DEF HandlerEnter, ThisCpu
  <1>7. ASSUME NEW cpu \in CPUs, HandlerExit(cpu) PROVE TypeOK'
    BY <1>7 DEF HandlerExit, ThisCpu
  <1>8. ASSUME NEW cpu \in CPUs, WakeUp(cpu) PROVE TypeOK'
    BY <1>8 DEF WakeUp, Label, ThisCpu
  <1> QED BY <1>1, <1>2, <1>3, <1>4, <1>5, <1>6, <1>7, <1>8 DEF Next, Quiet

(* The kretprobes keep the number and the time true.                       *)
LEMMA KeptStep ==
  TypeOK /\ Nesting /\ TimeKept /\ NumberMeansHandler /\ [Next]_vars
    => Nesting' /\ TimeKept' /\ NumberMeansHandler'
  <1> SUFFICES ASSUME TypeOK, Nesting, TimeKept, NumberMeansHandler, [Next]_vars
               PROVE  Nesting' /\ TimeKept' /\ NumberMeansHandler'
    OBVIOUS
  <1> USE NumbersAreSmall DEF TypeOK, Nesting, TimeKept, NumberMeansHandler, data, context, records
  <1>1. CASE UNCHANGED vars BY <1>1 DEF vars
  <1>2. CASE Register BY <1>2 DEF Register
  <1>3. ASSUME NEW cpu \in CPUs, Quiet(cpu)
        PROVE  Nesting' /\ TimeKept' /\ NumberMeansHandler'
    BY <1>3 DEF Quiet, HardirqEnter, HardirqExit
  <1>4. ASSUME NEW cpu \in CPUs, SoftirqEnter(cpu)
        PROVE  Nesting' /\ TimeKept' /\ NumberMeansHandler'
    BY <1>4 DEF SoftirqEnter, ThisCpu
  <1>5. ASSUME NEW cpu \in CPUs, SoftirqExit(cpu)
        PROVE  Nesting' /\ TimeKept' /\ NumberMeansHandler'
    BY <1>5 DEF SoftirqExit, ThisCpu
  (* No handler ran, so no number was kept: a probed handler leaves its    *)
  (* own, another leaves what was there.                                   *)
  <1>6. ASSUME NEW cpu \in CPUs, NEW nr \in Numbers, HandlerEnter(cpu, nr)
        PROVE  Nesting' /\ TimeKept' /\ NumberMeansHandler'
    <2>1. ~seen[cpu] /\ nr # Nobody
      BY <1>6 DEF HandlerEnter
    <2>2. CASE HasProbe(nr) BY <1>6, <2>1, <2>2 DEF HandlerEnter, ThisCpu
    <2>3. CASE ~HasProbe(nr) BY <1>6, <2>1, <2>3 DEF HandlerEnter, ThisCpu
    <2> QED BY <2>2, <2>3
  <1>7. ASSUME NEW cpu \in CPUs, HandlerExit(cpu)
        PROVE  Nesting' /\ TimeKept' /\ NumberMeansHandler'
    BY <1>7 DEF HandlerExit, ThisCpu
  <1>8. ASSUME NEW cpu \in CPUs, WakeUp(cpu)
        PROVE  Nesting' /\ TimeKept' /\ NumberMeansHandler'
    BY <1>8 DEF WakeUp
  <1> QED BY <1>1, <1>2, <1>3, <1>4, <1>5, <1>6, <1>7, <1>8 DEF Next, Quiet

(* A record tells what is kept.                                            *)
LEMMA RecordStep ==
  IInv /\ [Next]_vars => LabelTrue' /\ SpanTrue'
  <1> SUFFICES ASSUME IInv, [Next]_vars PROVE LabelTrue' /\ SpanTrue'
    OBVIOUS
  <1> USE DEF IInv, TypeOK, LabelTrue, SpanTrue, records
  <1>1. ASSUME NEW cpu \in CPUs, WakeUp(cpu) PROVE LabelTrue' /\ SpanTrue'
    <2>1. Label(cpu) \in MayName(cpu)
      BY DEF NumberMeansHandler, Label, MayName, ThisCpu
    <2> QED BY <1>1, <2>1 DEF WakeUp
  <1>2. ASSUME NEW cpu \in CPUs, SoftirqExit(cpu) PROVE LabelTrue' /\ SpanTrue'
    BY <1>2 DEF SoftirqExit, TimeKept, ThisCpu
  <1>3. ASSUME UNCHANGED records PROVE LabelTrue' /\ SpanTrue'
    BY <1>3
  <1> QED BY <1>1, <1>2, <1>3
        DEF Next, vars, Register, HardirqEnter, HardirqExit, SoftirqEnter, HandlerEnter, HandlerExit

THEOREM Inductive == Spec => []IInv
  <1>1. IInv /\ [Next]_vars => IInv'
    BY TypeStep, KeptStep, RecordStep DEF IInv
  <1> QED BY InitIInv, <1>1, PTL DEF Spec

(* The per-CPU data have the types of the record they go into.             *)
THEOREM TypeCorrect == Spec => []TypeOK
  BY Inductive, PTL DEF IInv

(* Every wake-up record names the context the wake-up was made in, except  *)
(* that a wake-up in a softirq may be labelled 0, HI_SOFTIRQ, on a CPU     *)
(* where no handler with a probe has begun since the module was loaded.    *)
THEOREM LabelsAreTrue == Spec => []LabelTrue
  BY Inductive, PTL DEF IInv

(* Every record of __do_softirq_ret spans the softirq that returned.       *)
THEOREM SpansAreTrue == Spec => []SpanTrue
  BY Inductive, PTL DEF IInv

-----------------------------------------------------------------------------
(* LockContention.                                                         *)

(* The lock is held by the thread that is inside its critical section.     *)
LockHeld ==
  /\ holder = "B" <=> b \in {"test", "signal"}
  /\ holder = "C" <=> c \in {"test", "work", "add"}

(* What C has found out is still so when it acts on it.                    *)
Checked ==
  /\ c = "work" => counter = 0
  /\ c = "add" => counter < Max

LockInv == LockTypeOK /\ LockHeld /\ Checked /\ NothingLost

LEMMA InitLock == LockInit => LockInv
  BY MaxAssumption, SpuriousAssumption DEF LockInit, LockInv, LockTypeOK, LockHeld, Checked, NothingLost

(* The arithmetic of an unsigned does not wrap between 0 and Max.          *)
LEMMA NoWrap ==
  ASSUME NEW n \in 0 .. Max
  PROVE  /\ n # 0 => (n + Word - 1) % Word = n - 1
         /\ n < Max => (n + 1) % Word = n + 1
  <1>1. n # 0 => (n + Word - 1) % Word = n - 1
    <2>1. n # 0 => n - 1 \in 0 .. Word - 1
      BY MaxAssumption, WordAssumption
    <2>2. n + Word - 1 = (n - 1) + Word
      BY MaxAssumption, WordAssumption
    <2>3. \A m \in 0 .. Word - 1 : (m + Word) % Word = m
      BY WordAssumption, MaxAssumption
    <2> QED BY <2>1, <2>2, <2>3
  <1>2. n < Max => (n + 1) % Word = n + 1
    BY MaxAssumption, WordAssumption
  <1> QED BY <1>1, <1>2

(* Steps of main and of A touch neither the counter nor the lock.          *)
LEMMA MainStep == LockInv /\ (Main \/ ThreadA) => LockInv'
  <1> SUFFICES ASSUME LockInv, Main \/ ThreadA PROVE LockInv'
    OBVIOUS
  <1> USE SpuriousAssumption DEF LockInv, LockTypeOK, LockHeld, Checked, NothingLost
  <1>1. CASE CreateB BY <1>1 DEF CreateB
  <1>2. CASE CreateC BY <1>2 DEF CreateC
  <1>3. CASE CreateA BY <1>3 DEF CreateA
  <1>4. CASE WaitA BY <1>4 DEF WaitA
  <1>5. CASE SpuriousA BY <1>5 DEF SpuriousA
  <1> QED BY <1>1, <1>2, <1>3, <1>4, <1>5 DEF Main, ThreadA

LEMMA ThreadBStep == LockInv /\ ThreadB => LockInv'
  <1> SUFFICES ASSUME LockInv, ThreadB PROVE LockInv'
    OBVIOUS
  <1> USE SpuriousAssumption DEF LockInv, LockTypeOK, LockHeld, Checked, NothingLost
  <1>1. CASE LockB BY <1>1 DEF LockB
  (* B holds the lock, so C is not about to add. *)
  <1>2. CASE WaitB BY <1>2 DEF WaitB
  <1>3. CASE SpuriousB BY <1>3 DEF SpuriousB
  <1>4. CASE RelockB BY <1>4 DEF RelockB
  <1>5. CASE SignalA BY <1>5 DEF SignalA
  <1>6. CASE Take
    <2>1. counter' = counter - 1 /\ counter' \in 0 .. Max
      BY <1>6, NoWrap, MaxAssumption DEF Take
    <2> QED BY <1>6, <2>1 DEF Take
  <1> QED BY <1>1, <1>2, <1>3, <1>4, <1>5, <1>6 DEF ThreadB

LEMMA ThreadCStep == LockInv /\ ThreadC => LockInv'
  <1> SUFFICES ASSUME LockInv, ThreadC PROVE LockInv'
    OBVIOUS
  <1> USE DEF LockInv, LockTypeOK, LockHeld, Checked, NothingLost
  <1>1. CASE LockC BY <1>1 DEF LockC
  (* What is left of the counter is zero, or is below Max. *)
  <1>2. CASE TestC BY <1>2, MaxAssumption DEF TestC
  <1>3. CASE WorkAndSignalB BY <1>3, MaxAssumption DEF WorkAndSignalB
  (* B is not waiting, for C has told it or has found something to take. *)
  <1>4. CASE Add
    <2>1. counter' = counter + 1 /\ counter' \in 0 .. Max
      BY <1>4, NoWrap, MaxAssumption DEF Add
    <2> QED BY <1>4, <2>1 DEF Add
  <1> QED BY <1>1, <1>2, <1>3, <1>4 DEF ThreadC

LEMMA StepLock == LockInv /\ [LockNext]_lockVars => LockInv'
  <1>1. ASSUME LockInv, UNCHANGED lockVars PROVE LockInv'
    BY <1>1 DEF lockVars, LockInv, LockTypeOK, LockHeld, Checked, NothingLost
  <1> QED BY <1>1, MainStep, ThreadBStep, ThreadCStep DEF LockNext

THEOREM LockInductive == LockSpec => []LockInv
  BY InitLock, StepLock, PTL DEF LockSpec

(* The counter stays between 0 and Max: dec_counter takes nothing that is  *)
(* not there, spurious wake-ups or not.                                    *)
THEOREM LockTypeCorrect == LockSpec => []LockTypeOK
  BY LockInductive, PTL DEF LockInv

(* A waiting B has been promised a signal: no wake-up is lost, for any     *)
(* value at which the counter starts again.                                *)
THEOREM NoWakeUpLost == LockSpec => []NothingLost
  BY LockInductive, PTL DEF LockInv

=============================================================================
