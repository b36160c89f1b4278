-------------------------- MODULE WperfModuleProofs --------------------------
(***************************************************************************)
(* WperfModule for every number of threads, probes, pids and disks.  What  *)
(* DiskUtilsProofs shows of disk_utils holds in the module too, where      *)
(* threads of tx_stat take the same event_mutex: to those of disk_utils it *)
(* is as if nobody had it then.                                            *)
(***************************************************************************)
EXTENDS WperfModule, SequenceTheorems, TLAPS

DiskHolders == DiskFilterers \cup DiskReaders
DiskThreads == DiskEnablers \cup DiskHolders
TxHolders == TxFilterers \cup TxReaders
Last == Len(ProbeList)

DiskMutex == IF mutex \in TxHolders THEN Nobody ELSE mutex

DiskProofs == INSTANCE DiskUtilsProofs WITH
  Enablers <- DiskEnablers, Filterers <- DiskFilterers, Readers <- DiskReaders,
  Lists <- DiskLists, armed <- diskArmed, call <- diskCall, halted <- diskHalted,
  mutex <- DiskMutex

TxCalls == [at : {"idle", "store", "switch", "disarm", "zero", "next", "set", "test", "arm"},
            on : BOOLEAN, n : 1 .. Last, rest : Seq(Pids \cup {Bad}), bits : SUBSET Pids]

TxTyped ==
  /\ tx_enabled \in BOOLEAN /\ txHalted \in BOOLEAN
  /\ filter \subseteq Pids /\ txArmed \subseteq Probes
  /\ txCall \in [TxThreads -> TxCalls]
  /\ send \in [Pids -> [path : Seq(Probes), tested : BOOLEAN]]
  /\ mutex \in TxHolders \cup DiskHolders \cup {Nobody}

(* Where the threads of each file of tx_stat may be, and the processes.    *)
TxRoles ==
  /\ \A t \in TxEnablers : txCall[t].at \in {"idle", "store", "switch", "disarm", "zero", "arm"}
  /\ \A t \in TxFilterers : txCall[t].at \in {"idle", "disarm", "next", "set", "arm"}
  /\ \A t \in TxReaders : txCall[t].at \in {"idle", "disarm", "test", "arm"}
  /\ \A t \in TxFilterers :
       Tx!At(t, "set") => txCall[t].rest # <<>> /\ Head(txCall[t].rest) \in Pids
  /\ \A t \in TxThreads : Tx!At(t, "idle") => txCall[t].n = 1
  /\ \A q \in Pids : send[q].tested => send[q].path # <<>>

TxMutexHeld == \A t \in TxHolders : txCall[t].at # "idle" <=> mutex = t

(* A write to enable of tx_stat goes by what it stored.                    *)
TxSwitchInv ==
  \A e \in TxEnablers : /\ Tx!At(e, "switch") => (txCall[e].on <=> tx_enabled)
                        /\ txCall[e].at \in {"disarm", "zero"} => ~tx_enabled
                        /\ Tx!At(e, "arm") => tx_enabled

(* Thread t comes to the probe of index m, to arm it, in what it still has *)
(* to do if enable says 1.                                                 *)
WillArm(t, m) ==
  \/ t \in TxHolders /\ txCall[t].at \in {"disarm", "next", "set", "test"}
  \/ Tx!At(t, "arm") /\ txCall[t].n <= m

TxSwitching == \E e \in TxEnablers : Tx!At(e, "switch")

(* Whoever finds enable at 1 and a probe off has somebody who will arm it. *)
TxArmInv ==
  tx_enabled /\ ~txHalted /\ ~TxSwitching =>
    \A m \in 1 .. Last : ProbeList[m] \in txArmed \/ \E t \in TxThreads : WillArm(t, m)

(* Thread t has come past the probe of index m, disarming it.              *)
HasDisarmed(t, m) ==
  \/ txCall[t].at = "disarm" /\ m < txCall[t].n
  \/ t \in TxHolders /\ txCall[t].at \in {"next", "set", "test"}
  \/ t \in TxEnablers /\ txCall[t].at \in {"zero", "idle", "store"}

(* With enable at 0, a probe is off that those have disarmed who write to  *)
(* enable, and one that has the mutex and has not come to arming.          *)
TxOffInv ==
  ~tx_enabled =>
    \A t \in TxHolders, m \in 1 .. Last :
      /\ HasDisarmed(t, m)
      /\ \A e \in TxEnablers : HasDisarmed(e, m)
      => ProbeList[m] \notin txArmed

(* Once a write of 0 is through, no probe is armed that counts anything.   *)
TxCleanInv ==
  ~tx_enabled /\ (\A e \in TxEnablers : txCall[e].at \in {"idle", "store"}) =>
    /\ filter = {} \/ txArmed = {}
    /\ (\E t \in TxHolders : Tx!At(t, "arm")) => filter = {}

(* Nobody can do anything before there is a file.                          *)
Untouched ==
  /\ \A t \in DiskThreads : diskCall[t].at = "idle"
  /\ \A t \in TxThreads : txCall[t].at = "idle"
  /\ denabled = FALSE /\ tx_enabled = FALSE /\ didx = 0 /\ filter = {}
  /\ \A i \in Disk!Slots : dutils[i] = {}
  /\ \A c \in CPUs : hit[c].at \in {"idle", "entered"}
  /\ \A q \in Pids : bytes[q] = 0 /\ send[q].tested = FALSE

PhaseInv ==
  /\ files \in Nat
  /\ phase \in {"out", "jprobes", "kretprobes", "failed"} => files = 0
  /\ files = 0 => Untouched

(* Until somebody writes 1 to enable of tx_stat nobody comes to arming.     *)
(* Once the files are there all its probes are off, and before that there  *)
(* is nothing in the filter.                                               *)
AskedInv ==
  ~asked =>
    /\ ~tx_enabled /\ \A e \in TxEnablers : ~txCall[e].on
    /\ \A t \in TxThreads : txCall[t].at # "arm"
    /\ txArmed = {} \/ phase \in {"out", "jprobes", "kretprobes", "failed"}
    /\ \A q \in Pids : bytes[q] = 0 /\ ~send[q].tested

(* What holds whoever writes to enable, and what needs that only one       *)
(* thread does.                                                            *)
ModuleInv == DiskProofs!TableIInv /\ TxTyped /\ TxRoles /\ TxMutexHeld /\ PhaseInv
ArmedInv == DiskProofs!FlagInv /\ TxSwitchInv /\ TxArmInv /\ TxOffInv /\ TxCleanInv

-----------------------------------------------------------------------------
(* disk_utils in the module.                                               *)

OneDiskEnabler == \A d, e \in DiskEnablers : d = e
OneTxEnabler == \A d, e \in TxEnablers : d = e

LEMMA Kinds ==
  /\ TxThreads = TxEnablers \cup TxHolders /\ TxEnablers \cap TxHolders = {}
  /\ TxFilterers \cap TxReaders = {} /\ TxHolders = TxFilterers \cup TxReaders
  /\ DiskThreads = DiskEnablers \cup DiskHolders /\ DiskEnablers \cap DiskHolders = {}
  /\ DiskHolders = DiskFilterers \cup DiskReaders /\ DiskFilterers \cap DiskReaders = {}
  /\ TxThreads \cap DiskThreads = {} /\ Nobody \notin TxThreads \cup DiskThreads
  /\ Tx!Threads = TxThreads /\ Tx!Holders = TxHolders /\ Tx!Probes = Probes
  /\ Disk!Threads = DiskThreads /\ Disk!Holders = DiskHolders
  /\ DiskProofs!Threads = DiskThreads /\ DiskProofs!Holders = DiskHolders
  BY TxThreadsAssumption, DiskAssumption
     DEF TxThreads, TxHolders, DiskThreads, DiskHolders, Tx!Threads, Tx!Holders, Tx!Probes, Probes,
         Disk!Threads, Disk!Holders, DiskProofs!Threads, DiskProofs!Holders

LEMMA DiskConstants ==
  /\ DiskEnablers \cap DiskProofs!Holders = {} /\ DiskFilterers \cap DiskReaders = {}
  /\ Nobody \notin DiskProofs!Threads
  /\ Bad \notin Names /\ Unnamed \notin Names \cup {Bad} /\ MaxDisk \in Nat
  /\ \A list \in DiskLists : list \in Seq(Names \cup {Bad})
  BY Kinds, DiskAssumption

LEMMA DiskStarts == DiskProofs!Init => DiskProofs!TableIInv /\ DiskProofs!FlagInv
  BY DiskConstants, DiskProofs!InitTable, DiskProofs!InitFlag

LEMMA TableStep ==
  DiskProofs!TableIInv /\ [DiskProofs!Next]_(DiskProofs!vars) => DiskProofs!TableIInv'
  BY DiskConstants, DiskProofs!StepTable

LEMMA FlagStep ==
  OneDiskEnabler /\ DiskProofs!TableIInv /\ DiskProofs!FlagInv
    /\ [DiskProofs!Next]_(DiskProofs!vars) => DiskProofs!FlagInv'
  BY DiskConstants, DiskProofs!StepFlag DEF OneDiskEnabler, DiskProofs!OneEnabler

(* What the threads of disk_utils see of the mutex.                        *)
LEMMA MutexSeen ==
  /\ mutex = Nobody => DiskMutex = Nobody
  /\ mutex' = Nobody => DiskMutex' = Nobody
  /\ mutex' = mutex => DiskMutex' = DiskMutex
  /\ \A t \in DiskHolders : mutex' = t => DiskMutex' = t
  BY Kinds DEF DiskMutex

(* A step of disk_utils is a step that DiskUtils allows.                   *)
LEMMA EnablerInside ==
  ASSUME NEW t, Disk!EnableStep(t)
  PROVE  DiskProofs!EnableStep(t)
  <1> USE MutexSeen DEF Disk!At, DiskProofs!At, Disk!Goto, DiskProofs!Goto, Disk!Done,
          DiskProofs!Done, Disk!Idle, DiskProofs!Idle, Disk!history, DiskProofs!history,
          DiskProofs!EnableStep
  <1>1. ASSUME NEW on \in BOOLEAN, Disk!EnableWrite(t, on) PROVE DiskProofs!EnableStep(t)
    BY <1>1 DEF Disk!EnableWrite, DiskProofs!EnableWrite
  <1>2. CASE Disk!StoreEnable(t)
    BY <1>2 DEF Disk!StoreEnable, DiskProofs!StoreEnable
  <1>3. CASE Disk!SwitchOn(t)
    BY <1>3 DEF Disk!SwitchOn, DiskProofs!SwitchOn, Disk!Switched, DiskProofs!Switched,
       Disk!Rewriting, DiskProofs!Rewriting
  <1>4. CASE Disk!SwitchOff(t)
    BY <1>4 DEF Disk!SwitchOff, DiskProofs!SwitchOff, Disk!Switched, DiskProofs!Switched,
       Disk!AllDone, DiskProofs!AllDone
  <1>5. CASE Disk!ZeroSlot(t)
    BY <1>5 DEF Disk!ZeroSlot, DiskProofs!ZeroSlot
  <1>6. CASE Disk!ResetTable(t)
    BY <1>6 DEF Disk!ResetTable, DiskProofs!ResetTable
  <1> QED BY <1>1, <1>2, <1>3, <1>4, <1>5, <1>6 DEF Disk!EnableStep

LEMMA FiltererInside ==
  ASSUME NEW t \in DiskFilterers, Disk!FilterStep(t)
  PROVE  DiskProofs!FilterStep(t)
  <1> USE MutexSeen, Kinds DEF Disk!At, DiskProofs!At, Disk!Goto, DiskProofs!Goto, Disk!Done,
          DiskProofs!Done, Disk!Idle, DiskProofs!Idle, Disk!history, DiskProofs!history,
          Disk!Acquire, DiskProofs!Acquire, Disk!Release, DiskProofs!Release,
          DiskProofs!FilterStep
  <1>1. ASSUME NEW list \in DiskLists, Disk!FilterWrite(t, list) PROVE DiskProofs!FilterStep(t)
    BY <1>1 DEF Disk!FilterWrite, DiskProofs!FilterWrite, Disk!AllDone, DiskProofs!AllDone
  <1>2. CASE Disk!FilterDisarm(t)
    BY <1>2 DEF Disk!FilterDisarm, DiskProofs!FilterDisarm
  <1>3. CASE Disk!TakeSlot(t)
    BY <1>3 DEF Disk!TakeSlot, DiskProofs!TakeSlot
  <1>4. CASE Disk!BumpIndex(t)
    BY <1>4 DEF Disk!BumpIndex, DiskProofs!BumpIndex
  <1>5. CASE Disk!CopyName(t)
    BY <1>5 DEF Disk!CopyName, DiskProofs!CopyName
  <1>6. CASE Disk!FilterFails(t)
    BY <1>6 DEF Disk!FilterFails, DiskProofs!FilterFails
  <1>7. CASE Disk!Overrun(t)
    BY <1>7 DEF Disk!Overrun, DiskProofs!Overrun
  <1> QED BY <1>1, <1>2, <1>3, <1>4, <1>5, <1>6, <1>7 DEF Disk!FilterStep

LEMMA HolderInside ==
  ASSUME NEW t \in DiskHolders
  PROVE  /\ Disk!ReadStep(t) => DiskProofs!ReadStep(t)
         /\ Disk!TestEnabled(t) => DiskProofs!TestEnabled(t)
         /\ Disk!Rearm(t) => DiskProofs!Rearm(t)
  <1> USE MutexSeen DEF Disk!At, DiskProofs!At, Disk!Goto, DiskProofs!Goto, Disk!Done,
          DiskProofs!Done, Disk!Idle, DiskProofs!Idle, Disk!history, DiskProofs!history,
          Disk!Acquire, DiskProofs!Acquire, Disk!Release, DiskProofs!Release
  <1>1. Disk!OutputRead(t) => DiskProofs!OutputRead(t)
    BY DEF Disk!OutputRead, DiskProofs!OutputRead
  <1>2. Disk!OutputDisarm(t) => DiskProofs!OutputDisarm(t)
    BY DEF Disk!OutputDisarm, DiskProofs!OutputDisarm
  <1>3. Disk!TestEnabled(t) => DiskProofs!TestEnabled(t)
    BY DEF Disk!TestEnabled, DiskProofs!TestEnabled, Disk!Ended, DiskProofs!Ended
  <1>4. Disk!Rearm(t) => DiskProofs!Rearm(t)
    BY DEF Disk!Rearm, DiskProofs!Rearm
  <1> QED BY <1>1, <1>2, <1>3, <1>4 DEF Disk!ReadStep, DiskProofs!ReadStep

LEMMA HandlerInside ==
  ASSUME NEW c, Disk!Handler(c)
  PROVE  DiskProofs!Handler(c)
  <1> USE MutexSeen DEF Disk!history, DiskProofs!history, Disk!NoHit, DiskProofs!NoHit,
          DiskProofs!Handler
  <1>1. ASSUME NEW disk \in Names, Disk!Hit(c, disk) PROVE DiskProofs!Handler(c)
    BY <1>1 DEF Disk!Hit, DiskProofs!Hit
  <1>2. CASE Disk!LookUp(c)
    BY <1>2 DEF Disk!LookUp, DiskProofs!LookUp, Disk!Indexes, DiskProofs!Indexes
  <1>3. CASE Disk!ReadTime(c)
    BY <1>3 DEF Disk!ReadTime, DiskProofs!ReadTime
  <1>4. CASE Disk!AddTime(c)
    BY <1>4 DEF Disk!AddTime, DiskProofs!AddTime
  <1> QED BY <1>1, <1>2, <1>3, <1>4 DEF Disk!Handler

LEMMA DiskInside == DiskStep => DiskProofs!Next
  <1>1. ASSUME NEW t \in Disk!Threads, Disk!ThreadStep(t) PROVE DiskProofs!ThreadStep(t)
    BY <1>1, EnablerInside, FiltererInside, HolderInside, Kinds
       DEF Disk!ThreadStep, DiskProofs!ThreadStep
  <1>2. Disk!Sane => DiskProofs!Sane
    BY Kinds DEF Disk!Sane, DiskProofs!Sane, Disk!At, DiskProofs!At
  <1> QED BY <1>1, <1>2, HandlerInside, Kinds DEF DiskStep, DiskProofs!Next

-----------------------------------------------------------------------------
(* What a step of thread t at a file of tx_stat may change.                *)

Place(t) == txCall[t].at
Counter(t) == txCall[t].n

Enters(t) ==
  /\ Place(t) = "idle" /\ mutex = Nobody
  /\ \/ t \in TxEnablers /\ Place(t)' = "store" /\ mutex' = mutex
     \/ t \in TxHolders /\ Place(t)' = "disarm" /\ mutex' = t
  /\ Counter(t)' = Counter(t)
  /\ UNCHANGED <<tx_enabled, filter, txArmed, txHalted>>

Stores(t) ==
  /\ t \in TxEnablers /\ Place(t) = "store" /\ Place(t)' = "switch"
  /\ tx_enabled' = txCall[t].on /\ txCall'[t].on = txCall[t].on
  /\ UNCHANGED <<filter, txArmed, mutex, txHalted>>

Switches(t) ==
  /\ t \in TxEnablers /\ Place(t) = "switch" /\ Counter(t)' = 1
  /\ \/ Place(t)' = "arm" /\ (txCall[t].on \/ tx_enabled)
     \/ Place(t)' = "disarm" /\ (~txCall[t].on \/ ~tx_enabled)
  /\ UNCHANGED <<tx_enabled, filter, txArmed, mutex, txHalted>>

Zeroes(t) ==
  /\ t \in TxEnablers /\ Place(t) = "zero" /\ Place(t)' = "idle"
  /\ filter' = {}
  /\ UNCHANGED <<tx_enabled, txArmed, mutex, txHalted>>

Disarms(t) ==
  /\ Place(t) = "disarm"
  /\ txArmed' = txArmed \ {ProbeList[Counter(t)]}
  /\ \/ Counter(t) # Last /\ Place(t)' = "disarm" /\ Counter(t)' = Counter(t) + 1
     \/ Counter(t) = Last /\ \/ t \in TxEnablers /\ Place(t)' = "zero"
                             \/ t \in TxFilterers /\ Place(t)' = "next"
                             \/ t \in TxReaders /\ Place(t)' = "test"
  /\ UNCHANGED <<tx_enabled, filter, mutex, txHalted>>

Arms(t) ==
  /\ Place(t) = "arm"
  /\ txArmed' = txArmed \cup {ProbeList[Counter(t)]}
  /\ txHalted' = (txHalted /\ Counter(t) # 1)
  /\ \/ /\ Counter(t) # Last /\ Place(t)' = "arm" /\ Counter(t)' = Counter(t) + 1
        /\ mutex' = mutex
     \/ /\ Counter(t) = Last /\ Place(t)' = "idle"
        /\ mutex' = IF mutex = t THEN Nobody ELSE mutex
  /\ UNCHANGED <<tx_enabled, filter>>

Fills(t) ==
  /\ t \in TxFilterers
  /\ \/ Place(t) = "next" /\ Place(t)' = "set" /\ filter' = filter
     \/ Place(t) = "set" /\ Place(t)' = "next"
  /\ UNCHANGED <<tx_enabled, txArmed, mutex, txHalted>>

Refuses(t) ==
  /\ t \in TxFilterers /\ Place(t) = "next" /\ Place(t)' = "idle"
  /\ filter' = {} /\ txHalted' = TRUE /\ mutex' = (IF mutex = t THEN Nobody ELSE mutex)
  /\ UNCHANGED <<tx_enabled, txArmed>>

Tests(t) ==
  /\ t \in TxHolders /\ Place(t) \in {"next", "test"}
  /\ \/ tx_enabled /\ Place(t)' = "arm" /\ Counter(t)' = 1 /\ mutex' = mutex
     \/ ~tx_enabled /\ Place(t)' = "idle" /\ mutex' = (IF mutex = t THEN Nobody ELSE mutex)
  /\ UNCHANGED <<tx_enabled, filter, txArmed, txHalted>>

Moves(t) ==
  /\ Enters(t) \/ Stores(t) \/ Switches(t) \/ Zeroes(t) \/ Disarms(t) \/ Arms(t) \/ Fills(t)
       \/ Refuses(t) \/ Tests(t)
  /\ \A u \in TxThreads \ {t} : txCall'[u] = txCall[u]
  /\ UNCHANGED <<send, bytes>>

(* What a step leaves of the types.                                        *)
StepTyped(t) ==
  /\ tx_enabled' \in BOOLEAN /\ txHalted' \in BOOLEAN
  /\ filter' \subseteq Pids /\ txArmed' \subseteq Probes
  /\ txCall' \in [TxThreads -> TxCalls]
  /\ Place(t)' = "set" => txCall'[t].rest # <<>> /\ Head(txCall'[t].rest) \in Pids
  /\ Place(t)' = "idle" => Counter(t)' = 1

LEMMA ProbesListed ==
  /\ Last \in Nat /\ 1 \in 1 .. Last
  /\ \A m \in 1 .. Last : ProbeList[m] \in Probes
  /\ \A x \in Probes : \E m \in 1 .. Last : x = ProbeList[m]
  <1>1. Last \in Nat /\ Last # 0
    BY ProbesAssumption, LenProperties, EmptySeq DEF Last
  <1> QED BY <1>1 DEF Probes, Last

(* A thread's call after one step: some record in its place.               *)
LEMMA NewCall ==
  ASSUME TxTyped, NEW t \in TxThreads, NEW r \in TxCalls, txCall' = [txCall EXCEPT ![t] = r]
  PROVE  /\ txCall' \in [TxThreads -> TxCalls]
         /\ txCall'[t] = r
         /\ \A u \in TxThreads \ {t} : txCall'[u] = txCall[u]
  BY DEF TxTyped

LEMMA IdleCall == Tx!Idle \in TxCalls
  <1>1. <<>> \in Seq(Pids \cup {Bad})
    BY EmptySeq
  <1> QED BY <1>1, ProbesListed DEF Tx!Idle, TxCalls

LEMMA CommonMoves ==
  ASSUME TxTyped, TxRoles, NEW t \in TxThreads, Tx!Disarm(t) \/ Tx!Arm(t)
  PROVE  Moves(t) /\ StepTyped(t)
  <1>1. /\ txCall \in [TxThreads -> TxCalls] /\ txCall[t] \in TxCalls /\ Counter(t) \in 1 .. Last
        /\ tx_enabled \in BOOLEAN /\ txHalted \in BOOLEAN
        /\ filter \subseteq Pids /\ txArmed \subseteq Probes
    BY DEF TxTyped, TxCalls, Counter
  <1>2. CASE Tx!Disarm(t)
    <2> DEFINE next == [txCall[t] EXCEPT !.n = @ + 1]
               end == [txCall[t] EXCEPT !.at = Tx!AfterDisarm(t), !.n = 1]
    <2>1. Tx!AfterDisarm(t) \in {"zero", "next", "test"}
          /\ (t \in TxEnablers => Tx!AfterDisarm(t) = "zero")
          /\ (t \in TxFilterers => Tx!AfterDisarm(t) = "next")
          /\ (t \in TxReaders => Tx!AfterDisarm(t) = "test")
      BY Kinds DEF Tx!AfterDisarm
    <2>2. end \in TxCalls /\ end.at = Tx!AfterDisarm(t)
      BY <1>1, <2>1, ProbesListed DEF TxCalls
    <2>3. CASE Counter(t) # Last
      <3>1. next \in TxCalls /\ next.n = Counter(t) + 1 /\ next.at = "disarm"
        <4>1. Counter(t) + 1 \in 1 .. Last
          BY <1>1, <2>3, ProbesListed
        <4> QED BY <1>1, <1>2, <4>1 DEF TxCalls, Counter, Tx!Disarm, Tx!At
      <3>2. txCall' = [txCall EXCEPT ![t] = next]
        BY <1>2, <2>3 DEF Tx!Disarm, Last, Counter
      <3> HIDE DEF next
      <3> QED BY <1>1, <1>2, <2>3, <3>1, <3>2, NewCall
              DEF Moves, Disarms, StepTyped, Tx!Disarm, Tx!At, Tx!world, Place, Counter
    <2>4. CASE Counter(t) = Last
      <3>1. txCall' = [txCall EXCEPT ![t] = end]
        BY <1>2, <2>4 DEF Tx!Disarm, Tx!Goto, Last, Counter
      <3> HIDE DEF end
      <3> QED BY <1>1, <1>2, <2>1, <2>2, <2>4, <3>1, NewCall, Kinds
              DEF Moves, Disarms, StepTyped, Tx!Disarm, Tx!At, Tx!world, Place, Counter
    <2> QED BY <2>3, <2>4
  <1>3. CASE Tx!Arm(t)
    <2> DEFINE next == [txCall[t] EXCEPT !.n = @ + 1]
    <2>1. /\ Place(t) = "arm" /\ txArmed' = txArmed \cup {ProbeList[Counter(t)]}
          /\ txHalted' = (txHalted /\ Counter(t) # 1)
          /\ UNCHANGED <<tx_enabled, filter, send, bytes>>
      BY <1>3 DEF Tx!Arm, Tx!At, Tx!world, Place, Counter
    <2>2. /\ txArmed' \subseteq Probes /\ filter' \subseteq Pids
          /\ tx_enabled' \in BOOLEAN /\ txHalted' \in BOOLEAN
      BY <1>1, <2>1, ProbesListed, Zenon
    <2>3. CASE Counter(t) # Last
      <3>1. next \in TxCalls /\ next.n = Counter(t) + 1 /\ next.at = "arm"
        <4>1. Counter(t) + 1 \in 1 .. Last
          BY <1>1, <2>3, ProbesListed
        <4> QED BY <1>1, <2>1, <4>1 DEF TxCalls, Counter, Place
      <3>2. txCall' = [txCall EXCEPT ![t] = next] /\ mutex' = mutex
        BY <1>3, <2>3 DEF Tx!Arm, Last, Counter
      <3> HIDE DEF next
      <3> QED BY <2>1, <2>2, <2>3, <3>1, <3>2, NewCall
              DEF Moves, Arms, StepTyped, Place, Counter
    <2>4. CASE Counter(t) = Last
      <3>1. /\ txCall' = [txCall EXCEPT ![t] = Tx!Idle]
            /\ mutex' = IF mutex = t THEN Nobody ELSE mutex
            /\ Tx!Idle.at = "idle" /\ Tx!Idle.n = 1
        BY <1>3, <2>4 DEF Tx!Arm, Tx!Return, Tx!Idle, Last, Counter
      <3> QED BY <2>1, <2>2, <2>4, <3>1, IdleCall, NewCall
              DEF Moves, Arms, StepTyped, Place, Counter
    <2> QED BY <2>3, <2>4
  <1> QED BY <1>2, <1>3

LEMMA EnablerMoves ==
  ASSUME TxTyped, TxRoles, NEW t \in TxEnablers, Tx!EnableStep(t)
  PROVE  Moves(t) /\ StepTyped(t)
  <1>1. /\ t \in TxThreads /\ t \notin TxHolders
        /\ txCall \in [TxThreads -> TxCalls] /\ txCall[t] \in TxCalls /\ Counter(t) \in 1 .. Last
        /\ tx_enabled \in BOOLEAN /\ txCall[t].on \in BOOLEAN /\ txHalted \in BOOLEAN
        /\ filter \subseteq Pids /\ txArmed \subseteq Probes
    BY Kinds DEF TxTyped, TxCalls, Counter
  <1>2. ASSUME NEW on \in BOOLEAN, Tx!EnableWrite(t, on) PROVE Moves(t) /\ StepTyped(t)
    <2> DEFINE r == [txCall[t] EXCEPT !.at = "store", !.on = on]
    <2>1. r \in TxCalls /\ r.at = "store" /\ r.n = Counter(t)
      BY <1>1 DEF TxCalls, Counter
    <2>2. txCall' = [txCall EXCEPT ![t] = r]
      BY <1>2 DEF Tx!EnableWrite
    <2> HIDE DEF r
    <2> QED BY <1>1, <1>2, <2>1, <2>2, NewCall
            DEF Moves, Enters, StepTyped, Tx!EnableWrite, Tx!At, Tx!world, Place, Counter
  <1>3. CASE Tx!StoreEnable(t)
    <2> DEFINE r == [txCall[t] EXCEPT !.at = "switch", !.n = 1]
    <2>1. r \in TxCalls /\ r.at = "switch" /\ r.on = txCall[t].on
      BY <1>1, ProbesListed DEF TxCalls
    <2>2. txCall' = [txCall EXCEPT ![t] = r]
      BY <1>3 DEF Tx!StoreEnable, Tx!Goto
    <2> HIDE DEF r
    <2> QED BY <1>1, <1>3, <2>1, <2>2, NewCall
            DEF Moves, Stores, StepTyped, Tx!StoreEnable, Tx!At, Tx!world, Place, Counter
  <1>4. CASE Tx!Switch(t)
    <2>1. PICK on \in {txCall[t].on, tx_enabled} :
            txCall' = [txCall EXCEPT ![t].at = IF on THEN "arm" ELSE "disarm", ![t].n = 1]
      BY <1>4 DEF Tx!Switch, Tx!Goto
    <2>2. PICK place \in {"arm", "disarm"} :
            /\ txCall' = [txCall EXCEPT ![t].at = place, ![t].n = 1]
            /\ \/ place = "arm" /\ (txCall[t].on \/ tx_enabled)
               \/ place = "disarm" /\ (~txCall[t].on \/ ~tx_enabled)
      <3>1. CASE on
        BY <2>1, <3>1
      <3>2. CASE ~on
        BY <2>1, <3>2
      <3> QED BY <3>1, <3>2
    <2> DEFINE r == [txCall[t] EXCEPT !.at = place, !.n = 1]
    <2>3. r \in TxCalls /\ r.n = 1 /\ r.at = place
      BY <1>1, ProbesListed DEF TxCalls
    <2>4. txCall' = [txCall EXCEPT ![t] = r]
      BY <2>2
    <2> HIDE DEF r
    <2> QED BY <1>1, <1>4, <2>2, <2>3, <2>4, NewCall
            DEF Moves, Switches, StepTyped, Tx!Switch, Tx!At, Tx!world, Place, Counter
  <1>5. CASE Tx!ZeroFilter(t)
    <2>1. Tx!Idle.at = "idle" /\ Tx!Idle.n = 1
      BY DEF Tx!Idle
    <2>2. mutex' = mutex
      BY <1>1, <1>5, Kinds DEF Tx!ZeroFilter, Tx!Return, TxTyped
    <2> QED BY <1>1, <1>5, <2>1, <2>2, IdleCall, NewCall
            DEF Moves, Zeroes, StepTyped, Tx!ZeroFilter, Tx!Return, Tx!At, Tx!world, Place, Counter
  <1> QED BY <1>2, <1>3, <1>4, <1>5 DEF Tx!EnableStep

LEMMA FiltererMoves ==
  ASSUME TxTyped, TxRoles, NEW t \in TxFilterers, Tx!FilterStep(t)
  PROVE  Moves(t) /\ StepTyped(t)
  <1>1. /\ t \in TxThreads /\ t \in TxHolders
        /\ txCall \in [TxThreads -> TxCalls] /\ txCall[t] \in TxCalls /\ Counter(t) \in 1 .. Last
        /\ tx_enabled \in BOOLEAN /\ txHalted \in BOOLEAN
        /\ filter \subseteq Pids /\ txArmed \subseteq Probes
    BY Kinds DEF TxTyped, TxCalls, Counter
  <1>2. ASSUME NEW list \in PidLists, Tx!FilterWrite(t, list) PROVE Moves(t) /\ StepTyped(t)
    <2> DEFINE r == [txCall[t] EXCEPT !.at = "disarm", !.rest = list]
    <2>1. r \in TxCalls /\ r.at = "disarm" /\ r.n = Counter(t)
      BY <1>1, PidListsAssumption DEF TxCalls, Counter
    <2>2. txCall' = [txCall EXCEPT ![t] = r]
      BY <1>2 DEF Tx!FilterWrite
    <2> HIDE DEF r
    <2> QED BY <1>1, <1>2, <2>1, <2>2, NewCall
            DEF Moves, Enters, StepTyped, Tx!FilterWrite, Tx!At, Tx!world, Place, Counter
  <1>3. CASE Tx!ReadBits(t)
    <2> DEFINE r == [txCall[t] EXCEPT !.at = "set", !.bits = filter]
    <2>1. r \in TxCalls /\ r.at = "set" /\ r.rest = txCall[t].rest
      BY <1>1 DEF TxCalls
    <2>2. txCall' = [txCall EXCEPT ![t] = r]
      BY <1>3 DEF Tx!ReadBits
    <2>3. txCall[t].rest # <<>> /\ Head(txCall[t].rest) \in Pids
      <3>1. txCall[t].rest \in Seq(Pids \cup {Bad})
        BY <1>1 DEF TxCalls
      <3> QED BY <1>3, <3>1, HeadTailProperties DEF Tx!ReadBits
    <2> HIDE DEF r
    <2> QED BY <1>1, <1>3, <2>1, <2>2, <2>3, NewCall
            DEF Moves, Fills, StepTyped, Tx!ReadBits, Tx!At, Tx!world, Place, Counter
  <1>4. CASE Tx!WriteBits(t)
    <2> DEFINE r == [txCall[t] EXCEPT !.at = "next", !.rest = Tail(@), !.bits = {}]
    <2>1. /\ txCall[t].rest # <<>> /\ Head(txCall[t].rest) \in Pids
          /\ txCall[t].rest \in Seq(Pids \cup {Bad}) /\ txCall[t].bits \subseteq Pids
      BY <1>1, <1>4 DEF TxRoles, TxCalls, Tx!WriteBits
    <2>2. Tail(txCall[t].rest) \in Seq(Pids \cup {Bad})
      BY <2>1, HeadTailProperties
    <2>3. r \in TxCalls /\ r.at = "next"
      BY <1>1, <2>2 DEF TxCalls
    <2>4. txCall' = [txCall EXCEPT ![t] = r]
      BY <1>4 DEF Tx!WriteBits
    <2> HIDE DEF r
    <2> QED BY <1>1, <1>4, <2>1, <2>3, <2>4, NewCall
            DEF Moves, Fills, StepTyped, Tx!WriteBits, Tx!At, Tx!world, Place, Counter
  <1>5. CASE Tx!FilterFails(t)
    <2>1. Tx!Idle.at = "idle" /\ Tx!Idle.n = 1
      BY DEF Tx!Idle
    <2> QED BY <1>1, <1>5, <2>1, IdleCall, NewCall
            DEF Moves, Refuses, StepTyped, Tx!FilterFails, Tx!Return, Tx!At, Tx!world, Place, Counter
  <1> QED BY <1>2, <1>3, <1>4, <1>5 DEF Tx!FilterStep

LEMMA HolderMoves ==
  ASSUME TxTyped, TxRoles, NEW t \in TxHolders,
         (t \in TxReaders /\ Tx!OutputRead(t)) \/ Tx!TestEnabled(t)
  PROVE  Moves(t) /\ StepTyped(t)
  <1>1. /\ t \in TxThreads /\ t \notin TxEnablers
        /\ txCall \in [TxThreads -> TxCalls] /\ txCall[t] \in TxCalls /\ Counter(t) \in 1 .. Last
        /\ tx_enabled \in BOOLEAN /\ txHalted \in BOOLEAN
        /\ filter \subseteq Pids /\ txArmed \subseteq Probes
        /\ Place(t) = "idle" => Counter(t) = 1
    BY Kinds DEF TxTyped, TxRoles, TxCalls, Counter, Place, Tx!At
  <1> DEFINE r(place) == [txCall[t] EXCEPT !.at = place, !.n = 1]
  <1>2. ASSUME NEW place \in {"disarm", "arm"}
        PROVE  r(place) \in TxCalls /\ r(place).at = place /\ r(place).n = 1
    BY <1>1, <1>2, ProbesListed DEF TxCalls
  <1>3. CASE t \in TxReaders /\ Tx!OutputRead(t)
    <2>1. txCall' = [txCall EXCEPT ![t] = r("disarm")]
      BY <1>3 DEF Tx!OutputRead, Tx!Goto
    <2> HIDE DEF r
    <2> QED BY <1>1, <1>2, <1>3, <2>1, NewCall
            DEF Moves, Enters, StepTyped, Tx!OutputRead, Tx!At, Tx!world, Place, Counter
  <1>4. CASE Tx!TestEnabled(t) /\ tx_enabled
    <2>1. txCall' = [txCall EXCEPT ![t] = r("arm")] /\ mutex' = mutex
      BY <1>4 DEF Tx!TestEnabled, Tx!Goto
    <2> HIDE DEF r
    <2> QED BY <1>1, <1>2, <1>4, <2>1, NewCall
            DEF Moves, Tests, StepTyped, Tx!TestEnabled, Tx!Ended, Tx!At, Tx!world, Place, Counter
  <1>5. CASE Tx!TestEnabled(t) /\ ~tx_enabled
    <2>1. Tx!Idle.at = "idle" /\ Tx!Idle.n = 1
      BY DEF Tx!Idle
    <2> QED BY <1>1, <1>5, <2>1, IdleCall, NewCall
            DEF Moves, Tests, StepTyped, Tx!TestEnabled, Tx!Return, Tx!Ended, Tx!At, Tx!world,
                Place, Counter
  <1> QED BY <1>3, <1>4, <1>5

LEMMA ThreadMoves ==
  ASSUME TxTyped, TxRoles, NEW t \in TxThreads, Tx!ThreadStep(t)
  PROVE  Moves(t) /\ StepTyped(t)
  BY CommonMoves, EnablerMoves, FiltererMoves, HolderMoves, Kinds DEF Tx!ThreadStep

(* What a process does: nothing is counted with the probes off or no pid   *)
(* in the filter.                                                          *)
Sendings == [path : Seq(Probes), tested : BOOLEAN]

LEMMA SenderMoves ==
  ASSUME TxTyped, TxRoles, NEW q \in Pids, Tx!Sender(q)
  PROVE  /\ UNCHANGED <<tx_enabled, filter, txArmed, mutex, txCall, txHalted>>
         /\ send' \in [Pids -> Sendings]
         /\ \A p \in Pids : send'[p].tested => send'[p].path # <<>>
         /\ \A p \in Pids : send'[p].tested => send[p].tested \/ (filter # {} /\ txArmed # {})
         /\ ~send[q].tested => bytes' = bytes
         /\ \A p \in Pids \ {q} : send'[p] = send[p]
  <1>1. /\ send \in [Pids -> Sendings] /\ send[q] \in Sendings
        /\ \A p \in Pids : send[p].tested => send[p].path # <<>>
    BY DEF TxTyped, TxRoles, Sendings
  <1>2. ASSUME NEW r \in Sendings, send' = [send EXCEPT ![q] = r],
               r.tested => r.path # <<>>,
               r.tested => send[q].tested \/ (filter # {} /\ txArmed # {})
        PROVE  /\ send' \in [Pids -> Sendings]
               /\ \A p \in Pids : send'[p].tested => send'[p].path # <<>>
               /\ \A p \in Pids : send'[p].tested =>
                    send[p].tested \/ (filter # {} /\ txArmed # {})
               /\ \A p \in Pids \ {q} : send'[p] = send[p]
    <2>1. send' \in [Pids -> Sendings] /\ send'[q] = r
      BY <1>1, <1>2
    <2>2. \A p \in Pids \ {q} : send'[p] = send[p]
      BY <1>1, <1>2
    <2> QED BY <1>1, <1>2, <2>1, <2>2
  <1>3. ASSUME NEW path \in Paths, Tx!Send(q, path)
        PROVE  /\ UNCHANGED <<tx_enabled, filter, txArmed, mutex, txCall, txHalted, bytes>>
               /\ \E r \in Sendings : /\ send' = [send EXCEPT ![q] = r]
                                      /\ ~r.tested
    <2> DEFINE r == [send[q] EXCEPT !.path = path]
    <2>1. ~send[q].tested
      BY <1>3 DEF Tx!Send, Tx!NotSending
    <2>2. r \in Sendings /\ r.tested = send[q].tested
      BY <1>1, ProbesAssumption DEF Sendings
    <2> QED BY <1>3, <2>1, <2>2 DEF Tx!Send
  <1>4. CASE Tx!TestBit(q)
    <2>1. /\ send[q].path # <<>> /\ ~send[q].tested /\ send[q].path \in Seq(Probes)
          /\ UNCHANGED <<tx_enabled, filter, txArmed, mutex, txCall, txHalted, bytes>>
      BY <1>1, <1>4 DEF Tx!TestBit, Sendings
    <2>2. CASE Head(send[q].path) \in txArmed /\ q \in filter
      <3> DEFINE r == [send[q] EXCEPT !.tested = TRUE]
      <3>1. send' = [send EXCEPT ![q] = r]
        BY <1>4, <2>2 DEF Tx!TestBit
      <3>2. r \in Sendings /\ r.path # <<>>
        BY <1>1, <2>1 DEF Sendings
      <3> HIDE DEF r
      <3> QED BY <1>2, <2>1, <2>2, <3>1, <3>2
    <2>3. CASE ~(Head(send[q].path) \in txArmed /\ q \in filter)
      <3> DEFINE r == [send[q] EXCEPT !.path = Tail(@)]
      <3>1. send' = [send EXCEPT ![q] = r]
        BY <1>4, <2>3 DEF Tx!TestBit
      <3>2. Tail(send[q].path) \in Seq(Probes)
        BY <2>1, HeadTailProperties
      <3>3. r \in Sendings /\ r.tested = send[q].tested
        BY <1>1, <3>2 DEF Sendings
      <3> HIDE DEF r
      <3> QED BY <1>2, <2>1, <3>1, <3>3
    <2> QED BY <2>2, <2>3
  <1>5. CASE Tx!AddBytes(q)
    <2> DEFINE r == [path |-> Tail(send[q].path), tested |-> FALSE]
    <2>1. /\ send[q].tested /\ send' = [send EXCEPT ![q] = r]
          /\ UNCHANGED <<tx_enabled, filter, txArmed, mutex, txCall, txHalted>>
      BY <1>5 DEF Tx!AddBytes
    <2>2. r \in Sendings /\ ~r.tested
      <3>1. send[q].path \in Seq(Probes) /\ send[q].path # <<>>
        BY <1>1, <2>1 DEF Sendings
      <3>2. Tail(send[q].path) \in Seq(Probes)
        BY <3>1, HeadTailProperties
      <3> QED BY <3>2 DEF Sendings
    <2> HIDE DEF r
    <2> QED BY <1>2, <2>1, <2>2
  <1> QED BY <1>2, <1>3, <1>4, <1>5 DEF Tx!Sender

-----------------------------------------------------------------------------
(* A step at a file of tx_stat, whoever writes to enable.                  *)

LEMMA TxAlone ==
  ASSUME TxMutexHeld, NEW t \in TxHolders, NEW u \in TxHolders, u # t,
         mutex = Nobody \/ Place(t) # "idle"
  PROVE  Place(u) = "idle"
  BY Kinds DEF TxMutexHeld, Place

(* What a thread does to the mutex.                                        *)
LEMMA MutexMoves ==
  ASSUME TxTyped, TxRoles, TxMutexHeld, NEW t \in TxThreads, Moves(t)
  PROVE  /\ t \in TxEnablers => mutex' = mutex
         /\ t \in TxHolders => /\ mutex = Nobody \/ Place(t) # "idle"
                               /\ Place(t)' = "idle" => mutex' = Nobody
                               /\ Place(t)' # "idle" => mutex' = t
  <1>1. t \in TxHolders => (Place(t) # "idle" <=> mutex = t)
    BY DEF TxMutexHeld, Place
  <1>2. t \in TxEnablers => mutex # t /\ t \notin TxHolders
    BY Kinds DEF TxTyped
  <1>3. t \in TxHolders => t \notin TxEnablers
    BY Kinds
  <1> QED
    BY <1>1, <1>2, <1>3, Kinds
       DEF Moves, Enters, Stores, Switches, Zeroes, Disarms, Arms, Fills, Refuses, Tests

LEMMA ThreadKeepsRoles ==
  ASSUME TxTyped, TxRoles, TxMutexHeld, NEW t \in TxThreads, Moves(t), StepTyped(t)
  PROVE  TxTyped' /\ TxRoles' /\ TxMutexHeld'
  <1>1. \A u \in TxThreads \ {t} : txCall'[u] = txCall[u]
    BY DEF Moves
  <1>2. TxTyped'
    <2>1. mutex' \in TxHolders \cup DiskHolders \cup {Nobody} /\ send' = send
      BY MutexMoves, Kinds DEF TxTyped, Moves
    <2> QED BY <2>1 DEF TxTyped, StepTyped
  <1>3. TxRoles'
    <2>1. /\ t \in TxEnablers => /\ t \notin TxHolders
                                 /\ Place(t)' \in {"idle", "store", "switch", "disarm", "zero", "arm"}
          /\ t \in TxFilterers => Place(t)' \in {"idle", "disarm", "next", "set", "arm"}
          /\ t \in TxReaders => Place(t)' \in {"idle", "disarm", "test", "arm"}
      BY Kinds DEF TxRoles, Place, Moves, Enters, Stores, Switches, Zeroes, Disarms, Arms, Fills,
         Refuses, Tests
    <2> QED BY <1>1, <2>1, Kinds DEF TxRoles, StepTyped, Moves, Place, Counter, Tx!At
  <1>4. TxMutexHeld'
    <2>1. ASSUME NEW u \in TxHolders PROVE txCall'[u].at # "idle" <=> mutex' = u
      <3>1. CASE u = t
        BY <3>1, MutexMoves, Kinds DEF Place
      <3>2. CASE u # t /\ t \in TxHolders
        <4>1. txCall'[u].at = "idle"
          BY <1>1, <3>2, MutexMoves, TxAlone, Kinds DEF Place
        <4>2. mutex' # u
          BY <3>2, MutexMoves, Kinds
        <4> QED BY <4>1, <4>2
      <3>3. CASE t \notin TxHolders
        BY <1>1, <3>3, MutexMoves, Kinds DEF TxMutexHeld
      <3> QED BY <3>1, <3>2, <3>3
    <2> QED BY <2>1 DEF TxMutexHeld
  <1> QED BY <1>2, <1>3, <1>4

-----------------------------------------------------------------------------
(* The flag and the probes of tx_stat, when one thread writes enable.      *)

TxRolesHold == TxTyped /\ TxRoles /\ TxMutexHeld
TxFlagInv == TxSwitchInv /\ TxArmInv /\ TxOffInv /\ TxCleanInv

(* The places of a thread before and after its step, by what it does.      *)
LEMMA Others ==
  ASSUME TxRolesHold, NEW t \in TxThreads, Moves(t)
  PROVE  /\ \A u \in TxThreads \ {t} : txCall'[u] = txCall[u]
         /\ t \in TxHolders => \A u \in TxHolders \ {t} : Place(u) = "idle"
         /\ Counter(t) \in 1 .. Last
  <1>1. t \in TxHolders => \A u \in TxHolders \ {t} : Place(u) = "idle"
    BY MutexMoves, TxAlone DEF TxRolesHold
  <1> QED BY <1>1 DEF Moves, TxRolesHold, TxTyped, TxCalls, Counter

LEMMA KeepsSwitch ==
  ASSUME OneTxEnabler, TxRolesHold, TxSwitchInv, NEW t \in TxThreads, Moves(t), StepTyped(t)
  PROVE  TxSwitchInv'
  <1>1. \A u \in TxThreads \ {t} : txCall'[u] = txCall[u]
    BY Others
  <1>2. CASE t \in TxHolders
    <2>1. tx_enabled' = tx_enabled /\ t \notin TxEnablers
      BY <1>2, Kinds DEF Moves, Enters, Stores, Switches, Zeroes, Disarms, Arms, Fills, Refuses,
         Tests
    <2> QED BY <1>1, <2>1, Kinds DEF TxSwitchInv, Tx!At
  <1>3. CASE t \in TxEnablers
    <2>1. TxEnablers = {t} /\ t \notin TxHolders
      BY <1>3, Kinds DEF OneTxEnabler
    <2>2. /\ Place(t) = "switch" => (txCall[t].on <=> tx_enabled)
          /\ Place(t) \in {"disarm", "zero"} => ~tx_enabled
          /\ Place(t) = "arm" => tx_enabled
      BY <1>3 DEF TxSwitchInv, Place, Tx!At
    <2>3. /\ Place(t)' = "switch" => (txCall'[t].on <=> tx_enabled')
          /\ Place(t)' \in {"disarm", "zero"} => ~tx_enabled'
          /\ Place(t)' = "arm" => tx_enabled'
      BY <2>1, <2>2, Kinds
         DEF Moves, Enters, Stores, Switches, Zeroes, Disarms, Arms, Fills, Refuses, Tests
    <2> QED BY <2>1, <2>3 DEF TxSwitchInv, Place, Tx!At
  <1> QED BY <1>2, <1>3, Kinds

(* Whoever disarms a probe while enable says 1 goes on to arm it again.    *)
LEMMA KeepsArm ==
  ASSUME TxRolesHold, TxSwitchInv, TxArmInv, NEW t \in TxThreads, Moves(t), StepTyped(t)
  PROVE  TxArmInv'
  <1>1. /\ \A u \in TxThreads \ {t} : txCall'[u] = txCall[u]
        /\ Counter(t) \in 1 .. Last /\ Last \in Nat /\ 1 \in 1 .. Last
    BY Others, ProbesListed
  <1> SUFFICES ASSUME tx_enabled', ~txHalted', ~TxSwitching', NEW m \in 1 .. Last
               PROVE  ProbeList[m] \in txArmed' \/ \E u \in TxThreads : WillArm(u, m)'
    BY DEF TxArmInv
  <1>2. \A u \in TxThreads \ {t} : WillArm(u, m)' <=> WillArm(u, m)
    BY <1>1 DEF WillArm, Tx!At
  <1>3. SUFFICES ASSUME ~WillArm(t, m)', \A u \in TxThreads \ {t} : ~WillArm(u, m)
                 PROVE  ProbeList[m] \in txArmed'
    BY <1>2
  <1>4. t \in TxEnablers \/ t \in TxHolders
    BY Kinds
  <1>5. ~Stores(t)
    BY DEF Stores, TxSwitching, Place, Tx!At
  <1>6. CASE Switches(t)
    <2>1. Place(t)' = "disarm"
      BY <1>1, <1>3, <1>6 DEF Switches, WillArm, Place, Counter, Tx!At
    <2> QED BY <1>6, <2>1 DEF Switches, TxSwitchInv, Place, Tx!At
  <1>7. CASE ~Switches(t)
    <2>1. t \in TxEnablers => Place(t) # "switch"
      BY <1>5, <1>7, Kinds DEF Moves, Enters, Zeroes, Disarms, Arms, Fills, Refuses, Tests
    <2>2. ~TxSwitching
      <3>1. \A e \in TxEnablers \ {t} : txCall[e].at # "switch"
        BY <1>1, Kinds DEF TxSwitching, Tx!At
      <3> QED BY <2>1, <3>1 DEF TxSwitching, Place, Tx!At
    <2>3. tx_enabled
      BY <1>5, <1>7 DEF Moves, Enters, Zeroes, Disarms, Arms, Fills, Refuses, Tests
    <2>4. CASE Arms(t)
      <3>1. CASE Counter(t) = m
        BY <2>4, <3>1 DEF Arms
      <3>2. CASE Counter(t) # m
        <4>1. Counter(t) > m
          BY <1>1, <1>3, <2>4, <3>2 DEF Arms, WillArm, Place, Counter, Tx!At
        <4>2. ~txHalted /\ ~WillArm(t, m)
          <5>1. Counter(t) # 1 /\ ~(Counter(t) <= m) /\ Place(t) = "arm"
            BY <1>1, <2>4, <4>1 DEF Arms
          <5>2. ~txHalted
            BY <2>4, <5>1, Zenon DEF Arms
          <5> QED BY <5>1, <5>2 DEF WillArm, Place, Counter
        <4>3. ProbeList[m] \in txArmed
          BY <1>3, <2>2, <2>3, <4>2 DEF TxArmInv
        <4> QED BY <2>4, <4>3 DEF Arms
      <3> QED BY <3>1, <3>2
    <2>5. CASE ~Arms(t)
      <3>1. ~txHalted
        BY <1>5, <1>7, <2>5 DEF Moves, Enters, Zeroes, Disarms, Fills, Refuses, Tests
      <3>2. ~WillArm(t, m) /\ txArmed' = txArmed
        <4>1. Place(t) \notin {"zero", "disarm"} \/ t \in TxHolders
          BY <1>4, <2>3 DEF TxSwitchInv, Place
        <4>2. t \in TxHolders => Place(t)' \notin {"disarm", "next", "set", "test"}
          BY <1>3 DEF WillArm, Place
        <4>3. Place(t)' = "arm" => Counter(t)' > m
          BY <1>1, <1>3 DEF WillArm, Place, Counter, Tx!At, StepTyped, TxCalls
        <4> QED BY <1>1, <1>4, <1>5, <1>7, <2>3, <2>5, <3>1, <4>1, <4>2, <4>3, Kinds
                DEF Moves, Enters, Zeroes, Disarms, Fills, Refuses, Tests, WillArm, Place, Tx!At
      <3> QED BY <1>3, <2>2, <2>3, <3>1, <3>2 DEF TxArmInv
    <2> QED BY <2>4, <2>5
  <1> QED BY <1>6, <1>7

LEMMA KeepsOff ==
  ASSUME OneTxEnabler, TxRolesHold, TxSwitchInv, TxOffInv,
         NEW t \in TxThreads, Moves(t), StepTyped(t)
  PROVE  TxOffInv'
  <1>1. /\ \A u \in TxThreads \ {t} : txCall'[u] = txCall[u]
        /\ t \in TxHolders => \A u \in TxHolders \ {t} : Place(u) = "idle"
        /\ Counter(t) \in 1 .. Last /\ Last \in Nat /\ 1 \in 1 .. Last
    BY Others, ProbesListed
  <1> SUFFICES ASSUME ~tx_enabled', NEW h \in TxHolders, NEW m \in 1 .. Last,
                      HasDisarmed(h, m)', \A e \in TxEnablers : HasDisarmed(e, m)'
               PROVE  ProbeList[m] \notin txArmed'
    BY DEF TxOffInv
  <1>2. \A u \in TxThreads \ {t} : HasDisarmed(u, m)' <=> HasDisarmed(u, m)
    BY <1>1 DEF HasDisarmed
  <1>3. HasDisarmed(t, m)' =>
          HasDisarmed(t, m) \/ (Disarms(t) /\ Counter(t) = m) \/ t \notin TxHolders \cup TxEnablers
    <2>1. CASE t \in TxHolders
      <3>1. t \notin TxEnablers /\ (Place(t) = "idle" => ~(m < Counter(t)))
        BY <2>1, Kinds DEF TxRolesHold, TxRoles, Place, Counter, Tx!At
      <3> QED BY <1>1, <2>1, <3>1
              DEF HasDisarmed, Place, Counter, Moves, Enters, Stores, Switches, Zeroes, Disarms,
                  Arms, Fills, Refuses, Tests, StepTyped
    <2>2. CASE t \in TxEnablers
      <3>1. t \notin TxHolders
        BY <2>2, Kinds
      <3>2. ~tx_enabled => Place(t) # "arm"
        BY <2>2 DEF TxSwitchInv, Place, Tx!At
      <3> QED BY <1>1, <2>2, <3>1, <3>2, Kinds
              DEF HasDisarmed, Place, Counter, Moves, Enters, Stores, Switches, Zeroes, Disarms,
                  Arms, Fills, Refuses, Tests, StepTyped
    <2> QED BY <2>1, <2>2
  <1>4. CASE Disarms(t) /\ Counter(t) = m
    BY <1>4 DEF Disarms
  <1>5. CASE ~(Disarms(t) /\ Counter(t) = m)
    <2>1. HasDisarmed(h, m) /\ \A e \in TxEnablers : HasDisarmed(e, m)
      BY <1>2, <1>3, <1>5, Kinds
    <2>2. ~Stores(t)
      <3>1. Stores(t) => t \in TxEnablers /\ ~HasDisarmed(t, m)'
        BY Kinds DEF Stores, HasDisarmed, Place
      <3> QED BY <3>1
    <2>3. ~tx_enabled
      BY <2>2 DEF Moves, Enters, Switches, Zeroes, Disarms, Arms, Fills, Refuses, Tests
    <2>4. ~Arms(t)
      <3>1. CASE t \in TxEnablers
        BY <2>3, <3>1 DEF Arms, TxSwitchInv, Place, Tx!At
      <3>2. CASE t \in TxHolders
        <4>1. CASE h = t
          BY <2>1, <3>2, <4>1, Kinds DEF Arms, HasDisarmed, Place
        <4>2. CASE h # t
          BY <1>1, <2>1, <3>2, <4>2, Kinds DEF HasDisarmed, Place
        <4> QED BY <4>1, <4>2
      <3> QED BY <3>1, <3>2, Kinds
    <2>5. ProbeList[m] \notin txArmed
      BY <2>1, <2>3 DEF TxOffInv
    <2>6. txArmed' \subseteq txArmed
      BY <2>2, <2>4 DEF Moves, Enters, Switches, Zeroes, Disarms, Fills, Refuses, Tests
    <2> QED BY <2>5, <2>6
  <1> QED BY <1>4, <1>5

(* A pid that is put into the filter with enable at 0 finds all the probes *)
(* off.                                                                    *)
LEMMA KeepsClean ==
  ASSUME OneTxEnabler, TxRolesHold, TxSwitchInv, TxOffInv, TxCleanInv,
         NEW t \in TxThreads, Moves(t), StepTyped(t)
  PROVE  TxCleanInv'
  <1>1. /\ \A u \in TxThreads \ {t} : txCall'[u] = txCall[u]
        /\ t \in TxHolders => \A u \in TxHolders \ {t} : Place(u) = "idle"
    BY Others
  <1> SUFFICES ASSUME ~tx_enabled', \A e \in TxEnablers : Place(e)' \in {"idle", "store"}
               PROVE  /\ filter' = {} \/ txArmed' = {}
                      /\ (\E h \in TxHolders : Place(h)' = "arm") => filter' = {}
    BY DEF TxCleanInv, Place, Tx!At
  <1>2. CASE filter' = {}
    BY <1>2
  <1>3. CASE filter' # {}
    <2>1. /\ t \in TxEnablers => Place(t)' \in {"idle", "store"}
          /\ ~Zeroes(t) /\ ~Refuses(t) /\ ~Stores(t) /\ ~Switches(t)
      BY <1>3 DEF Zeroes, Refuses, Stores, Switches, Place
    <2>2. ~tx_enabled
      BY <2>1 DEF Moves, Enters, Disarms, Arms, Fills, Tests
    <2>3. t \in TxEnablers => Enters(t)
      <3>1. t \in TxEnablers => Place(t) # "arm" /\ t \notin TxHolders
        BY <2>2, Kinds DEF TxSwitchInv, Place, Tx!At
      <3> QED BY <2>1, <3>1, Kinds DEF Moves, Enters, Disarms, Arms, Fills, Tests
    <2>4. \A e \in TxEnablers : Place(e) \in {"idle", "store"}
      <3>1. \A e \in TxEnablers \ {t} : Place(e) \in {"idle", "store"}
        BY <1>1, Kinds DEF Place
      <3> QED BY <2>3, <3>1 DEF Enters
    <2>5. /\ filter = {} \/ txArmed = {}
          /\ (\E h \in TxHolders : Place(h) = "arm") => filter = {}
      BY <2>2, <2>4 DEF TxCleanInv, Place, Tx!At
    <2>6. ASSUME NEW h \in TxHolders, Place(h)' = "arm" PROVE Place(h) = "arm" /\ ~Fills(t)
      <3>1. CASE h = t
        BY <2>1, <2>2, <2>6, <3>1, Kinds DEF Moves, Enters, Disarms, Arms, Fills, Tests
      <3>2. CASE h # t
        <4>1. Place(h) = "arm"
          BY <1>1, <2>6, <3>2, Kinds DEF Place
        <4> QED BY <1>1, <3>2, <4>1, Kinds DEF Fills
      <3> QED BY <3>1, <3>2
    <2>7. CASE Fills(t)
      <3>1. txArmed' = txArmed /\ Place(t) \in {"next", "set"} /\ t \in TxHolders
        BY <2>7, Kinds DEF Fills
      <3>2. \A m \in 1 .. Last : HasDisarmed(t, m) /\ \A e \in TxEnablers : HasDisarmed(e, m)
        BY <2>4, <3>1 DEF HasDisarmed, Place
      <3>3. \A m \in 1 .. Last : ProbeList[m] \notin txArmed
        BY <2>2, <3>1, <3>2 DEF TxOffInv
      <3>4. txArmed = {}
        BY <3>3, ProbesListed DEF TxRolesHold, TxTyped
      <3> QED BY <2>6, <2>7, <3>1, <3>4
    <2>8. CASE ~Fills(t)
      <3>1. filter' = filter
        BY <2>1, <2>8 DEF Moves, Enters, Disarms, Arms, Tests
      <3>2. ~Arms(t)
        <4>1. Arms(t) => t \in TxHolders /\ Place(t) = "arm"
          BY <2>3, Kinds DEF Arms, Enters
        <4> QED BY <1>3, <2>5, <3>1, <4>1
      <3>3. txArmed' \subseteq txArmed
        BY <2>1, <2>8, <3>2 DEF Moves, Enters, Disarms, Tests
      <3> QED BY <1>3, <2>5, <2>6, <3>1, <3>3
    <2> QED BY <2>7, <2>8
  <1> QED BY <1>2, <1>3

LEMMA ThreadKeepsFlag ==
  ASSUME OneTxEnabler, TxRolesHold, TxFlagInv, NEW t \in TxThreads, Tx!ThreadStep(t)
  PROVE  TxFlagInv'
  <1>1. Moves(t) /\ StepTyped(t)
    BY ThreadMoves DEF TxRolesHold
  <1> QED BY <1>1, KeepsSwitch, KeepsArm, KeepsOff, KeepsClean DEF TxFlagInv

-----------------------------------------------------------------------------
(* Loading and unloading.                                                  *)

LEMMA InitModule == Init => ModuleInv /\ ArmedInv
  <1> SUFFICES ASSUME Init PROVE ModuleInv /\ ArmedInv
    OBVIOUS
  <1>1. Disk!Init /\ Tx!Init /\ phase = "out" /\ files = 0
    BY DEF Init
  <1>2. DiskProofs!Init
    BY <1>1, MutexSeen, Kinds
       DEF Disk!Init, DiskProofs!Init, Disk!Fresh, DiskProofs!Fresh, Disk!Slots, DiskProofs!Slots,
           Disk!Idle, DiskProofs!Idle, Disk!NoHit, DiskProofs!NoHit
  <1>3. /\ tx_enabled = FALSE /\ filter = {} /\ txArmed = {} /\ mutex = Nobody /\ txHalted = FALSE
        /\ bytes = [p \in Pids |-> 0]
        /\ txCall = [t \in TxThreads |-> Tx!Idle]
        /\ send = [p \in Pids |-> Tx!NotSending]
    BY <1>1, Kinds DEF Tx!Init, Tx!Fresh
  <1>4. /\ \A t \in TxThreads : Place(t) = "idle" /\ Counter(t) = 1
        /\ \A p \in Pids : bytes[p] = 0 /\ send[p].tested = FALSE
    BY <1>3 DEF Tx!Idle, Tx!NotSending, Place, Counter
  <1>5. TxTyped
    <2>1. send \in [Pids -> Sendings]
      <3>1. <<>> \in Seq(Probes)
        BY EmptySeq
      <3> QED BY <1>3, <3>1 DEF Tx!NotSending, Sendings
    <2>2. txCall \in [TxThreads -> TxCalls]
      BY <1>3, IdleCall
    <2>3. tx_enabled \in BOOLEAN /\ txHalted \in BOOLEAN
      BY <1>3, Zenon
    <2> QED BY <1>3, <2>1, <2>2, <2>3 DEF TxTyped, Sendings
  <1>6. TxRoles /\ TxMutexHeld
    BY <1>3, <1>4, Kinds DEF TxRoles, TxMutexHeld, Place, Counter, Tx!At
  <1>7. PhaseInv
    <2>1. /\ \A t \in DiskThreads : diskCall[t].at = "idle"
          /\ denabled = FALSE /\ didx = 0
          /\ \A i \in Disk!Slots : dutils[i] = {}
          /\ \A c \in CPUs : hit[c].at = "idle"
      BY <1>1, Kinds DEF Disk!Init, Disk!Fresh, Disk!Idle, Disk!NoHit
    <2> QED BY <1>1, <1>3, <1>4, <2>1 DEF PhaseInv, Untouched, Place
  <1>8. TxFlagInv
    BY <1>3, <1>4, Kinds
       DEF TxFlagInv, TxSwitchInv, TxArmInv, TxOffInv, TxCleanInv, Place, Tx!At
  <1> QED BY <1>2, <1>5, <1>6, <1>7, <1>8, DiskStarts
          DEF ModuleInv, ArmedInv, TxFlagInv

(* The next load begins like the first.                                    *)
LEMMA Reloads == (Init => ModuleInv /\ ArmedInv)'
  BY InitModule, PTL

LEMMA ExitKeeps == Exit => ModuleInv' /\ ArmedInv'
  <1>1. Exit => Init'
    BY DEF Exit, Init, Disk!Init, Tx!Init
  <1> QED BY <1>1, Reloads

(* The steps of init, which change nothing but what is armed.              *)
Loads ==
  RegisterJprobes \/ RegisterKretprobes \/ KretprobesFail \/ DisableProbes \/ CreateFile

LEMMA LoadsKeepModule ==
  ASSUME ModuleInv, Loads
  PROVE  /\ ModuleInv'
         /\ UNCHANGED <<diskOwn, txOwn, mutex>>
         /\ UNCHANGED <<diskArmed, txArmed>> \/ Untouched
  <1>1. /\ UNCHANGED <<diskOwn, txOwn, mutex>>
        /\ diskArmed' = diskArmed \/ diskArmed' \in BOOLEAN
        /\ txArmed' = txArmed \/ txArmed' \in {Probes, {}}
        /\ UNCHANGED <<diskArmed, txArmed>> \/ phase \in {"out", "kretprobes"}
    BY Kinds DEF Loads, RegisterJprobes, RegisterKretprobes, KretprobesFail, DisableProbes,
       CreateFile, InitStep
  <1>2. UNCHANGED <<diskArmed, txArmed>> \/ Untouched
    BY <1>1 DEF ModuleInv, PhaseInv
  <1>3. DiskProofs!TableIInv'
    <2>1. DiskMutex' = DiskMutex /\ diskArmed' \in BOOLEAN
      BY <1>1, MutexSeen DEF ModuleInv, DiskProofs!TableIInv, DiskProofs!TypeOK
    <2>2. UNCHANGED <<denabled, didx, dnames, dutils, diskCall, hit, written, diskHalted, orderly>>
      BY <1>1 DEF diskOwn
    <2>3. DiskProofs!TypeOK'
      BY <2>1, <2>2 DEF ModuleInv, DiskProofs!TableIInv, DiskProofs!TypeOK
    <2>4. DiskProofs!Roles' /\ DiskProofs!MutexHeld' /\ DiskProofs!HandlersInv'
      BY <2>1, <2>2 DEF ModuleInv, DiskProofs!TableIInv, DiskProofs!Roles, DiskProofs!MutexHeld,
         DiskProofs!HandlersInv, DiskProofs!At
    <2>5. DiskProofs!FilterInv' /\ DiskProofs!TableInv'
      BY <2>2 DEF ModuleInv, DiskProofs!TableIInv, DiskProofs!FilterInv, DiskProofs!TableInv,
         DiskProofs!Window, DiskProofs!Writing, DiskProofs!IsEnd, DiskProofs!NamesBefore,
         DiskProofs!Rest, DiskProofs!At
    <2> QED BY <2>3, <2>4, <2>5 DEF DiskProofs!TableIInv
  <1>4. TxTyped' /\ TxRoles' /\ TxMutexHeld'
    BY <1>1 DEF ModuleInv, txOwn, TxTyped, TxRoles, TxMutexHeld, Tx!At
  <1>5. PhaseInv'
    <2>1. Untouched => Untouched'
      BY <1>1 DEF diskOwn, txOwn, Untouched
    <2>2. /\ files' \in Nat
          /\ phase' \in {"out", "jprobes", "kretprobes", "failed"} => files' = 0
          /\ files' = 0 => files = 0
      BY DEF ModuleInv, PhaseInv, Loads, RegisterJprobes, RegisterKretprobes, KretprobesFail,
         DisableProbes, CreateFile, InitStep
    <2> QED BY <2>1, <2>2 DEF ModuleInv, PhaseInv
  <1> QED BY <1>1, <1>2, <1>3, <1>4, <1>5 DEF ModuleInv

LEMMA LoadsKeepArmed ==
  ASSUME ModuleInv, ArmedInv, Loads
  PROVE  ArmedInv'
  <1>1. /\ UNCHANGED <<diskOwn, txOwn, mutex>>
        /\ UNCHANGED <<diskArmed, txArmed>> \/ Untouched
    BY LoadsKeepModule
  <1>2. CASE UNCHANGED <<diskArmed, txArmed>>
    BY <1>1, <1>2
       DEF ArmedInv, diskOwn, txOwn, DiskProofs!FlagInv, DiskProofs!SwitchInv, DiskProofs!OffInv,
           DiskProofs!StrayInv, DiskProofs!RearmInv, DiskProofs!Switching, DiskProofs!Zeroing,
           DiskProofs!Filling, DiskProofs!Ending, DiskProofs!Rearming, DiskProofs!At,
           TxSwitchInv, TxArmInv, TxOffInv, TxCleanInv, TxSwitching, WillArm, HasDisarmed, Tx!At
  <1>3. CASE Untouched
    <2>1. Untouched'
      BY <1>1, <1>3 DEF diskOwn, txOwn, Untouched
    <2>2. DiskProofs!FlagInv'
      BY <2>1, Kinds
         DEF Untouched, DiskProofs!FlagInv, DiskProofs!SwitchInv, DiskProofs!OffInv,
             DiskProofs!StrayInv, DiskProofs!RearmInv, DiskProofs!Filling, DiskProofs!Rearming,
             DiskProofs!At
    <2>3. TxSwitchInv' /\ TxArmInv'
      BY <2>1, Kinds DEF Untouched, TxSwitchInv, TxArmInv, Tx!At
    <2>4. TxOffInv' /\ TxCleanInv'
      BY <2>1, Kinds DEF Untouched, TxOffInv, TxCleanInv, HasDisarmed, Tx!At
    <2> QED BY <2>2, <2>3, <2>4 DEF ArmedInv
  <1> QED BY <1>1, <1>2, <1>3

-----------------------------------------------------------------------------
(* Steps at the files of disk_utils.                                       *)

(* They take the mutex only when nobody has it, and give back their own.   *)
LEMMA DiskMutexMoves ==
  ASSUME ModuleInv, DiskStep
  PROVE  \/ mutex' = mutex
         \/ mutex \notin TxHolders /\ mutex' \in DiskHolders \cup {Nobody}
  <1>1. ASSUME NEW t \in DiskHolders, diskCall[t].at # "idle" PROVE mutex = t
    BY <1>1, Kinds DEF ModuleInv, DiskProofs!TableIInv, DiskProofs!MutexHeld, DiskProofs!At, DiskMutex
  <1>2. ASSUME NEW t \in DiskThreads, Disk!ThreadStep(t)
        PROVE  \/ mutex' = mutex
               \/ mutex \notin TxHolders /\ mutex' \in DiskHolders \cup {Nobody}
    <2>1. CASE t \in DiskEnablers /\ Disk!EnableStep(t)
      BY <2>1 DEF Disk!EnableStep, Disk!EnableWrite, Disk!StoreEnable, Disk!SwitchOn,
         Disk!SwitchOff, Disk!ZeroSlot, Disk!ResetTable
    <2>2. CASE t \in DiskFilterers /\ Disk!FilterStep(t)
      BY <1>1, <2>2, Kinds
         DEF Disk!FilterStep, Disk!FilterWrite, Disk!FilterDisarm, Disk!TakeSlot, Disk!BumpIndex,
             Disk!CopyName, Disk!Overrun, Disk!FilterFails, Disk!Acquire, Disk!Release, Disk!At
    <2>3. CASE t \in DiskReaders /\ Disk!ReadStep(t)
      BY <2>3, Kinds DEF Disk!ReadStep, Disk!OutputRead, Disk!OutputDisarm, Disk!Acquire
    <2>4. CASE t \in DiskHolders /\ (Disk!TestEnabled(t) \/ Disk!Rearm(t))
      BY <1>1, <2>4, Kinds DEF Disk!TestEnabled, Disk!Rearm, Disk!Ended, Disk!Release, Disk!At
    <2> QED BY <1>2, <2>1, <2>2, <2>3, <2>4, Kinds DEF Disk!ThreadStep
  <1>3. ASSUME NEW c \in CPUs, Disk!Handler(c) PROVE mutex' = mutex
    BY <1>3 DEF Disk!Handler, Disk!Hit, Disk!LookUp, Disk!ReadTime, Disk!AddTime
  <1> QED BY <1>2, <1>3, Kinds DEF DiskStep

LEMMA DiskKeepsModule ==
  ASSUME ModuleInv, DiskStep
  PROVE  ModuleInv'
  <1>1. DiskProofs!TableIInv'
    BY DiskInside, TableStep DEF ModuleInv
  <1>2. UNCHANGED <<tx_enabled, filter, bytes, txCall, send, sends, txHalted, txArmed, phase, files>>
    BY DEF DiskStep, txOwn
  <1>3. TxTyped' /\ TxRoles' /\ TxMutexHeld'
    <2>1. mutex' \in TxHolders \cup DiskHolders \cup {Nobody}
      BY DiskMutexMoves DEF ModuleInv, TxTyped
    <2>2. \A h \in TxHolders : mutex' = h <=> mutex = h
      BY DiskMutexMoves, Kinds
    <2> QED BY <1>2, <2>1, <2>2 DEF ModuleInv, TxTyped, TxRoles, TxMutexHeld, Tx!At
  <1>4. PhaseInv'
    <2>1. SUFFICES ASSUME files = 0, Untouched PROVE Untouched'
      BY <1>2 DEF ModuleInv, PhaseInv
    <2>2. \A t \in DiskThreads : ~(files >= DiskFile(t))
      BY <2>1, Kinds DEF DiskFile
    <2>3. PICK c \in CPUs : Disk!Handler(c)
      BY <2>2, Kinds DEF DiskStep
    <2>4. /\ UNCHANGED <<denabled, didx, dutils, diskCall>>
          /\ \A d \in CPUs : hit'[d].at \in {"idle", "entered"}
      <3>1. hit \in [CPUs -> DiskProofs!Hits]
        BY Zenon DEF ModuleInv, DiskProofs!TableIInv, DiskProofs!TypeOK, DiskProofs!Hits
      <3>2. hit[c].at \in {"idle", "entered"} /\ Disk!Indexes(hit[c].disk) = {}
        BY <2>1 DEF Untouched, Disk!Indexes
      <3>3. CASE \E disk \in Names : Disk!Hit(c, disk)
        BY <2>1, <3>1, <3>3 DEF Disk!Hit, Untouched, DiskProofs!Hits
      <3>4. CASE Disk!LookUp(c)
        BY <2>1, <3>1, <3>2, <3>4 DEF Disk!LookUp, Disk!NoHit, Untouched, DiskProofs!Hits
      <3> QED BY <2>3, <3>2, <3>3, <3>4 DEF Disk!Handler, Disk!ReadTime, Disk!AddTime
    <2> QED BY <1>2, <2>1, <2>4 DEF Untouched
  <1> QED BY <1>1, <1>3, <1>4 DEF ModuleInv

LEMMA DiskKeepsArmed ==
  ASSUME OneDiskEnabler, ModuleInv, ArmedInv, DiskStep
  PROVE  ArmedInv'
  <1>1. DiskProofs!FlagInv'
    BY DiskInside, FlagStep DEF ModuleInv, ArmedInv
  <1> QED BY <1>1 DEF ArmedInv, DiskStep, txOwn, TxSwitchInv, TxArmInv, TxOffInv, TxCleanInv,
             TxSwitching, WillArm, HasDisarmed, Tx!At

-----------------------------------------------------------------------------
(* Steps at the files of tx_stat.                                          *)

LEMMA TxKeepsDisk ==
  ASSUME ModuleInv, TxStep
  PROVE  UNCHANGED DiskProofs!vars
  <1>1. UNCHANGED <<denabled, didx, dnames, dutils, diskCall, hit, written, diskHalted, orderly,
                    diskArmed>>
    BY DEF TxStep, diskOwn
  <1>2. DiskMutex' = DiskMutex
    <2>1. ASSUME NEW t \in TxThreads, Tx!ThreadStep(t) PROVE DiskMutex' = DiskMutex
      <3>1. Moves(t)
        BY <2>1, ThreadMoves DEF ModuleInv
      <3>2. CASE t \in TxEnablers
        BY <3>1, <3>2, MutexMoves, MutexSeen DEF ModuleInv
      <3>3. CASE t \in TxHolders
        <4>1. mutex = Nobody \/ mutex = t
          BY <3>1, <3>3, MutexMoves DEF ModuleInv, TxMutexHeld, Place
        <4>2. mutex' = Nobody \/ mutex' = t
          BY <3>1, <3>3, MutexMoves DEF ModuleInv
        <4> QED BY <3>3, <4>1, <4>2 DEF DiskMutex
      <3> QED BY <3>2, <3>3, Kinds
    <2>2. ASSUME NEW q \in Pids, Tx!Sender(q) PROVE DiskMutex' = DiskMutex
      BY <2>2, SenderMoves, MutexSeen DEF ModuleInv
    <2> QED BY <2>1, <2>2, Kinds DEF TxStep
  <1> QED BY <1>1, <1>2 DEF DiskProofs!vars

LEMMA TxKeepsModule ==
  ASSUME ModuleInv, TxStep
  PROVE  ModuleInv'
  <1>1. DiskProofs!TableIInv'
    BY TxKeepsDisk, TableStep DEF ModuleInv
  <1>2. UNCHANGED <<diskOwn, diskArmed, phase, files>>
    BY DEF TxStep
  <1>3. ASSUME NEW t \in TxThreads, files >= TxFile(t), Tx!ThreadStep(t) PROVE ModuleInv'
    <2>1. TxTyped' /\ TxRoles' /\ TxMutexHeld'
      BY <1>3, ThreadMoves, ThreadKeepsRoles DEF ModuleInv
    <2>2. files # 0
      BY <1>3, Kinds DEF TxFile
    <2> QED BY <1>1, <1>2, <2>1, <2>2 DEF ModuleInv, PhaseInv
  <1>4. ASSUME NEW q \in Pids, Tx!Sender(q) PROVE ModuleInv'
    <2>1. /\ UNCHANGED <<tx_enabled, filter, txArmed, mutex, txCall, txHalted>>
          /\ send' \in [Pids -> Sendings]
          /\ \A p \in Pids : send'[p].tested => send'[p].path # <<>>
          /\ \A p \in Pids : send'[p].tested => send[p].tested \/ (filter # {} /\ txArmed # {})
          /\ ~send[q].tested => bytes' = bytes
      BY <1>4, SenderMoves DEF ModuleInv
    <2>2. TxTyped' /\ TxRoles' /\ TxMutexHeld'
      BY <2>1 DEF ModuleInv, TxTyped, TxRoles, TxMutexHeld, Tx!At, Sendings
    <2>3. Untouched => Untouched'
      <3>1. ASSUME Untouched PROVE bytes' = bytes /\ \A p \in Pids : ~send'[p].tested
        BY <2>1, <3>1 DEF Untouched
      <3>2. \A p \in Pids : send'[p].tested \in BOOLEAN
        BY <2>1 DEF Sendings
      <3>3. ASSUME Untouched PROVE \A p \in Pids : send'[p].tested = FALSE
        BY <3>1, <3>2, <3>3
      <3> QED BY <1>2, <2>1, <3>1, <3>3 DEF Untouched, diskOwn
    <2> QED BY <1>1, <1>2, <2>2, <2>3 DEF ModuleInv, PhaseInv
  <1> QED BY <1>3, <1>4, Kinds DEF TxStep

LEMMA TxKeepsArmed ==
  ASSUME OneDiskEnabler, OneTxEnabler, ModuleInv, ArmedInv, TxStep
  PROVE  ArmedInv'
  <1>1. DiskProofs!FlagInv'
    BY TxKeepsDisk, FlagStep DEF ModuleInv, ArmedInv
  <1>2. ASSUME NEW t \in TxThreads, Tx!ThreadStep(t) PROVE TxFlagInv'
    BY <1>2, ThreadKeepsFlag DEF ModuleInv, ArmedInv, TxRolesHold, TxFlagInv
  <1>3. ASSUME NEW q \in Pids, Tx!Sender(q) PROVE TxFlagInv'
    BY <1>3, SenderMoves DEF ModuleInv, ArmedInv, TxFlagInv, TxSwitchInv, TxArmInv, TxOffInv,
       TxCleanInv, TxSwitching, WillArm, HasDisarmed, Tx!At
  <1> QED BY <1>1, <1>2, <1>3, Kinds DEF TxStep, ArmedInv, TxFlagInv

-----------------------------------------------------------------------------
LEMMA StepModule == ModuleInv /\ [Next]_vars => ModuleInv'
  <1> SUFFICES ASSUME ModuleInv, [Next]_vars PROVE ModuleInv'
    OBVIOUS
  <1>1. CASE UNCHANGED vars
    <2>1. UNCHANGED DiskProofs!vars
      BY <1>1, MutexSeen DEF vars, diskOwn, DiskProofs!vars
    <2>2. DiskProofs!TableIInv'
      BY <2>1, TableStep DEF ModuleInv
    <2>3. TxTyped' /\ TxRoles' /\ TxMutexHeld'
      BY <1>1 DEF vars, txOwn, ModuleInv, TxTyped, TxRoles, TxMutexHeld, Tx!At
    <2>4. PhaseInv'
      BY <1>1 DEF vars, txOwn, diskOwn, ModuleInv, PhaseInv, Untouched
    <2> QED BY <2>2, <2>3, <2>4 DEF ModuleInv
  <1>2. CASE Next
    BY <1>2, ExitKeeps, LoadsKeepModule, DiskKeepsModule, TxKeepsModule
       DEF Next, Loads, CreateFiles
  <1> QED BY <1>1, <1>2

LEMMA StepArmed ==
  OneDiskEnabler /\ OneTxEnabler /\ ModuleInv /\ ArmedInv /\ [Next]_vars => ArmedInv'
  <1> SUFFICES ASSUME OneDiskEnabler, OneTxEnabler, ModuleInv, ArmedInv, [Next]_vars
               PROVE  ArmedInv'
    OBVIOUS
  <1>1. CASE UNCHANGED vars
    <2>1. UNCHANGED DiskProofs!vars
      BY <1>1, MutexSeen DEF vars, diskOwn, DiskProofs!vars
    <2>2. DiskProofs!FlagInv'
      BY <2>1, FlagStep DEF ModuleInv, ArmedInv
    <2> QED BY <1>1, <2>2
            DEF vars, txOwn, ArmedInv, TxSwitchInv, TxArmInv, TxOffInv, TxCleanInv, TxSwitching,
                WillArm, HasDisarmed, Tx!At
  <1>2. CASE Next
    BY <1>2, ExitKeeps, LoadsKeepArmed, DiskKeepsArmed, TxKeepsArmed DEF Next, Loads, CreateFiles
  <1> QED BY <1>1, <1>2

(* What the next theorems are read from.                                   *)
THEOREM ModuleInductive == Spec => []ModuleInv
  BY InitModule, StepModule, PTL DEF Spec

THEOREM ArmedInductive ==
  ASSUME OneDiskEnabler, OneTxEnabler
  PROVE  Spec => []ArmedInv
  <1>1. OneDiskEnabler /\ OneTxEnabler
    OBVIOUS
  <1> QED BY <1>1, InitModule, StepArmed, ModuleInductive, PTL DEF Spec

(* However many threads use the files of both events, and however their    *)
(* calls fall between the steps of trace_wperf_events_init: when nobody is *)
(* inside a file of an event whose enable says 1, its probes are armed,    *)
(* all five of those of tx_stat, unless a filter was refused.              *)
THEOREM EnabledIsArmed ==
  ASSUME OneDiskEnabler, OneTxEnabler
  PROVE  Spec => []EnabledMeansArmed
  <1>1. ASSUME ModuleInv, ArmedInv PROVE Disk!EnabledMeansArmed
    BY <1>1, Kinds
       DEF ArmedInv, DiskProofs!FlagInv, DiskProofs!OffInv, Disk!EnabledMeansArmed, Disk!Quiet,
           DiskProofs!Switching, DiskProofs!Ending, DiskProofs!At, Disk!At
  <1>2. ASSUME ModuleInv, ArmedInv PROVE Tx!EnabledMeansArmed
    <2>1. SUFFICES ASSUME Tx!Quiet, tx_enabled, ~txHalted PROVE txArmed = Probes
      BY Kinds DEF Tx!EnabledMeansArmed
    <2>2. \A t \in TxThreads : txCall[t].at = "idle"
      BY <2>1, Kinds DEF Tx!Quiet, Tx!At
    <2>3. \A m \in 1 .. Last : ProbeList[m] \in txArmed
      BY <1>2, <2>1, <2>2, Kinds DEF ArmedInv, TxArmInv, TxSwitching, WillArm, Tx!At
    <2> QED BY <1>2, <2>3, ProbesListed DEF ModuleInv, TxTyped
  <1>3. ModuleInv /\ ArmedInv => EnabledMeansArmed
    BY <1>1, <1>2 DEF EnabledMeansArmed
  <1> QED BY <1>3, ModuleInductive, ArmedInductive, PTL

-----------------------------------------------------------------------------
(* tx_stat before somebody writes 1 to its enable.                         *)

LEMMA InitUnasked == Init => AskedInv
  <1> SUFFICES ASSUME Init PROVE AskedInv
    OBVIOUS
  <1>1. /\ tx_enabled = FALSE /\ txArmed = {}
        /\ bytes = [p \in Pids |-> 0]
        /\ txCall = [t \in TxThreads |-> Tx!Idle]
        /\ send = [p \in Pids |-> Tx!NotSending]
    BY Kinds DEF Init, Tx!Init, Tx!Fresh
  <1> QED BY <1>1, Kinds DEF Tx!Idle, Tx!NotSending, AskedInv

LEMMA InitsUnasked == (Init => AskedInv)'
  BY InitUnasked, PTL

LEMMA ThreadKeepsAsked ==
  ASSUME ModuleInv, AskedInv, TxStep, NEW t \in TxThreads, Tx!ThreadStep(t)
  PROVE  AskedInv'
  <1>1. Moves(t)
    BY ThreadMoves DEF ModuleInv
  <1>2. SUFFICES ASSUME ~asked'
                 PROVE  /\ ~tx_enabled' /\ \A e \in TxEnablers : ~txCall'[e].on
                        /\ \A u \in TxThreads : txCall'[u].at # "arm"
                        /\ txArmed' = {} \/ phase' \in {"out", "jprobes", "kretprobes", "failed"}
                        /\ \A q \in Pids : bytes'[q] = 0 /\ ~send'[q].tested
    BY DEF AskedInv
  <1>3. ~asked /\ \A e \in TxEnablers : ~txCall'[e].on
    BY <1>2 DEF TxStep
  <1>4. /\ ~tx_enabled /\ (t \in TxEnablers => ~txCall[t].on) /\ Place(t) # "arm"
        /\ \A u \in TxThreads \ {t} : txCall'[u] = txCall[u] /\ txCall[u].at # "arm"
        /\ phase' = phase /\ bytes' = bytes /\ send' = send
    BY <1>1, <1>3 DEF AskedInv, Moves, Place, TxStep
  <1>5. ~tx_enabled' /\ Place(t)' # "arm" /\ txArmed' \subseteq txArmed
    BY <1>1, <1>4 DEF Moves, Enters, Stores, Switches, Zeroes, Disarms, Arms, Fills, Refuses, Tests
  <1> QED BY <1>3, <1>4, <1>5 DEF AskedInv, Place

LEMMA SenderKeepsAsked ==
  ASSUME ModuleInv, AskedInv, TxStep, NEW q \in Pids, Tx!Sender(q)
  PROVE  AskedInv'
  <1>1. SUFFICES ASSUME ~asked' PROVE AskedInv'
    BY DEF AskedInv
  <1>2. ~asked /\ phase' = phase /\ files' = files
    BY <1>1 DEF TxStep
  <1>3. /\ UNCHANGED <<tx_enabled, filter, txArmed, mutex, txCall, txHalted>>
        /\ \A p \in Pids : send'[p].tested => send[p].tested \/ (filter # {} /\ txArmed # {})
        /\ ~send[q].tested => bytes' = bytes
    BY SenderMoves DEF ModuleInv
  <1>4. filter = {} \/ txArmed = {}
    BY <1>2 DEF AskedInv, ModuleInv, PhaseInv, Untouched
  <1> QED BY <1>2, <1>3, <1>4 DEF AskedInv

LEMMA StepAsked == ModuleInv /\ AskedInv /\ [Next]_vars => AskedInv'
  <1> SUFFICES ASSUME ModuleInv, AskedInv, [Next]_vars PROVE AskedInv'
    OBVIOUS
  <1>1. CASE TxStep
    BY <1>1, ThreadKeepsAsked, SenderKeepsAsked, Kinds DEF TxStep
  <1>2. CASE DiskStep
    BY <1>2 DEF DiskStep, txOwn, AskedInv
  <1>3. CASE Loads
    <2>1. /\ UNCHANGED <<tx_enabled, bytes, txCall, send>> /\ asked' = asked
      BY <1>3, LoadsKeepModule
         DEF txOwn, Loads, RegisterJprobes, RegisterKretprobes, KretprobesFail, DisableProbes,
             CreateFile, InitStep
    <2>2. /\ \/ txArmed' = {}
             \/ phase' \in {"out", "jprobes", "kretprobes", "failed"}
             \/ txArmed' = txArmed /\ phase \notin {"out", "jprobes", "kretprobes", "failed"}
      BY <1>3 DEF Loads, RegisterJprobes, RegisterKretprobes, KretprobesFail, DisableProbes,
             CreateFile, InitStep
    <2> QED BY <2>1, <2>2 DEF AskedInv
  <1>4. CASE Exit
    <2>1. Init'
      BY <1>4 DEF Exit, Init, Disk!Init, Tx!Init
    <2> QED BY <2>1, InitsUnasked
  <1>5. CASE UNCHANGED vars
    BY <1>5 DEF vars, txOwn, AskedInv
  <1> QED BY <1>1, <1>2, <1>3, <1>4, <1>5 DEF Next, Loads, CreateFiles

(* Whatever is written to the filters and read from the outputs, and       *)
(* however it falls between the steps of init, tx_stat counts nothing      *)
(* before a 1 is written to its enable: on the first load and on every     *)
(* later one, for any number of threads at any of the files.               *)
THEOREM QuietBeforeEnable == Spec => []NothingBeforeEnable
  <1>1. AskedInv => NothingBeforeEnable
    BY DEF AskedInv, NothingBeforeEnable
  <1> QED BY <1>1, InitUnasked, StepAsked, ModuleInductive, PTL DEF Spec

(* With enable of tx_stat at 0 and nobody at its files no send passes the  *)
(* filter, though an output read that a write of 0 overtook may have armed *)
(* some probes after it.                                                   *)
THEOREM DisabledIsQuiet ==
  ASSUME OneDiskEnabler, OneTxEnabler
  PROVE  Spec => DisabledCountsNothing
  <1>1. ASSUME ModuleInv, ArmedInv, Next, Tx!Quiet, ~tx_enabled, NEW p \in Pids
        PROVE  ~send'[p].tested \/ send[p].tested
    <2>1. filter = {} \/ txArmed = {}
      BY <1>1, Kinds DEF ArmedInv, TxCleanInv, Tx!Quiet, Tx!At
    <2>2. CASE TxStep
      <3>1. ASSUME NEW t \in TxThreads, Tx!ThreadStep(t) PROVE send' = send
        BY <1>1, <3>1, ThreadMoves DEF ModuleInv, Moves
      <3>2. ASSUME NEW q \in Pids, Tx!Sender(q) PROVE ~send'[p].tested \/ send[p].tested
        BY <1>1, <2>1, <3>2, SenderMoves DEF ModuleInv
      <3> QED BY <2>2, <3>1, <3>2, Kinds DEF TxStep
    <2>3. CASE Exit
      BY <2>3 DEF Exit, Tx!Fresh, Tx!NotSending
    <2>4. CASE DiskStep \/ Loads
      <3>1. send' = send
        BY <1>1, <2>4, LoadsKeepModule DEF DiskStep, txOwn
      <3> QED BY <3>1
    <2> QED BY <1>1, <2>2, <2>3, <2>4 DEF Next, Loads, CreateFiles
  <1>2. ModuleInv /\ ArmedInv /\ [Next]_vars =>
          [Tx!Quiet /\ ~tx_enabled => \A p \in Pids : ~send'[p].tested \/ send[p].tested]_vars
    BY <1>1
  <1> QED BY <1>2, ModuleInductive, ArmedInductive, PTL DEF Spec, DisabledCountsNothing

=============================================================================
