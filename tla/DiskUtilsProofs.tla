--------------------------- MODULE DiskUtilsProofs ---------------------------
(***************************************************************************)
(* DiskUtils for any number of threads, CPUs, disks and lists.             *)
(***************************************************************************)
EXTENDS DiskUtils, SequenceTheorems, TLAPS

Calls == [at : {"idle", "store", "switch", "zero", "disarm", "next", "bump", "copy", "overrun",
                "test", "rearm"},
          on : BOOLEAN, i : 0 .. MaxDisk, rest : Seq(Names \cup {Bad})]
Hits == [at : {"idle", "entered", "found", "add"},
         disk : Names \cup {Unnamed}, i : 0 .. MaxDisk, time : SUBSET Names]

Rest(t) == call[t].rest
Writing(t) == call[t].at \in {"disarm", "next", "bump", "copy", "overrun"}

(* Where the threads of each file may be.                                  *)
Roles ==
  /\ \A t \in Enablers : call[t].at \in {"idle", "store", "switch", "zero"}
  /\ \A t \in Filterers : call[t].at \in {"idle", "disarm", "next", "bump", "copy", "overrun", "rearm"}
  /\ \A t \in Readers : call[t].at \in {"idle", "disarm", "test", "rearm"}

(* A filter write or an output read has event_mutex all the time.          *)
MutexHeld == \A t \in Holders : ~At(t, "idle") <=> mutex = t

(* What is left of a list is the end of what was written.                  *)
IsEnd(rest) ==
  /\ Len(rest) <= Len(written)
  /\ \A j \in 1 .. Len(rest) : rest[j] = written[Len(written) - Len(rest) + j]

(* The first k slots have the names just before what is left.              *)
NamesBefore(rest, k) ==
  /\ k + Len(rest) <= Len(written)
  /\ \A i \in 0 .. k - 1 : dnames[i] = written[Len(written) - Len(rest) - k + i + 1]

(* A write of the filter on its way.  That a write of 0 may have emptied   *)
(* the table between any two of its steps does not disturb the names.      *)
FilterInv ==
  \A t \in Filterers :
    /\ Writing(t) => IsEnd(Rest(t))
    /\ At(t, "disarm") => didx = 0
    /\ At(t, "next") => NamesBefore(Rest(t), didx)
    /\ At(t, "bump") \/ At(t, "copy") => /\ Rest(t) # <<>> /\ Head(Rest(t)) # Bad
                                         /\ NamesBefore(Rest(t), call[t].i)
                                         /\ call[t].i < MaxDisk
    /\ At(t, "bump") => didx \in {0, call[t].i}
    /\ At(t, "copy") => didx \in {0, call[t].i + 1}
    /\ At(t, "overrun") => Len(written) > MaxDisk

Window ==
  \E from \in 0 .. Len(written) - didx :
    \A i \in 0 .. didx - 1 : dnames[i] = written[from + i + 1]
TableInv == (\A t \in Filterers : ~Writing(t)) => Window

(* A handler at work is about a disk that has a name, and the slot it      *)
(* found is one of the table.                                              *)
HandlersInv ==
  \A c \in CPUs :
    /\ hit[c].at # "idle" => hit[c].disk \in Names
    /\ hit[c].at \in {"found", "add"} => hit[c].i \in Slots

TableIInv == TypeOK /\ Roles /\ MutexHeld /\ HandlersInv /\ FilterInv /\ TableInv

-----------------------------------------------------------------------------
LEMMA Sizes ==
  MaxDisk \in Nat /\ \A list \in Lists \cup {<<>>} : list \in Seq(Names \cup {Bad})
  BY ListsAssumption, EmptySeq

LEMMA Kinds ==
  /\ Threads = Enablers \cup Filterers \cup Readers /\ Holders = Filterers \cup Readers
  /\ Enablers \cap Filterers = {} /\ Enablers \cap Readers = {} /\ Filterers \cap Readers = {}
  /\ Nobody \notin Threads
  BY ThreadsAssumption DEF Threads, Holders

LEMMA InitTable == Init => TableIInv
  <1> SUFFICES ASSUME Init PROVE TableIInv
    OBVIOUS
  <1> USE Sizes, Kinds DEF Init, Fresh, Idle, NoHit
  <1>1. call \in [Threads -> Calls] /\ hit \in [CPUs -> Hits]
    BY DEF Calls, Hits
  <1>2. /\ dnames \in [Slots -> Names \cup {Unnamed}]
        /\ dutils \in [Slots -> SUBSET Names]
    OBVIOUS
  <1>3. didx \in 0 .. MaxDisk
    OBVIOUS
  <1>4. /\ denabled \in BOOLEAN /\ armed \in BOOLEAN /\ halted \in BOOLEAN /\ orderly \in BOOLEAN
        /\ mutex \in Holders \cup {Nobody} /\ written \in Lists \cup {<<>>}
    BY Zenon
  <1>5. TypeOK
    BY <1>1, <1>2, <1>3, <1>4, Zenon DEF TypeOK, Calls, Hits
  <1>6. Roles /\ MutexHeld /\ HandlersInv /\ FilterInv
    BY DEF Roles, MutexHeld, HandlersInv, FilterInv, Writing, At
  <1>7. TableInv
    BY DEF TableInv, Window
  <1> QED BY <1>5, <1>6, <1>7 DEF TableIInv

(* The index of the table stays within MaxDisk for a name that is copied.  *)
LEMMA RoomLeft ==
  ASSUME TableIInv, NEW t \in Filterers, At(t, "bump") \/ At(t, "copy")
  PROVE  /\ call[t].i + 1 \in 0 .. MaxDisk
         /\ call[t].i \in Slots
         /\ Head(Rest(t)) \in Names \cup {Bad}
         /\ Tail(Rest(t)) \in Seq(Names \cup {Bad})
  <1>1. call[t] \in Calls
    BY Kinds DEF TableIInv, TypeOK, Calls
  <1>2. Rest(t) # <<>> /\ call[t].i < MaxDisk
    BY DEF TableIInv, FilterInv
  <1>3. Head(Rest(t)) \in Names \cup {Bad} /\ Tail(Rest(t)) \in Seq(Names \cup {Bad})
    BY <1>1, <1>2, HeadTailProperties DEF Rest, Calls
  <1>4. call[t].i \in Nat
    BY <1>1 DEF Calls
  <1> QED BY <1>2, <1>3, <1>4, Sizes DEF Slots

-----------------------------------------------------------------------------
(* Types.                                                                  *)

Typed ==
  /\ denabled \in BOOLEAN /\ armed \in BOOLEAN /\ halted \in BOOLEAN /\ orderly \in BOOLEAN
  /\ didx \in 0 .. MaxDisk
  /\ dnames \in [Slots -> Names \cup {Unnamed}]
  /\ dutils \in [Slots -> SUBSET Names]
  /\ mutex \in Holders \cup {Nobody}
  /\ call \in [Threads -> Calls] /\ hit \in [CPUs -> Hits]
  /\ written \in Lists \cup {<<>>}

LEMMA TypedIs == (TypeOK <=> Typed) /\ (TypeOK' <=> Typed')
  BY Zenon DEF TypeOK, Typed, Calls, Hits

LEMMA IdleTyped == Idle \in Calls /\ NoHit \in Hits
  BY Sizes DEF Idle, NoHit, Calls, Hits

LEMMA SetSlot ==
  ASSUME NEW r \in Calls, NEW n \in 0 .. MaxDisk
  PROVE  /\ [r EXCEPT !.i = n] \in Calls
         /\ [r EXCEPT !.at = "zero", !.i = n] \in Calls
  BY DEF Calls

LEMMA EnableTypes ==
  ASSUME TableIInv, NEW t \in Enablers, EnableStep(t)
  PROVE  TypeOK'
  <1>1. TypeOK /\ t \in Threads /\ MaxDisk \in Nat
    BY Kinds, Sizes DEF TableIInv
  <1> USE <1>1, TypedIs, IdleTyped DEF Typed, history, At, Goto, Done
  <1>2. ASSUME NEW on \in BOOLEAN, EnableWrite(t, on) PROVE TypeOK'
    BY <1>2 DEF EnableWrite, Calls
  <1>3. CASE StoreEnable(t)
    BY <1>3 DEF StoreEnable, Calls
  <1>4. CASE SwitchOn(t)
    BY <1>4 DEF SwitchOn, Calls
  <1>5. CASE SwitchOff(t)
    <2>1. call' = [call EXCEPT ![t] = [call[t] EXCEPT !.at = "zero", !.i = 0]]
      BY <1>5 DEF SwitchOff
    <2>2. [call[t] EXCEPT !.at = "zero", !.i = 0] \in Calls
      <3>1. call[t] \in Calls /\ 0 \in 0 .. MaxDisk
        OBVIOUS
      <3> QED BY <3>1, SetSlot
    <2>3. call' \in [Threads -> Calls]
      BY <2>1, <2>2
    <2> QED BY <1>5, <2>3 DEF SwitchOff
  <1>6. CASE ZeroSlot(t)
    <2>1. call' = [call EXCEPT ![t] = [call[t] EXCEPT !.i = call[t].i + 1]]
      BY <1>6 DEF ZeroSlot
    <2>2. [call[t] EXCEPT !.i = call[t].i + 1] \in Calls
      <3>1. call[t] \in Calls /\ call[t].i < didx
        BY <1>6 DEF ZeroSlot
      <3>2. call[t].i + 1 \in 0 .. MaxDisk
        BY <3>1 DEF Calls
      <3> QED BY <3>1, <3>2, SetSlot
    <2>3. call' \in [Threads -> Calls]
      BY <2>1, <2>2
    <2>4. dutils' \in [Slots -> SUBSET Names]
      BY <1>6 DEF ZeroSlot
    <2> QED BY <1>6, <2>3, <2>4 DEF ZeroSlot
  <1>7. CASE ResetTable(t)
    BY <1>7 DEF ResetTable, Calls
  <1> QED BY <1>2, <1>3, <1>4, <1>5, <1>6, <1>7 DEF EnableStep

LEMMA FilterTypes ==
  ASSUME TableIInv, NEW t \in Filterers, FilterStep(t)
  PROVE  TypeOK'
  <1>1. TypeOK /\ t \in Threads /\ t \in Holders /\ MaxDisk \in Nat
    BY Kinds, Sizes DEF TableIInv
  <1> USE <1>1, TypedIs, IdleTyped DEF Typed, history, At, Goto, Done, Acquire, Release
  <1>2. ASSUME NEW list \in Lists, FilterWrite(t, list) PROVE TypeOK'
    <2>1. list \in Seq(Names \cup {Bad})
      BY Sizes
    <2>2. call' = [call EXCEPT ![t] = [call[t] EXCEPT !.at = "disarm", !.rest = list]]
      BY <1>2 DEF FilterWrite
    <2>3. [call[t] EXCEPT !.at = "disarm", !.rest = list] \in Calls
      BY <2>1 DEF Calls
    <2>4. call' \in [Threads -> Calls]
      BY <2>2, <2>3
    <2>5. orderly' \in BOOLEAN
      BY <1>2, Zenon DEF FilterWrite
    <2> QED BY <1>2, <2>4, <2>5 DEF FilterWrite
  <1>3. CASE FilterDisarm(t)
    BY <1>3 DEF FilterDisarm, Calls
  <1>4. CASE TakeSlot(t)
    <2>1. call' = [call EXCEPT ![t] = [call[t] EXCEPT !.at = "bump", !.i = didx]]
      BY <1>4 DEF TakeSlot
    <2>2. [call[t] EXCEPT !.at = "bump", !.i = didx] \in Calls
      BY DEF Calls
    <2>3. call' \in [Threads -> Calls]
      BY <2>1, <2>2
    <2> QED BY <1>4, <2>3 DEF TakeSlot
  <1>5. CASE BumpIndex(t)
    <2>1. call[t].i + 1 \in 0 .. MaxDisk
      BY <1>5, RoomLeft DEF BumpIndex
    <2> QED BY <1>5, <2>1 DEF BumpIndex, Calls
  <1>6. CASE CopyName(t)
    <2>1. /\ Head(call[t].rest) \in Names /\ Tail(call[t].rest) \in Seq(Names \cup {Bad})
      BY <1>6, RoomLeft DEF CopyName, Rest, TableIInv, FilterInv
    <2>2. call' = [call EXCEPT ![t] = [call[t] EXCEPT !.at = "next", !.rest = Tail(call[t].rest)]]
      BY <1>6 DEF CopyName
    <2>3. [call[t] EXCEPT !.at = "next", !.rest = Tail(call[t].rest)] \in Calls
      BY <2>1 DEF Calls
    <2>4. call' \in [Threads -> Calls]
      BY <2>2, <2>3
    <2>5. dnames' \in [Slots -> Names \cup {Unnamed}]
      BY <1>6, <2>1 DEF CopyName
    <2> QED BY <1>6, <2>4, <2>5 DEF CopyName
  <1>7. CASE FilterFails(t)
    BY <1>7 DEF FilterFails
  <1>8. CASE Overrun(t)
    BY <1>8 DEF Overrun, Calls
  <1> QED BY <1>2, <1>3, <1>4, <1>5, <1>6, <1>7, <1>8 DEF FilterStep

LEMMA HolderTypes ==
  ASSUME TableIInv, NEW t \in Holders,
         OutputRead(t) \/ OutputDisarm(t) \/ TestEnabled(t) \/ Rearm(t)
  PROVE  TypeOK'
  <1>1. TypeOK /\ t \in Threads
    BY Kinds, Sizes DEF TableIInv
  <1> USE <1>1, TypedIs, IdleTyped DEF Typed, history, At, Goto, Done, Acquire, Release
  <1>2. CASE OutputRead(t)
    BY <1>2 DEF OutputRead, Calls
  <1>3. CASE OutputDisarm(t)
    BY <1>3 DEF OutputDisarm, Calls
  <1>4. CASE TestEnabled(t)
    <2>1. CASE denabled
      <3>1. call' = [call EXCEPT ![t].at = "rearm"]
        BY <1>4, <2>1 DEF TestEnabled
      <3>2. call' \in [Threads -> Calls]
        BY <3>1 DEF Calls
      <3> QED BY <1>4, <2>1, <3>2 DEF TestEnabled
    <2>2. CASE ~denabled
      BY <1>4, <2>2 DEF TestEnabled
    <2> QED BY <2>1, <2>2
  <1>5. CASE Rearm(t)
    BY <1>5 DEF Rearm, Calls
  <1> QED BY <1>2, <1>3, <1>4, <1>5

LEMMA HandlerTypes ==
  ASSUME TableIInv, NEW c \in CPUs, Handler(c)
  PROVE  TypeOK'
  <1>1. TypeOK /\ MaxDisk \in Nat
    BY Sizes DEF TableIInv
  <1>2. hit[c].at \in {"found", "add"} => hit[c].i \in Slots /\ hit[c].disk \in Names
    BY DEF TableIInv, HandlersInv
  <1> USE <1>1, TypedIs, IdleTyped DEF Typed, history
  <1>3. ASSUME NEW disk \in Names, Hit(c, disk) PROVE TypeOK'
    <2>1. hit' = [hit EXCEPT ![c] = [hit[c] EXCEPT !.at = "entered", !.disk = disk]]
      BY <1>3 DEF Hit
    <2>2. [hit[c] EXCEPT !.at = "entered", !.disk = disk] \in Hits
      BY DEF Hits
    <2>3. hit' \in [CPUs -> Hits]
      BY <2>1, <2>2
    <2> QED BY <1>3, <2>3 DEF Hit
  <1>4. CASE LookUp(c)
    <2>1. CASE hit' = [hit EXCEPT ![c] = NoHit]
      BY <1>4, <2>1 DEF LookUp
    <2>2. CASE \E i \in Indexes(hit[c].disk) : hit' = [hit EXCEPT ![c].at = "found", ![c].i = i]
      <3>1. PICK i \in Indexes(hit[c].disk) : hit' = [hit EXCEPT ![c].at = "found", ![c].i = i]
        BY <2>2
      <3>2. i \in 0 .. MaxDisk
        BY <3>1 DEF Indexes
      <3>3. hit' = [hit EXCEPT ![c] = [hit[c] EXCEPT !.at = "found", !.i = i]]
        BY <3>1
      <3>4. [hit[c] EXCEPT !.at = "found", !.i = i] \in Hits
        BY <3>2 DEF Hits
      <3>5. hit' \in [CPUs -> Hits]
        BY <3>3, <3>4
      <3> QED BY <1>4, <3>5 DEF LookUp
    <2> QED BY <1>4, <2>1, <2>2 DEF LookUp
  <1>5. CASE ReadTime(c)
    <2>1. CASE hit' = [hit EXCEPT ![c] = NoHit]
      BY <1>5, <2>1 DEF ReadTime
    <2>2. CASE hit' = [hit EXCEPT ![c].at = "add", ![c].time = dutils[hit[c].i]]
      <3>1. hit' = [hit EXCEPT ![c] = [hit[c] EXCEPT !.at = "add", !.time = dutils[hit[c].i]]]
        BY <2>2
      <3>2. dutils[hit[c].i] \in SUBSET Names
        BY <1>2, <1>5 DEF ReadTime
      <3>3. [hit[c] EXCEPT !.at = "add", !.time = dutils[hit[c].i]] \in Hits
        BY <3>2 DEF Hits
      <3>4. hit' \in [CPUs -> Hits]
        BY <3>1, <3>3
      <3> QED BY <1>5, <3>4 DEF ReadTime
    <2> QED BY <1>5, <2>1, <2>2 DEF ReadTime
  <1>6. CASE AddTime(c)
    <2>1. hit[c].time \cup {hit[c].disk} \in SUBSET Names
      BY <1>2, <1>6 DEF AddTime, Hits
    <2>2. dutils' \in [Slots -> SUBSET Names]
      BY <1>6, <2>1 DEF AddTime
    <2> QED BY <1>6, <2>2 DEF AddTime
  <1> QED BY <1>3, <1>4, <1>5, <1>6 DEF Handler

-----------------------------------------------------------------------------
(* Places, and who has event_mutex.                                        *)

LEMMA Alone ==
  ASSUME MutexHeld, NEW t \in Holders, NEW u \in Holders, u # t,
         mutex = Nobody \/ ~At(t, "idle")
  PROVE  At(u, "idle")
  BY Kinds DEF MutexHeld

LEMMA EnablePlaces ==
  ASSUME TableIInv, NEW t \in Enablers, EnableStep(t)
  PROVE  /\ Roles' /\ MutexHeld' /\ HandlersInv'
         /\ \A u \in Holders : call'[u] = call[u]
  <1>1. Roles /\ MutexHeld /\ HandlersInv /\ call \in [Threads -> Calls]
    BY TypedIs DEF TableIInv, Typed
  <1>2. /\ \A u \in Threads \ {t} : call'[u] = call[u]
        /\ call'[t].at \in {"idle", "store", "switch", "zero"}
    <2> USE <1>1, Kinds DEF At, Goto, Done, Idle, Calls
    <2>1. ASSUME NEW on \in BOOLEAN, EnableWrite(t, on) PROVE <1>2!1 /\ <1>2!2
      BY <2>1 DEF EnableWrite
    <2>2. CASE StoreEnable(t)
      BY <2>2 DEF StoreEnable
    <2>3. CASE SwitchOn(t)
      BY <2>3 DEF SwitchOn
    <2>4. CASE SwitchOff(t)
      BY <2>4 DEF SwitchOff
    <2>5. CASE ZeroSlot(t)
      BY <2>5 DEF ZeroSlot
    <2>6. CASE ResetTable(t)
      BY <2>6 DEF ResetTable
    <2> QED BY <2>1, <2>2, <2>3, <2>4, <2>5, <2>6 DEF EnableStep
  <1>3. mutex' = mutex /\ hit' = hit
    BY DEF EnableStep, EnableWrite, StoreEnable, SwitchOn, SwitchOff, ZeroSlot, ResetTable
  <1>4. Roles'
    BY <1>1, <1>2, Kinds DEF Roles
  <1>5. MutexHeld'
    BY <1>1, <1>2, <1>3, Kinds DEF MutexHeld, At
  <1>6. HandlersInv'
    BY <1>1, <1>3 DEF HandlersInv
  <1> QED BY <1>2, <1>4, <1>5, <1>6, Kinds

HolderStep(t) ==
  \/ t \in Filterers /\ FilterStep(t)
  \/ t \in Readers /\ ReadStep(t)
  \/ TestEnabled(t) \/ Rearm(t)

(* What a holder does to its own place and to the mutex.                   *)
LEMMA HolderMoves ==
  ASSUME TableIInv, NEW t \in Holders, HolderStep(t)
  PROVE  /\ \A u \in Threads \ {t} : call'[u] = call[u]
         /\ mutex = Nobody \/ ~At(t, "idle")
         /\ t \in Filterers => call'[t].at \in {"idle", "disarm", "next", "bump", "copy", "overrun", "rearm"}
         /\ t \in Readers => call'[t].at \in {"idle", "disarm", "test", "rearm"}
         /\ IF call'[t].at = "idle" THEN mutex' = Nobody ELSE mutex' = t
         /\ hit' = hit /\ denabled' = denabled
  <1>1. Roles /\ MutexHeld /\ call \in [Threads -> Calls] /\ t \in Threads
    BY TypedIs, Kinds DEF TableIInv, Typed
  <1>2. t \in Filterers => t \notin Readers
    BY Kinds
  <1>3. ~At(t, "idle") => mutex = t
    BY <1>1 DEF MutexHeld
  <1> USE <1>1, <1>2, <1>3, Kinds DEF At, Goto, Done, Acquire, Release, Idle, Calls
  <1>4. CASE t \in Filterers /\ FilterStep(t)
    BY <1>4 DEF FilterStep, FilterWrite, FilterDisarm, TakeSlot, BumpIndex, CopyName, Overrun,
       FilterFails
  <1>5. CASE t \in Readers /\ ReadStep(t)
    BY <1>5 DEF ReadStep, OutputRead, OutputDisarm
  <1>6. CASE TestEnabled(t)
    BY <1>6 DEF TestEnabled, Ended
  <1>7. CASE Rearm(t)
    BY <1>7 DEF Rearm
  <1> QED BY <1>4, <1>5, <1>6, <1>7 DEF HolderStep

LEMMA HolderPlaces ==
  ASSUME TableIInv, NEW t \in Holders, HolderStep(t)
  PROVE  Roles' /\ MutexHeld' /\ HandlersInv'
  <1>1. Roles /\ MutexHeld /\ HandlersInv
    BY DEF TableIInv
  <1>2. Roles'
    BY <1>1, HolderMoves, Kinds DEF Roles
  <1>3. MutexHeld'
    <2>1. ASSUME NEW u \in Holders PROVE (call'[u].at # "idle") <=> (mutex' = u)
      <3>1. CASE u = t
        BY <3>1, HolderMoves, Kinds
      <3>2. CASE u # t
        <4>1. call'[u].at = "idle"
          BY <1>1, <3>2, HolderMoves, Alone, Kinds DEF At
        <4> QED BY <3>2, <4>1, HolderMoves, Kinds
      <3> QED BY <3>1, <3>2
    <2> QED BY <2>1 DEF MutexHeld, At
  <1>4. HandlersInv'
    BY <1>1, HolderMoves DEF HandlersInv
  <1> QED BY <1>2, <1>3, <1>4

LEMMA HandlerPlaces ==
  ASSUME TableIInv, NEW c \in CPUs, Handler(c)
  PROVE  Roles' /\ MutexHeld' /\ HandlersInv'
  <1>1. /\ Roles /\ MutexHeld /\ HandlersInv /\ hit \in [CPUs -> Hits]
        /\ didx \in 0 .. MaxDisk /\ MaxDisk \in Nat
    BY TypedIs, Sizes DEF TableIInv, Typed
  <1>2. call' = call /\ mutex' = mutex
    BY DEF Handler, Hit, LookUp, ReadTime, AddTime
  <1>3. Roles' /\ MutexHeld'
    BY <1>1, <1>2 DEF Roles, MutexHeld, At
  <1>4. \A d \in CPUs \ {c} : hit'[d] = hit[d]
    BY <1>1 DEF Handler, Hit, LookUp, ReadTime, AddTime
  <1>5. /\ hit'[c].at # "idle" => hit'[c].disk \in Names
        /\ hit'[c].at \in {"found", "add"} => hit'[c].i \in Slots
    <2> USE <1>1 DEF HandlersInv, Hits, NoHit
    <2>1. ASSUME NEW disk \in Names, Hit(c, disk)
          PROVE  <1>5!1 /\ <1>5!2
      BY <2>1 DEF Hit
    <2>2. CASE LookUp(c)
      <3>1. CASE hit' = [hit EXCEPT ![c] = NoHit]
        BY <3>1
      <3>2. ASSUME NEW i \in Indexes(hit[c].disk),
                   hit' = [hit EXCEPT ![c].at = "found", ![c].i = i]
            PROVE  <1>5!1 /\ <1>5!2
        <4>1. i \in Slots
          BY DEF Indexes, Slots
        <4> QED BY <2>2, <3>2, <4>1 DEF LookUp
      <3> QED BY <2>2, <3>1, <3>2 DEF LookUp
    <2>3. CASE ReadTime(c)
      BY <2>3 DEF ReadTime
    <2>4. CASE AddTime(c)
      BY <2>4 DEF AddTime
    <2> QED BY <2>1, <2>2, <2>3, <2>4 DEF Handler
  <1>6. HandlersInv'
    BY <1>1, <1>4, <1>5 DEF HandlersInv
  <1> QED BY <1>3, <1>6

-----------------------------------------------------------------------------
(* The table.                                                              *)

LEMMA TableTypes ==
  ASSUME TableIInv
  PROVE  /\ written \in Seq(Names \cup {Bad}) /\ Len(written) \in Nat /\ didx \in Nat
         /\ \A t \in Threads : /\ Rest(t) \in Seq(Names \cup {Bad}) /\ Len(Rest(t)) \in Nat
                              /\ call[t].i \in Nat
  <1>1. written \in Seq(Names \cup {Bad})
    BY Sizes, TypedIs DEF TableIInv, Typed
  <1>2. didx \in Nat /\ call \in [Threads -> Calls]
    BY Sizes, TypedIs DEF TableIInv, Typed
  <1>3. ASSUME NEW t \in Threads
        PROVE  Rest(t) \in Seq(Names \cup {Bad}) /\ call[t].i \in Nat
    BY <1>2 DEF Rest, Calls
  <1> QED BY <1>1, <1>2, <1>3, LenProperties

(* Steps that write nothing of the table or the filter's writers.          *)
LEMMA TableFrame ==
  ASSUME TableIInv, didx' = didx, dnames' = dnames, written' = written,
         \A u \in Filterers : call'[u] = call[u]
  PROVE  FilterInv' /\ TableInv'
  <1>1. FilterInv'
    <2>1. SUFFICES ASSUME NEW u \in Filterers
                   PROVE  /\ Writing(u)' => IsEnd(Rest(u))'
                          /\ At(u, "disarm")' => didx' = 0
                          /\ At(u, "next")' => NamesBefore(Rest(u), didx)'
                          /\ (At(u, "bump") \/ At(u, "copy"))' =>
                               (Rest(u) # <<>> /\ Head(Rest(u)) # Bad /\ call[u].i < MaxDisk
                                  /\ NamesBefore(Rest(u), call[u].i))'
                          /\ At(u, "bump")' => didx' \in {0, call'[u].i}
                          /\ At(u, "copy")' => didx' \in {0, call'[u].i + 1}
                          /\ At(u, "overrun")' => Len(written') > MaxDisk
      BY DEF FilterInv
    <2>2. call'[u] = call[u]
      OBVIOUS
    <2> QED BY <2>2 DEF TableIInv, FilterInv, Writing, Rest, IsEnd, NamesBefore, At
  <1>2. TableInv'
    BY DEF TableIInv, TableInv, Writing, Window
  <1> QED BY <1>1, <1>2

(* The write of 0 to enable empties the table at any time.                 *)
LEMMA ResetKeepsTable ==
  ASSUME TableIInv, NEW t \in Enablers, ResetTable(t),
         \A u \in Holders : call'[u] = call[u]
  PROVE  FilterInv' /\ TableInv'
  <1>1. didx' = 0 /\ dnames' = dnames /\ written' = written
    BY DEF ResetTable, history
  <1>2. FilterInv'
    <2>1. ASSUME NEW u \in Filterers
          PROVE  /\ Writing(u) => IsEnd(Rest(u))
                 /\ At(u, "next") => NamesBefore(Rest(u), 0)
                 /\ At(u, "bump") \/ At(u, "copy") =>
                      /\ Rest(u) # <<>> /\ Head(Rest(u)) # Bad /\ call[u].i < MaxDisk
                      /\ NamesBefore(Rest(u), call[u].i)
                 /\ At(u, "overrun") => Len(written) > MaxDisk
      BY TableTypes, Kinds DEF TableIInv, FilterInv, Writing, IsEnd, NamesBefore, At
    <2>2. SUFFICES ASSUME NEW u \in Filterers
                   PROVE  /\ Writing(u)' => IsEnd(Rest(u))'
                          /\ At(u, "next")' => NamesBefore(Rest(u), 0)'
                          /\ (At(u, "bump") \/ At(u, "copy"))' =>
                               (Rest(u) # <<>> /\ Head(Rest(u)) # Bad /\ call[u].i < MaxDisk
                                  /\ NamesBefore(Rest(u), call[u].i))'
                          /\ At(u, "overrun")' => Len(written)' > MaxDisk
      BY <1>1 DEF FilterInv
    <2>3. call'[u] = call[u]
      BY Kinds
    <2> QED BY <1>1, <2>1, <2>3 DEF Writing, Rest, IsEnd, NamesBefore, At
  <1>3. TableInv'
    BY <1>1, TableTypes DEF TableInv, Window
  <1> QED BY <1>2, <1>3

(* Another filter write waits for the mutex, and so for the end of this.   *)
LEMMA OneWriter ==
  ASSUME TableIInv, NEW t \in Filterers, HolderStep(t)
  PROVE  \A u \in Filterers \ {t} : At(u, "idle") /\ call'[u] = call[u]
  BY HolderMoves, Alone, Kinds DEF TableIInv

LEMMA NamesAreWindow ==
  ASSUME TableIInv, NEW t \in Filterers, NamesBefore(Rest(t), didx)
  PROVE  Window
  <1>1. Len(written) \in Nat /\ didx \in Nat /\ Len(Rest(t)) \in Nat
    BY TableTypes, Kinds
  <1> DEFINE from == Len(written) - Len(Rest(t)) - didx
  <1>2. from \in 0 .. Len(written) - didx
    BY <1>1 DEF NamesBefore
  <1>3. \A i \in 0 .. didx - 1 : dnames[i] = written[from + i + 1]
    BY DEF NamesBefore
  <1> QED BY <1>2, <1>3 DEF Window

LEMMA FilterKeepsTable ==
  ASSUME TableIInv, NEW t \in Filterers, HolderStep(t), FilterStep(t)
  PROVE  FilterInv' /\ TableInv'
  <1>1. /\ call \in [Threads -> Calls] /\ t \in Threads
        /\ dnames \in [Slots -> Names \cup {Unnamed}]
    BY TypedIs, Kinds DEF TableIInv, Typed
  <1>2. \A u \in Filterers \ {t} : ~Writing(u) /\ call'[u] = call[u] /\ call'[u].at = "idle"
    BY OneWriter DEF At, Writing
  <1>3. SUFFICES
          /\ Writing(t)' => IsEnd(Rest(t))'
          /\ At(t, "disarm")' => didx' = 0
          /\ At(t, "next")' => NamesBefore(Rest(t), didx)'
          /\ (At(t, "bump") \/ At(t, "copy"))' =>
               (Rest(t) # <<>> /\ Head(Rest(t)) # Bad /\ call[t].i < MaxDisk
                  /\ NamesBefore(Rest(t), call[t].i))'
          /\ At(t, "bump")' => didx' \in {0, call'[t].i}
          /\ At(t, "copy")' => didx' \in {0, call'[t].i + 1}
          /\ At(t, "overrun")' => Len(written)' > MaxDisk
          /\ ~Writing(t)' => Window'
    BY <1>2 DEF FilterInv, TableInv, Writing, At
  <1>4. ASSUME NEW list \in Lists, FilterWrite(t, list)
        PROVE  <1>3!1
    <2>1. /\ call'[t].at = "disarm" /\ Rest(t)' = list /\ didx' = 0 /\ written' = list
      BY <1>1, <1>4 DEF FilterWrite, Calls, Rest
    <2>2. Len(list) \in Nat
      BY Sizes, LenProperties
    <2> QED BY <2>1, <2>2 DEF Writing, IsEnd, At
  <1>5. CASE FilterDisarm(t)
    <2>1. /\ call'[t].at = "next" /\ Rest(t)' = Rest(t) /\ didx' = didx /\ written' = written
          /\ dnames' = dnames
      BY <1>1, <1>5 DEF FilterDisarm, Goto, history, Calls, Rest
    <2>2. didx = 0 /\ IsEnd(Rest(t))
      BY <1>5 DEF FilterDisarm, TableIInv, FilterInv, Writing, At
    <2> QED BY <2>1, <2>2, TableTypes, <1>1 DEF Writing, IsEnd, NamesBefore, At
  <1>6. CASE TakeSlot(t)
    <2>1. /\ call'[t].at = "bump" /\ Rest(t)' = Rest(t) /\ didx' = didx /\ written' = written
          /\ dnames' = dnames /\ call'[t].i = didx /\ Rest(t) # <<>> /\ Head(Rest(t)) # Bad
          /\ didx < MaxDisk
      BY <1>1, <1>6 DEF TakeSlot, history, Calls, Rest
    <2>2. NamesBefore(Rest(t), didx) /\ IsEnd(Rest(t))
      BY <1>6 DEF TakeSlot, TableIInv, FilterInv, Writing, At
    <2> QED BY <2>1, <2>2 DEF Writing, IsEnd, NamesBefore, At
  <1>7. CASE BumpIndex(t)
    <2>1. /\ call'[t].at = "copy" /\ Rest(t)' = Rest(t) /\ didx' = call[t].i + 1
          /\ written' = written /\ dnames' = dnames /\ call'[t].i = call[t].i
      BY <1>1, <1>7 DEF BumpIndex, Goto, history, Calls, Rest
    <2>2. /\ Rest(t) # <<>> /\ Head(Rest(t)) # Bad /\ NamesBefore(Rest(t), call[t].i)
          /\ IsEnd(Rest(t)) /\ call[t].i < MaxDisk
      BY <1>7 DEF BumpIndex, TableIInv, FilterInv, Writing, At
    <2> QED BY <2>1, <2>2 DEF Writing, IsEnd, NamesBefore, At
  <1>8. CASE CopyName(t)
    <2> DEFINE k == call[t].i
               n == Len(Rest(t))
    <2>1. /\ call'[t].at = "next" /\ Rest(t)' = Tail(Rest(t)) /\ didx' = didx
          /\ written' = written /\ dnames' = [dnames EXCEPT ![k] = Head(Rest(t))]
      BY <1>1, <1>8 DEF CopyName, history, Calls, Rest
    <2>2. /\ Rest(t) # <<>> /\ NamesBefore(Rest(t), k) /\ IsEnd(Rest(t))
          /\ didx \in {0, k + 1} /\ k \in Slots
      BY <1>8, RoomLeft DEF CopyName, TableIInv, FilterInv, Writing, At
    <2>3. /\ Rest(t) \in Seq(Names \cup {Bad}) /\ n \in Nat /\ n # 0 /\ k \in Nat
          /\ Len(written) \in Nat
      BY <2>2, TableTypes, <1>1, EmptySeq
    <2>4. /\ Len(Tail(Rest(t))) = n - 1 /\ Head(Rest(t)) = Rest(t)[1]
          /\ \A j \in 1 .. n - 1 : Tail(Rest(t))[j] = Rest(t)[j + 1]
      BY <2>2, <2>3, HeadTailProperties
    <2>5. IsEnd(Tail(Rest(t)))
      BY <2>2, <2>3, <2>4 DEF IsEnd
    <2>6. \A i \in 0 .. k : dnames'[i] = written[Len(written) - n - k + i + 1]
      <3>1. ASSUME NEW i \in 0 .. k - 1
            PROVE  dnames'[i] = written[Len(written) - n - k + i + 1]
        BY <1>1, <2>1, <2>2, <2>3 DEF NamesBefore, Slots
      <3>2. dnames'[k] = written[Len(written) - n - k + k + 1]
        BY <1>1, <2>1, <2>2, <2>3, <2>4 DEF IsEnd
      <3> QED BY <2>3, <3>1, <3>2
    <2>7. /\ didx + Len(Tail(Rest(t))) <= Len(written)
          /\ \A i \in 0 .. didx - 1 :
               dnames'[i] = written[Len(written) - Len(Tail(Rest(t))) - didx + i + 1]
      <3>1. CASE didx = 0
        BY <2>3, <2>4, <2>5, <3>1 DEF IsEnd
      <3>2. CASE didx = k + 1
        <4>1. n - 1 \in Nat /\ k + n <= Len(written)
          BY <2>2, <2>3 DEF NamesBefore
        <4>2. ASSUME NEW i \in 0 .. didx - 1
              PROVE  /\ i \in 0 .. k
                     /\ Len(written) - (n - 1) - didx + i + 1 = Len(written) - n - k + i + 1
          BY <2>3, <3>2
        <4> QED BY <2>3, <2>4, <2>6, <3>2, <4>1, <4>2
      <3> QED BY <2>2, <3>1, <3>2
    <2> QED BY <2>1, <2>5, <2>7 DEF Writing, IsEnd, NamesBefore, At
  <1>9. CASE FilterFails(t)
    <2>1. /\ call'[t].at = "idle" /\ didx' = didx /\ written' = written /\ dnames' = dnames
      BY <1>1, <1>9 DEF FilterFails, Release, Done, Idle, Calls
    <2>2. NamesBefore(Rest(t), didx)
      BY <1>9 DEF FilterFails, TableIInv, FilterInv, At
    <2>3. Window
      BY <2>2, NamesAreWindow
    <2> QED BY <2>1, <2>3 DEF Writing, Window, At
  <1>10. CASE Overrun(t)
    <2>1. /\ call'[t].at = "overrun" /\ Rest(t)' = Rest(t) /\ didx' = didx /\ written' = written
          /\ Rest(t) # <<>> /\ didx >= MaxDisk
      BY <1>1, <1>10 DEF Overrun, Goto, history, Calls, Rest
    <2>2. NamesBefore(Rest(t), didx) /\ IsEnd(Rest(t))
      BY <1>10 DEF Overrun, TableIInv, FilterInv, Writing, At
    <2>3. Len(written) > MaxDisk
      <3>1. /\ Len(Rest(t)) \in Nat /\ Len(Rest(t)) # 0 /\ Len(written) \in Nat
            /\ didx \in Nat /\ MaxDisk \in Nat
        BY <1>1, <2>1, TableTypes, EmptySeq, Sizes
      <3> QED BY <2>1, <2>2, <3>1 DEF NamesBefore
    <2> QED BY <2>1, <2>2, <2>3 DEF Writing, IsEnd, At
  <1> QED BY <1>4, <1>5, <1>6, <1>7, <1>8, <1>9, <1>10 DEF FilterStep

LEMMA EndKeepsTable ==
  ASSUME TableIInv, NEW t \in Holders, HolderStep(t),
         (t \in Readers /\ ReadStep(t)) \/ TestEnabled(t) \/ Rearm(t)
  PROVE  FilterInv' /\ TableInv'
  <1>1. /\ call \in [Threads -> Calls] /\ t \in Threads /\ Roles
        /\ \A u \in Threads \ {t} : call'[u] = call[u]
    BY TypedIs, HolderMoves, Kinds DEF TableIInv, Typed
  <1>2. didx' = didx /\ dnames' = dnames /\ written' = written
    BY DEF ReadStep, OutputRead, OutputDisarm, TestEnabled, Rearm, history
  <1>3. CASE t \notin Filterers
    BY <1>1, <1>2, <1>3, TableFrame, Kinds
  <1>4. CASE t \in Filterers
    <2>1. t \notin Readers
      BY <1>4, Kinds
    <2>2. ~Writing(t)' /\ (At(t, "next") \/ At(t, "rearm"))
      <3>1. CASE TestEnabled(t)
        BY <1>1, <1>4, <3>1 DEF TestEnabled, Ended, Writing, Release, Done, Goto, Idle, Calls,
           Roles, At
      <3>2. CASE Rearm(t)
        BY <1>1, <3>2 DEF Rearm, Writing, Release, Done, Idle, Calls, At
      <3> QED BY <2>1, <3>1, <3>2
    <2>3. \A u \in Filterers \ {t} : ~Writing(u) /\ ~Writing(u)'
      BY <1>4, OneWriter DEF At, Writing
    <2>4. Window
      <3>1. CASE At(t, "next")
        BY <1>4, <3>1, NamesAreWindow DEF TableIInv, FilterInv
      <3>2. CASE At(t, "rearm")
        BY <2>3, <3>2 DEF TableIInv, TableInv, Writing, At
      <3> QED BY <2>2, <3>1, <3>2
    <2>5. TableInv'
      BY <1>2, <2>4 DEF TableInv, Window
    <2>6. FilterInv'
      BY <2>2, <2>3 DEF FilterInv, Writing, At
    <2> QED BY <2>5, <2>6
  <1> QED BY <1>3, <1>4

-----------------------------------------------------------------------------
LEMMA StepTable == TableIInv /\ [Next]_vars => TableIInv'
  <1> SUFFICES ASSUME TableIInv, [Next]_vars PROVE TableIInv'
    OBVIOUS
  <1>1. ASSUME NEW t \in Enablers, EnableStep(t) PROVE TableIInv'
    <2>1. /\ TypeOK' /\ Roles' /\ MutexHeld' /\ HandlersInv'
          /\ \A u \in Holders : call'[u] = call[u]
      BY <1>1, EnableTypes, EnablePlaces
    <2>2. FilterInv' /\ TableInv'
      <3>1. CASE ResetTable(t)
        BY <2>1, <3>1, ResetKeepsTable
      <3>2. CASE ~ResetTable(t)
        <4>1. didx' = didx /\ dnames' = dnames /\ written' = written
          BY <1>1, <3>2 DEF EnableStep, EnableWrite, StoreEnable, SwitchOn, SwitchOff, ZeroSlot,
             history
        <4> QED BY <2>1, <4>1, TableFrame, Kinds
      <3> QED BY <3>1, <3>2
    <2> QED BY <2>1, <2>2 DEF TableIInv
  <1>2. ASSUME NEW t \in Holders, HolderStep(t) PROVE TableIInv'
    <2>1. TypeOK'
      BY <1>2, FilterTypes, HolderTypes DEF HolderStep, ReadStep
    <2>2. Roles' /\ MutexHeld' /\ HandlersInv'
      BY <1>2, HolderPlaces
    <2>3. FilterInv' /\ TableInv'
      BY <1>2, FilterKeepsTable, EndKeepsTable DEF HolderStep
    <2> QED BY <2>1, <2>2, <2>3 DEF TableIInv
  <1>3. ASSUME NEW c \in CPUs, Handler(c) PROVE TableIInv'
    <2>1. TypeOK' /\ Roles' /\ MutexHeld' /\ HandlersInv'
      BY <1>3, HandlerTypes, HandlerPlaces
    <2>2. didx' = didx /\ dnames' = dnames /\ written' = written /\ call' = call
      BY <1>3 DEF Handler, Hit, LookUp, ReadTime, AddTime, history
    <2> QED BY <2>1, <2>2, TableFrame DEF TableIInv
  <1>4. CASE UNCHANGED vars
    <2>1. TypeOK'
      BY <1>4, TypedIs DEF TableIInv, Typed, vars
    <2>2. Roles' /\ MutexHeld' /\ HandlersInv'
      BY <1>4 DEF TableIInv, Roles, MutexHeld, HandlersInv, At, vars
    <2> QED BY <1>4, <2>1, <2>2, TableFrame DEF TableIInv, vars
  <1>5. CASE Next
    BY <1>1, <1>2, <1>3, <1>5, Kinds DEF Next, ThreadStep, HolderStep
  <1> QED BY <1>4, <1>5

(* The invariant that the next two theorems are read from.                 *)
THEOREM TableInductive == Spec => []TableIInv
  BY InitTable, StepTable, PTL DEF Spec

(* Every variable keeps its type: above all the index of the table is at   *)
(* most MAX_DISK_NUM, up to a name for which there is no slot.             *)
THEOREM TypeCorrect == Spec => []TypeOK
  <1>1. TableIInv => TypeOK
    BY DEF TableIInv
  <1> QED BY <1>1, TableInductive, PTL

(* The table is from one write of the filter.                              *)
THEOREM OneWriteOnly == Spec => []TableFromOneWrite
  <1>1. TableIInv => TableFromOneWrite
    BY Kinds DEF TableIInv, TableInv, Window, TableFromOneWrite, Quiet, Writing, At
  <1> QED BY <1>1, TableInductive, PTL

(* A name that finds no slot is in a list that is longer than the table,   *)
(* for any lists, and any number of threads that write and empty it.       *)
THEOREM OverrunOnlyByOneList == Spec => []OverrunByOneList
  <1>1. TableIInv => OverrunByOneList
    BY Kinds DEF TableIInv, Roles, FilterInv, OverrunByOneList, At
  <1> QED BY <1>1, TableInductive, PTL

-----------------------------------------------------------------------------
(* The flag and the probe, when one thread writes enable.                  *)

OneEnabler == \A d, e \in Enablers : d = e

Switching == \E e \in Enablers : At(e, "switch")
Zeroing == \E e \in Enablers : At(e, "zero")
Filling == \E t \in Filterers : call[t].at \in {"next", "bump", "copy", "overrun"}
Ending == \E t \in Holders : call[t].at \in {"next", "bump", "copy", "overrun", "test", "rearm"}
Rearming == \E t \in Holders : At(t, "rearm")

(* A write to enable goes by what it stored.                               *)
SwitchInv ==
  \A e \in Enablers : /\ At(e, "switch") => (call[e].on <=> denabled)
                      /\ At(e, "zero") => ~denabled

(* Whoever finds enable at 1 with the probe off is about to arm it.        *)
OffInv == denabled /\ ~halted /\ ~armed => Switching \/ Ending

(* A probe that is armed with enable at 0 is about to be switched off, or  *)
(* its table is about to be emptied, or empty and not being filled.        *)
StrayInv == armed /\ ~denabled => Switching \/ (~Filling /\ (didx = 0 \/ Zeroing))

(* The same of one that is about to be armed so.                           *)
RearmInv == Rearming /\ ~denabled => didx = 0 \/ Switching \/ Zeroing

FlagInv == SwitchInv /\ OffInv /\ StrayInv /\ RearmInv

LEMMA InitFlag == Init => FlagInv
  BY Kinds DEF Init, Fresh, Idle, FlagInv, SwitchInv, OffInv, StrayInv, RearmInv, Rearming, At

LEMMA EnableKeepsFlag ==
  ASSUME OneEnabler, TableIInv, FlagInv, NEW t \in Enablers, EnableStep(t)
  PROVE  FlagInv'
  <1>1. /\ call \in [Threads -> Calls] /\ t \in Threads /\ Enablers = {t}
        /\ denabled \in BOOLEAN /\ call[t].on \in BOOLEAN
    BY TypedIs, Kinds DEF TableIInv, Typed, OneEnabler, Calls
  <1>2. \A u \in Holders : call'[u] = call[u]
    BY EnablePlaces
  <1>3. (Filling' <=> Filling) /\ (Ending' <=> Ending) /\ (Rearming' <=> Rearming)
    BY <1>2, Kinds DEF Filling, Ending, Rearming, At
  <1>4. /\ Switching <=> call[t].at = "switch"
        /\ Zeroing <=> call[t].at = "zero"
        /\ Switching' <=> call'[t].at = "switch"
        /\ Zeroing' <=> call'[t].at = "zero"
    BY <1>1 DEF Switching, Zeroing, At
  <1>5. SUFFICES /\ call'[t].at = "switch" => (call'[t].on <=> denabled')
                 /\ call'[t].at = "zero" => ~denabled'
                 /\ OffInv' /\ StrayInv' /\ RearmInv'
    BY <1>1 DEF FlagInv, SwitchInv, At
  <1>6. ASSUME NEW on \in BOOLEAN, EnableWrite(t, on) PROVE <1>5!1
    <2>1. call[t].at = "idle" /\ call'[t].at = "store"
      BY <1>1, <1>6 DEF EnableWrite, Calls, At
    <2>2. didx' = didx /\ armed' = armed /\ denabled' = denabled /\ halted' = halted
      BY <1>6 DEF EnableWrite, history
    <2> QED BY <1>3, <1>4, <2>1, <2>2 DEF FlagInv, OffInv, StrayInv, RearmInv
  <1>7. CASE StoreEnable(t)
    <2>1. call'[t].at = "switch" /\ call'[t].on = call[t].on /\ denabled' = call[t].on
      BY <1>1, <1>7 DEF StoreEnable, Goto, Calls, At
    <2> QED BY <1>4, <2>1 DEF OffInv, StrayInv, RearmInv
  <1>8. CASE SwitchOn(t)
    <2>1. call'[t].at = "idle" /\ armed' /\ denabled'
      BY <1>1, <1>8 DEF SwitchOn, Switched, Done, Idle, Calls, At, FlagInv, SwitchInv
    <2> QED BY <1>4, <2>1 DEF OffInv, StrayInv, RearmInv
  <1>9. CASE SwitchOff(t)
    <2>1. call'[t].at = "zero" /\ ~armed' /\ ~denabled'
      BY <1>1, <1>9 DEF SwitchOff, Switched, Calls, At, FlagInv, SwitchInv
    <2> QED BY <1>4, <2>1 DEF OffInv, StrayInv, RearmInv
  <1>10. CASE ZeroSlot(t)
    <2>1. /\ call[t].at = "zero" /\ call'[t].at = "zero"
          /\ didx' = didx /\ armed' = armed /\ denabled' = denabled /\ halted' = halted
      BY <1>1, <1>10 DEF ZeroSlot, history, Calls, At
    <2>2. ~denabled
      BY <2>1 DEF FlagInv, SwitchInv, At
    <2> QED BY <1>3, <1>4, <2>1, <2>2 DEF FlagInv, OffInv, StrayInv, RearmInv
  <1>11. CASE ResetTable(t)
    <2>1. /\ call[t].at = "zero" /\ call'[t].at = "idle" /\ didx' = 0
          /\ armed' = armed /\ denabled' = denabled /\ halted' = halted
      BY <1>1, <1>11 DEF ResetTable, history, Done, Idle, Calls, At
    <2>2. ~denabled
      BY <2>1 DEF FlagInv, SwitchInv, At
    <2> QED BY <1>3, <1>4, <2>1, <2>2 DEF FlagInv, OffInv, StrayInv, RearmInv
  <1> QED BY <1>6, <1>7, <1>8, <1>9, <1>10, <1>11 DEF EnableStep

LEMMA HolderKeepsFlag ==
  ASSUME TableIInv, FlagInv, NEW t \in Holders, HolderStep(t)
  PROVE  FlagInv'
  <1>1. /\ call \in [Threads -> Calls] /\ t \in Threads /\ Roles
        /\ \A u \in Threads \ {t} : call'[u] = call[u]
        /\ denabled' = denabled
    BY TypedIs, HolderMoves, Kinds DEF TableIInv, Typed
  <1>2. \A u \in Holders \ {t} : call[u].at = "idle" /\ call'[u].at = "idle"
    BY <1>1, HolderMoves, Alone, Kinds DEF TableIInv, At
  <1>3. SwitchInv' /\ (Switching' <=> Switching) /\ (Zeroing' <=> Zeroing)
    BY <1>1, Kinds DEF FlagInv, SwitchInv, Switching, Zeroing, At
  <1>4. /\ Filling <=> t \in Filterers /\ call[t].at \in {"next", "bump", "copy", "overrun"}
        /\ Filling' <=> t \in Filterers /\ call'[t].at \in {"next", "bump", "copy", "overrun"}
        /\ Ending <=> call[t].at \in {"next", "bump", "copy", "overrun", "test", "rearm"}
        /\ Ending' <=> call'[t].at \in {"next", "bump", "copy", "overrun", "test", "rearm"}
        /\ Rearming <=> call[t].at = "rearm"
        /\ Rearming' <=> call'[t].at = "rearm"
    BY <1>2, Kinds DEF Filling, Ending, Rearming, At
  <1>5. SUFFICES OffInv' /\ StrayInv' /\ RearmInv'
    BY <1>3 DEF FlagInv
  <1> USE DEF FlagInv, OffInv, StrayInv, RearmInv
  <1>6. ASSUME NEW list \in Lists, FilterWrite(t, list) PROVE <1>5!1
    <2>1. /\ call[t].at = "idle" /\ call'[t].at = "disarm" /\ didx' = 0
          /\ armed' = armed /\ halted' = halted
      BY <1>1, <1>6 DEF FilterWrite, Calls, At
    <2> QED BY <1>1, <1>3, <1>4, <2>1
  <1>7. CASE FilterDisarm(t) \/ OutputDisarm(t)
    <2>1. call'[t].at \in {"next", "test"} /\ ~armed'
      BY <1>1, <1>7 DEF FilterDisarm, OutputDisarm, Goto, Calls, At
    <2> QED BY <1>1, <1>3, <1>4, <2>1
  <1>8. CASE t \in Filterers /\ (TakeSlot(t) \/ BumpIndex(t) \/ CopyName(t) \/ Overrun(t))
    <2>1. /\ call[t].at \in {"next", "bump", "copy", "overrun"} /\ call'[t].at \in {"next", "bump", "copy", "overrun"}
          /\ armed' = armed /\ halted' = halted
      BY <1>1, <1>8 DEF TakeSlot, BumpIndex, CopyName, Overrun, Goto, history, Calls, At
    <2> QED BY <1>1, <1>3, <1>4, <1>8, <2>1
  <1>9. CASE FilterFails(t)
    <2>1. /\ call[t].at = "next" /\ call'[t].at = "idle"
          /\ didx' = didx /\ armed' = armed /\ halted'
      BY <1>1, <1>9 DEF FilterFails, Release, Done, Idle, Calls, At
    <2>2. t \in Filterers
      BY <1>1, <2>1, Kinds DEF Roles
    <2> QED BY <1>1, <1>3, <1>4, <2>1, <2>2
  <1>10. CASE OutputRead(t)
    <2>1. /\ call[t].at = "idle" /\ call'[t].at = "disarm"
          /\ didx' = didx /\ armed' = armed /\ halted' = halted
      BY <1>1, <1>10 DEF OutputRead, Goto, history, Calls, At
    <2> QED BY <1>1, <1>3, <1>4, <2>1
  <1>11. CASE TestEnabled(t)
    <2>1. /\ call[t].at \in {"next", "test"}
          /\ didx' = didx /\ armed' = armed /\ halted' = halted
      BY <1>1, <1>11 DEF TestEnabled, Ended, history, At
    <2>2. CASE denabled
      <3>1. call'[t].at = "rearm"
        BY <1>1, <1>11, <2>2 DEF TestEnabled, Goto, Calls
      <3> QED BY <1>1, <1>3, <1>4, <2>2, <3>1
    <2>3. CASE ~denabled
      <3>1. call'[t].at = "idle"
        BY <1>1, <1>11, <2>3 DEF TestEnabled, Release, Done, Idle, Calls
      <3> QED BY <1>1, <1>3, <1>4, <2>1, <2>3, <3>1
    <2> QED BY <2>2, <2>3
  <1>12. CASE Rearm(t)
    <2>1. call[t].at = "rearm" /\ call'[t].at = "idle" /\ armed' /\ didx' = didx
      BY <1>1, <1>12 DEF Rearm, Release, Done, Idle, Calls, At
    <2> QED BY <1>1, <1>3, <1>4, <2>1
  <1> QED BY <1>6, <1>7, <1>8, <1>9, <1>10, <1>11, <1>12 DEF HolderStep, FilterStep, ReadStep

LEMMA StepFlag == OneEnabler /\ TableIInv /\ FlagInv /\ [Next]_vars => FlagInv'
  <1> SUFFICES ASSUME OneEnabler, TableIInv, FlagInv, [Next]_vars PROVE FlagInv'
    OBVIOUS
  <1>1. CASE Next
    <2>1. ASSUME NEW c \in CPUs, Handler(c) PROVE FlagInv'
      <3>1. UNCHANGED <<denabled, didx, armed, call, halted>>
        BY <2>1 DEF Handler, Hit, LookUp, ReadTime, AddTime, history
      <3> QED BY <3>1 DEF FlagInv, SwitchInv, OffInv, StrayInv, RearmInv, Switching, Zeroing,
             Filling, Ending, Rearming, At
    <2> QED BY <1>1, <2>1, EnableKeepsFlag, HolderKeepsFlag, Kinds DEF Next, ThreadStep, HolderStep
  <1>2. CASE UNCHANGED vars
    BY <1>2 DEF vars, FlagInv, SwitchInv, OffInv, StrayInv, RearmInv, Switching, Zeroing,
       Filling, Ending, Rearming, At
  <1> QED BY <1>1, <1>2

(* When nothing is under way and enable says 1, the probe is armed, unless *)
(* the last write of the filter was refused.                               *)
THEOREM EnabledIsArmed ==
  ASSUME OneEnabler
  PROVE  Spec => []EnabledMeansArmed
  <1>1. FlagInv => EnabledMeansArmed
    BY Kinds DEF FlagInv, OffInv, EnabledMeansArmed, Quiet, Switching, Ending, At
  <1>2. OneEnabler
    OBVIOUS
  <1> QED BY <1>1, <1>2, TableInductive, InitFlag, StepFlag, PTL DEF Spec

(* A probe that was left armed with enable at 0 finds an empty table.      *)
THEOREM StrayIsHarmless ==
  ASSUME OneEnabler
  PROVE  Spec => []StrayProbeHarmless
  <1>1. FlagInv => StrayProbeHarmless
    BY Kinds DEF FlagInv, StrayInv, StrayProbeHarmless, Quiet, Switching, Zeroing, At
  <1>2. OneEnabler
    OBVIOUS
  <1> QED BY <1>1, <1>2, TableInductive, InitFlag, StepFlag, PTL DEF Spec

-----------------------------------------------------------------------------
(* Whose time a slot has, when the filter is written in an orderly way.    *)

AllClean == \A s \in Slots : dutils[s] = {}

(* Names change only in a table without times, and no handler sees it.     *)
CleanWhileWritten == Rewriting => ~armed /\ AllDone /\ AllClean

(* A write of 0 that is through leaves no time in any slot, the table's    *)
(* and those behind it.                                                    *)
CleanWhileOff ==
  ~denabled /\ ~Switching => ~armed /\ AllDone /\ (~Zeroing => AllClean)

ZeroedSoFar ==
  \A e \in Enablers : At(e, "zero") =>
    \A s \in Slots : s < call[e].i \/ s >= didx => dutils[s] = {}

SlotsInv ==
  \A s \in Slots : dutils[s] \subseteq (IF s < didx THEN {dnames[s]} ELSE {})

(* A handler adds to a slot that still has the name it looked for.         *)
FoundInv ==
  \A c \in CPUs :
    /\ hit[c].at \in {"found", "add"} => hit[c].i < didx /\ dnames[hit[c].i] = hit[c].disk
    /\ hit[c].at = "add" => hit[c].time \subseteq {hit[c].disk}

Ordered == CleanWhileWritten /\ CleanWhileOff /\ ZeroedSoFar /\ SlotsInv /\ FoundInv
TimesInv == orderly => Ordered

LEMMA InitTimes == Init => TimesInv
  BY Kinds DEF Init, Fresh, Idle, NoHit, TimesInv, Ordered, CleanWhileWritten, CleanWhileOff,
     ZeroedSoFar, SlotsInv, FoundInv, AllClean, AllDone, Rewriting, Switching, Zeroing, At

LEMMA EnableKeepsTimes ==
  ASSUME OneEnabler, TableIInv, FlagInv, TimesInv, NEW t \in Enablers, EnableStep(t)
  PROVE  TimesInv'
  <1>1. /\ call \in [Threads -> Calls] /\ t \in Threads /\ Enablers = {t}
        /\ dutils \in [Slots -> SUBSET Names] /\ didx \in Nat
        /\ denabled \in BOOLEAN /\ call[t].on \in BOOLEAN /\ call[t].i \in Nat
    BY TypedIs, Kinds, Sizes DEF TableIInv, Typed, OneEnabler, Calls
  <1>2. /\ \A u \in Filterers : call'[u] = call[u]
        /\ Rewriting' <=> Rewriting
    BY EnablePlaces, Kinds DEF Rewriting
  <1>3. hit' = hit /\ dnames' = dnames /\ (AllDone' <=> AllDone) /\ (orderly' => orderly)
    <2>1. hit' = hit /\ dnames' = dnames
      BY DEF EnableStep, EnableWrite, StoreEnable, SwitchOn, SwitchOff, ZeroSlot, ResetTable
    <2>2. orderly' => orderly
      BY Zenon DEF EnableStep, EnableWrite, StoreEnable, SwitchOn, SwitchOff, ZeroSlot,
         ResetTable, history
    <2> QED BY <2>1, <2>2 DEF AllDone
  <1>4. /\ Switching <=> call[t].at = "switch"
        /\ Zeroing <=> call[t].at = "zero"
        /\ Switching' <=> call'[t].at = "switch"
        /\ Zeroing' <=> call'[t].at = "zero"
    BY <1>1 DEF Switching, Zeroing, At
  <1>5. SUFFICES ASSUME orderly', orderly, Ordered
                 PROVE  Ordered'
    BY <1>3 DEF TimesInv
  <1>6. CleanWhileWritten /\ CleanWhileOff /\ SlotsInv /\ FoundInv
    BY <1>5 DEF Ordered
  <1>7. call[t].at = "zero" =>
          \A s \in Slots : s < call[t].i \/ s >= didx => dutils[s] = {}
    BY <1>5 DEF Ordered, ZeroedSoFar, At
  <1>8. SUFFICES
           /\ CleanWhileWritten' /\ CleanWhileOff' /\ SlotsInv' /\ FoundInv'
           /\ call'[t].at = "zero" =>
                \A s \in Slots : s < call'[t].i \/ s >= didx' => dutils'[s] = {}
    BY <1>1 DEF Ordered, ZeroedSoFar, At
  <1> USE <1>1, <1>2, <1>3, <1>4, <1>6, <1>7
          DEF CleanWhileWritten, CleanWhileOff, SlotsInv, FoundInv
  <1>9. ASSUME NEW on \in BOOLEAN, EnableWrite(t, on) PROVE <1>8!1
    <2>1. /\ call[t].at = "idle" /\ call'[t].at = "store"
          /\ UNCHANGED <<didx, dutils, armed, denabled>>
      BY <1>9 DEF EnableWrite, Calls, At
    <2> QED BY <2>1 DEF AllClean
  <1>10. CASE StoreEnable(t)
    <2>1. call'[t].at = "switch" /\ UNCHANGED <<didx, dutils, armed>>
      BY <1>10 DEF StoreEnable, Goto, Calls, At
    <2> QED BY <2>1 DEF AllClean
  <1>11. CASE SwitchOn(t)
    <2>1. /\ call'[t].at = "idle" /\ denabled /\ ~Rewriting
          /\ UNCHANGED <<didx, dutils, denabled>>
      BY <1>5, <1>11 DEF SwitchOn, Switched, Done, Idle, Calls, At, FlagInv, SwitchInv
    <2> QED BY <2>1
  <1>12. CASE SwitchOff(t)
    <2>1. /\ call'[t].at = "zero" /\ call'[t].i = 0 /\ ~armed' /\ AllDone
          /\ UNCHANGED <<didx, dutils>>
      BY <1>5, <1>12 DEF SwitchOff, Switched, Calls, At
    <2>2. \A s \in Slots : s < 0 \/ s >= didx => dutils[s] = {}
      BY DEF Slots
    <2> QED BY <2>1, <2>2 DEF AllClean
  <1>13. CASE ZeroSlot(t)
    <2>1. /\ call[t].at = "zero" /\ call'[t].at = "zero" /\ call'[t].i = call[t].i + 1
          /\ dutils' = [dutils EXCEPT ![call[t].i] = {}]
          /\ UNCHANGED <<didx, armed, denabled>>
      BY <1>13 DEF ZeroSlot, Calls, At
    <2>2. \A s \in Slots : dutils'[s] = {} \/ (dutils'[s] = dutils[s] /\ s # call[t].i)
      BY <2>1
    <2>3. \A s \in Slots : s < call'[t].i \/ s >= didx' => dutils'[s] = {}
      BY <2>1, <2>2 DEF Slots
    <2>4. AllClean => AllClean'
      BY <2>2 DEF AllClean
    <2>5. SlotsInv'
      BY <2>1, <2>2
    <2> QED BY <2>1, <2>3, <2>4, <2>5
  <1>14. CASE ResetTable(t)
    <2>1. /\ call[t].at = "zero" /\ call'[t].at = "idle" /\ didx' = 0 /\ call[t].i >= didx
          /\ UNCHANGED <<dutils, armed, denabled>>
      BY <1>14 DEF ResetTable, Done, Idle, Calls, At
    <2>2. AllClean
      BY <2>1 DEF AllClean, Slots
    <2>3. AllDone
      BY <2>1 DEF FlagInv, SwitchInv, At
    <2> QED BY <2>1, <2>2, <2>3 DEF AllClean, AllDone
  <1> QED BY <1>9, <1>10, <1>11, <1>12, <1>13, <1>14 DEF EnableStep

LEMMA HolderKeepsTimes ==
  ASSUME TableIInv, FlagInv, TimesInv, NEW t \in Holders, HolderStep(t)
  PROVE  TimesInv'
  <1>1. /\ call \in [Threads -> Calls] /\ t \in Threads /\ Roles /\ didx \in Nat
        /\ dnames \in [Slots -> Names \cup {Unnamed}]
        /\ \A u \in Threads \ {t} : call'[u] = call[u]
        /\ denabled' = denabled /\ hit' = hit /\ (AllDone' <=> AllDone)
    BY TypedIs, HolderMoves, Kinds, Sizes DEF TableIInv, Typed, AllDone
  <1>2. \A u \in Holders \ {t} : call[u].at = "idle" /\ call'[u].at = "idle"
    BY <1>1, HolderMoves, Alone, Kinds DEF TableIInv, At
  <1>3. /\ Rewriting <=> t \in Filterers /\ Writing(t)
        /\ Rewriting' <=> t \in Filterers /\ Writing(t)'
        /\ Switching' <=> Switching
        /\ Zeroing' <=> Zeroing
        /\ \A e \in Enablers : call'[e] = call[e]
    BY <1>1, <1>2, Kinds DEF Rewriting, Writing, Switching, Zeroing, At
  <1>4. dutils' = dutils /\ (AllClean' <=> AllClean) /\ (orderly' => orderly)
    <2>1. dutils' = dutils
      BY DEF HolderStep, FilterStep, ReadStep, FilterWrite, FilterDisarm, TakeSlot, BumpIndex,
         CopyName, Overrun, FilterFails, OutputRead, OutputDisarm, TestEnabled, Rearm
    <2>2. orderly' => orderly
      BY Zenon DEF HolderStep, FilterStep, ReadStep, FilterWrite, FilterDisarm, TakeSlot,
         BumpIndex, CopyName, Overrun, FilterFails, OutputRead, OutputDisarm, TestEnabled, Rearm, history
    <2> QED BY <2>1, <2>2 DEF AllClean
  <1>5. SUFFICES ASSUME orderly', orderly, Ordered
                 PROVE  Ordered'
    BY <1>4 DEF TimesInv
  <1> USE DEF Ordered
  <1>6. CleanWhileWritten /\ CleanWhileOff /\ ZeroedSoFar /\ SlotsInv /\ FoundInv
    BY <1>5 DEF Ordered
  <1>7. ASSUME AllClean, AllDone
        PROVE  ZeroedSoFar' /\ SlotsInv' /\ FoundInv'
    BY <1>4, <1>1, <1>7 DEF ZeroedSoFar, SlotsInv, FoundInv, AllClean, AllDone
  <1>8. ASSUME didx' = didx, dnames' = dnames
        PROVE  ZeroedSoFar' /\ SlotsInv' /\ FoundInv'
    BY <1>1, <1>3, <1>4, <1>6, <1>8 DEF ZeroedSoFar, SlotsInv, FoundInv, At
  <1>9. ASSUME NEW list \in Lists, FilterWrite(t, list) PROVE Ordered'
    <2>1. /\ armed' = armed /\ AllDone /\ ~denabled /\ ~Switching /\ ~Zeroing
      BY <1>5, <1>9 DEF FilterWrite, Switching, Zeroing, At
    <2>2. ~armed /\ AllClean
      BY <1>6, <2>1 DEF CleanWhileOff
    <2> QED BY <1>1, <1>3, <1>4, <1>7, <2>1, <2>2 DEF CleanWhileWritten, CleanWhileOff
  <1>10. CASE FilterDisarm(t) \/ OutputDisarm(t)
    <2>1. ~armed' /\ didx' = didx /\ dnames' = dnames
      BY <1>10 DEF FilterDisarm, OutputDisarm
    <2>2. Rewriting' => Rewriting
      BY <1>1, <1>3, <1>10 DEF FilterDisarm, OutputDisarm, Goto, Writing, Calls, At
    <2> QED BY <1>1, <1>3, <1>4, <1>6, <1>8, <2>1, <2>2 DEF CleanWhileWritten, CleanWhileOff
  <1>11. CASE t \in Filterers /\ (TakeSlot(t) \/ BumpIndex(t) \/ CopyName(t) \/ Overrun(t))
    <2>1. Rewriting /\ armed' = armed
      BY <1>3, <1>11 DEF TakeSlot, BumpIndex, CopyName, Overrun, Writing, At
    <2>2. AllClean /\ AllDone
      BY <1>6, <2>1 DEF CleanWhileWritten
    <2> QED BY <1>1, <1>3, <1>4, <1>6, <1>7, <2>1, <2>2 DEF CleanWhileWritten, CleanWhileOff
  <1>12. CASE t \in Filterers /\ FilterFails(t)
    <2>1. Rewriting /\ armed' = armed /\ didx' = didx /\ dnames' = dnames
      BY <1>3, <1>12 DEF FilterFails, Writing, At
    <2> QED BY <1>1, <1>3, <1>4, <1>6, <1>8, <2>1 DEF CleanWhileWritten, CleanWhileOff
  <1>13. CASE OutputRead(t) /\ t \in Readers
    <2>1. armed' = armed /\ didx' = didx /\ dnames' = dnames /\ t \notin Filterers
      BY <1>13, Kinds DEF OutputRead
    <2> QED BY <1>1, <1>3, <1>4, <1>6, <1>8, <2>1 DEF CleanWhileWritten, CleanWhileOff
  <1>14. CASE TestEnabled(t)
    <2>1. armed' = armed /\ didx' = didx /\ dnames' = dnames
      BY <1>14 DEF TestEnabled
    <2>2. ~Rewriting'
      BY <1>1, <1>3, <1>14 DEF TestEnabled, Ended, Release, Done, Goto, Idle, Writing, Calls, At
    <2> QED BY <1>1, <1>3, <1>4, <1>6, <1>8, <2>1, <2>2 DEF CleanWhileWritten, CleanWhileOff
  <1>15. CASE Rearm(t)
    <2>1. denabled /\ didx' = didx /\ dnames' = dnames
      BY <1>5, <1>15 DEF Rearm
    <2>2. ~Rewriting'
      BY <1>1, <1>3, <1>15 DEF Rearm, Release, Done, Idle, Writing, Calls, At
    <2> QED BY <1>1, <1>8, <2>1, <2>2 DEF CleanWhileWritten, CleanWhileOff
  <1> QED BY <1>9, <1>10, <1>11, <1>12, <1>13, <1>14, <1>15 DEF HolderStep, FilterStep, ReadStep

LEMMA HandlerKeepsTimes ==
  ASSUME OneEnabler, TableIInv, FlagInv, TimesInv, NEW c \in CPUs, Handler(c)
  PROVE  TimesInv'
  <1>1. /\ hit \in [CPUs -> Hits] /\ dutils \in [Slots -> SUBSET Names] /\ didx \in 0 .. MaxDisk
        /\ MaxDisk \in Nat /\ HandlersInv
    BY TypedIs, Sizes DEF TableIInv, Typed
  <1>2. UNCHANGED <<denabled, didx, dnames, armed, call, orderly>>
    BY DEF Handler, Hit, LookUp, ReadTime, AddTime, history
  <1>3. SUFFICES ASSUME orderly, Ordered PROVE Ordered'
    BY <1>2 DEF TimesInv
  <1>4. CleanWhileWritten /\ CleanWhileOff /\ ZeroedSoFar /\ SlotsInv /\ FoundInv
    BY <1>3 DEF Ordered
  <1>5. armed \/ ~AllDone
    BY DEF Handler, Hit, LookUp, ReadTime, AddTime, AllDone
  <1>6. ~Rewriting /\ (denabled \/ Switching) /\ ~Zeroing
    <2>1. ~Rewriting /\ (denabled \/ Switching)
      BY <1>4, <1>5 DEF CleanWhileWritten, CleanWhileOff
    <2>2. Zeroing => ~denabled /\ ~Switching
      BY DEF OneEnabler, FlagInv, SwitchInv, Zeroing, Switching, At
    <2> QED BY <2>1, <2>2
  <1>7. CleanWhileWritten' /\ CleanWhileOff'
    BY <1>2, <1>6 DEF CleanWhileWritten, CleanWhileOff, Rewriting, Switching, At
  <1>8. SUFFICES (dutils' = dutils \/ ~Zeroing) /\ SlotsInv' /\ FoundInv'
    BY <1>2, <1>4, <1>7 DEF Ordered, ZeroedSoFar, Zeroing, At
  <1>9. ASSUME NEW disk \in Names, Hit(c, disk) PROVE <1>8!1
    BY <1>1, <1>2, <1>4, <1>9 DEF Hit, SlotsInv, FoundInv, Hits
  <1>10. CASE LookUp(c)
    <2>1. dutils' = dutils /\ SlotsInv'
      BY <1>2, <1>4, <1>10 DEF LookUp, SlotsInv
    <2>2. CASE hit' = [hit EXCEPT ![c] = NoHit]
      BY <1>1, <1>2, <1>4, <2>1, <2>2 DEF FoundInv, NoHit
    <2>3. ASSUME NEW i \in Indexes(hit[c].disk), hit' = [hit EXCEPT ![c].at = "found", ![c].i = i]
          PROVE  FoundInv'
      <3>1. i < didx /\ dnames[i] = hit[c].disk
        BY <1>1 DEF Indexes
      <3> QED BY <1>1, <1>2, <1>4, <2>3, <3>1 DEF FoundInv, Hits
    <2> QED BY <1>10, <2>1, <2>2, <2>3 DEF LookUp
  <1>11. CASE ReadTime(c)
    <2>1. dutils' = dutils /\ SlotsInv'
      BY <1>2, <1>4, <1>11 DEF ReadTime, SlotsInv
    <2>2. /\ hit[c].i < didx /\ dnames[hit[c].i] = hit[c].disk
          /\ dutils[hit[c].i] \subseteq {hit[c].disk}
      BY <1>1, <1>4, <1>11 DEF ReadTime, FoundInv, SlotsInv, HandlersInv
    <2>3. FoundInv'
      BY <1>1, <1>2, <1>4, <1>11, <2>2 DEF ReadTime, FoundInv, NoHit, Hits
    <2> QED BY <2>1, <2>3
  <1>12. CASE AddTime(c)
    <2>1. /\ dutils' = [dutils EXCEPT ![hit[c].i] = hit[c].time \cup {hit[c].disk}]
          /\ hit' = [hit EXCEPT ![c] = NoHit] /\ hit[c].at = "add"
      BY <1>12 DEF AddTime
    <2>2. /\ hit[c].i \in Slots /\ hit[c].i < didx /\ dnames[hit[c].i] = hit[c].disk
          /\ hit[c].time \subseteq {hit[c].disk}
      BY <1>1, <1>4, <2>1 DEF FoundInv, HandlersInv
    <2>3. SlotsInv'
      BY <1>1, <1>2, <1>4, <2>1, <2>2 DEF SlotsInv
    <2>4. FoundInv'
      <3>1. hit'[c].at = "idle" /\ \A d \in CPUs \ {c} : hit'[d] = hit[d]
        BY <1>1, <2>1 DEF NoHit
      <3> QED BY <1>2, <1>4, <3>1 DEF FoundInv
    <2> QED BY <1>6, <2>3, <2>4
  <1> QED BY <1>9, <1>10, <1>11, <1>12 DEF Handler

LEMMA StepTimes ==
  OneEnabler /\ TableIInv /\ FlagInv /\ TimesInv /\ [Next]_vars => TimesInv'
  <1> SUFFICES ASSUME OneEnabler, TableIInv, FlagInv, TimesInv, [Next]_vars PROVE TimesInv'
    OBVIOUS
  <1>1. CASE Next
    BY <1>1, EnableKeepsTimes, HolderKeepsTimes, HandlerKeepsTimes, Kinds
       DEF Next, ThreadStep, HolderStep
  <1>2. CASE UNCHANGED vars
    BY <1>2 DEF vars, TimesInv, Ordered, CleanWhileWritten, CleanWhileOff, ZeroedSoFar, SlotsInv,
       FoundInv, AllClean, AllDone, Rewriting, Switching, Zeroing, At
  <1> QED BY <1>1, <1>2

(* Over any number of sessions no time is that of another disk than the    *)
(* one its slot names, if the filter is written only while the probe is    *)
(* off and the handlers are done.                                          *)
THEOREM TimesAreOwn ==
  ASSUME OneEnabler
  PROVE  Spec => []TimesBelong
  <1>1. TableIInv /\ TimesInv => TimesBelong
    BY TypedIs, Sizes DEF TableIInv, Typed, TimesInv, Ordered, SlotsInv, TimesBelong, Slots
  <1>2. OneEnabler
    OBVIOUS
  <1> QED BY <1>1, <1>2, TableInductive, InitFlag, StepFlag, InitTimes, StepTimes, PTL DEF Spec

=============================================================================
