--------------------------- MODULE EventPumpProofs ---------------------------
(***************************************************************************)
(* Proofs about EventPump, for every set of instances, every size of the   *)
(* buffers and every set of faults.                                        *)
(***************************************************************************)
EXTENDS EventPump, SequenceTheorems, TLAPS

(***************************************************************************)
(* The inductive invariant.  The properties of EventPump speak of what is  *)
(* in the file and in the buffer; why they are kept depends on where the   *)
(* chain of callbacks stands, which is what these parts add.               *)
(***************************************************************************)

(* The chain of i holds records that no write has taken yet: a read has    *)
(* answered with data, or the write of that data is submitted.             *)
Unwritten(i) ==
  Request("read", "ok") \in reqs[i] \/ Request("write", "queued") \in reqs[i]

(* Where the chain can stand, and what each stage says of the descriptors. *)
ChainInv(i) ==
  /\ \A r, s \in reqs[i] : r = s
  /\ \A r \in reqs[i] :
       /\ r.op = "open"  => r.res \in {"queued", "ok", "error"}
       /\ r.op = "read"  => r.res \in {"queued", "ok", "eagain", "error"}
       /\ r.op = "write" => r.res \in {"queued", "ok", "short", "error"}
       /\ r.op # "open"  => fdIn[i] = "open"
       /\ r.op = "open"  => fdIn[i] = "none"
  /\ retry[i] => reqs[i] = {} /\ fdIn[i] = "open"
  /\ fdOut[i] = "none" => reqs[i] = {} /\ ~retry[i] /\ fdIn[i] = "none"
  /\ fdIn[i] = "closed" => reqs[i] = {}

(* event->iov.len differs from the full size only around a write, and for  *)
(* good after a write that failed.                                         *)
LengthInv(i) ==
  /\ iovLen[i] <= BufRecords /\ hi[i] - lo[i] <= BufRecords
  /\ fdIn[i] # "closed" /\ (\A r \in reqs[i] : r.op # "write") => iovLen[i] = BufRecords
  /\ Request("write", "queued") \in reqs[i] => iovLen[i] = hi[i] - lo[i]

(* The file ends before the buffer, the buffer before the ring. *)
OrderInv(i) ==
  /\ base[i] <= head[i] /\ head[i] <= produced[i]
  /\ lo[i] <= hi[i] /\ hi[i] <= head[i]
  /\ Copied!InLogOrder(file[i]) /\ \A a \in Written(i) : 1 <= a /\ a <= hi[i]
  /\ Unwritten(i) => lo[i] < hi[i] /\ \A a \in Written(i) : a <= lo[i]

(* What is read is written before it can be overwritten in the buffer. *)
KeepInv(i) ==
  /\ ~Unwritten(i) => Iov(i) \subseteq Written(i) \cup lost[i]
  /\ base[i] + 1 .. produced[i] \subseteq Written(i) \cup Iov(i) \cup Ring(i) \cup lost[i]

(* A read that found nothing still speaks for the ring when it is looked at. *)
DrainInv(i) ==
  /\ Request("read", "eagain") \in reqs[i] => head[i] >= lastRead[i]
  /\ fdIn[i] = "closed" /\ i \notin failed =>
       expired /\ head[i] >= lastRead[i]

InvAt(i) == ChainInv(i) /\ LengthInv(i) /\ OrderInv(i) /\ KeepInv(i) /\ DrainInv(i)

IInv == TypeOK /\ \A i \in Instances : InvAt(i)

-----------------------------------------------------------------------------
(* A context is the state one instance has; two states with the same       *)
(* context of j agree on everything the invariant says of j.               *)
SameContext(j) ==
  /\ produced'[j] = produced[j] /\ head'[j] = head[j]
  /\ lo'[j] = lo[j] /\ hi'[j] = hi[j] /\ iovLen'[j] = iovLen[j]
  /\ file'[j] = file[j] /\ reqs'[j] = reqs[j] /\ retry'[j] = retry[j]
  /\ fdIn'[j] = fdIn[j] /\ fdOut'[j] = fdOut[j]
  /\ base'[j] = base[j] /\ lost'[j] = lost[j] /\ lastRead'[j] = lastRead[j]
  /\ j \in failed' <=> j \in failed

(* A step that leaves the context of j alone, and does not take `expired'  *)
(* back, keeps the invariant of j.                                         *)
LEMMA SameContextKeepsInv ==
  ASSUME NEW j \in Instances, InvAt(j), SameContext(j), expired => expired'
  PROVE  InvAt(j)'
<1>1. ChainInv(j)'
  BY DEF InvAt, ChainInv, SameContext
<1>2. LengthInv(j)'
  BY DEF InvAt, LengthInv, SameContext, Request
<1>3. OrderInv(j)'
  BY DEF InvAt, OrderInv, SameContext, Unwritten, Written, Request
<1>4. KeepInv(j)'
  BY DEF InvAt, KeepInv, SameContext, Unwritten, Written, Iov, Ring, Request
<1>5. DrainInv(j)'
  BY DEF InvAt, DrainInv, SameContext, Request
<1> QED
  BY <1>1, <1>2, <1>3, <1>4, <1>5 DEF InvAt

(* One request is under way at a time: the one that is found in reqs[i] is *)
(* all of it.                                                              *)
LEMMA OnlyRequest ==
  ASSUME NEW i \in Instances, ChainInv(i), NEW op, NEW res, Request(op, res) \in reqs[i]
  PROVE  reqs[i] = {Request(op, res)}
  BY DEF ChainInv

(* So an answer leaves the answered request alone in reqs[i], ...          *)
LEMMA AnswerLeaves ==
  ASSUME TypeOK, NEW i \in Instances, ChainInv(i), NEW op, NEW res, Answer(i, op, res)
  PROVE  /\ reqs[i] = {Request(op, "queued")}
         /\ reqs' = [reqs EXCEPT ![i] = {Request(op, res)}]
<1>1. reqs[i] = {Request(op, "queued")}
  BY OnlyRequest DEF Answer
<1> QED
  BY <1>1 DEF Answer, TypeOK

(* ... and a callback leaves what it submits, or nothing.                  *)
LEMMA CallbackLeaves ==
  ASSUME TypeOK, NEW i \in Instances, ChainInv(i), NEW op, NEW res, Deliver(i, op, res)
  PROVE  /\ reqs[i] = {Request(op, res)}
         /\ Consume(i, op, res) => reqs' = [reqs EXCEPT ![i] = {}]
         /\ \A next : ConsumeAndSubmit(i, op, res, next) =>
              reqs' = [reqs EXCEPT ![i] = {Request(next, "queued")}]
<1>1. reqs[i] = {Request(op, res)}
  BY OnlyRequest DEF Deliver
<1> QED
  BY <1>1 DEF Consume, ConsumeAndSubmit, TypeOK

(* An output file holds numbers of records; a new one holds none. *)
LEMMA WrittenNat ==
  ASSUME TypeOK, NEW i \in Instances
  PROVE  Written(i) \subseteq Nat
<1>1. file[i] \in Seq(Nat)
  BY DEF TypeOK, Files
<1> QED
  BY <1>1, RangeOfSeq DEF Written

LEMMA NewFile == <<>> \in Files /\ Range(<<>>) = {} /\ Copied!InLogOrder(<<>>)
  BY EmptySeq DEF Files, Range, Copied!InLogOrder

(* Appending the first n records of the buffer to the file. *)
LEMMA AppendRecords ==
  ASSUME NEW s \in Seq(Nat), Copied!InLogOrder(s), NEW l \in Nat, NEW n \in Nat,
         \A a \in Range(s) : a <= l
  PROVE  /\ Range(Stretch(l, n)) = l + 1 .. l + n
         /\ s \o Stretch(l, n) \in Seq(Nat)
         /\ Range(s \o Stretch(l, n)) = Range(s) \cup (l + 1 .. l + n)
         /\ Copied!InLogOrder(s \o Stretch(l, n))
         /\ Len(s) <= Len(s \o Stretch(l, n))
         /\ \A m \in 1 .. Len(s) : (s \o Stretch(l, n))[m] = s[m]
<1> DEFINE w == Stretch(l, n)
<1> USE DEF Stretch
<1>1. w \in Seq(Nat) /\ Len(w) = n
  <2>1. \A m \in 1 .. n : l + m \in Nat
    OBVIOUS
  <2>2. w \in Seq(Nat)
    BY <2>1, IsASeq
  <2>3. DOMAIN w = 1 .. n
    OBVIOUS
  <2> HIDE DEF w
  <2> QED
    BY <2>2, <2>3, LenProperties
<1>2. Range(w) = l + 1 .. l + n
  <2>1. ASSUME NEW a \in l + 1 .. l + n PROVE a \in Range(w)
    <3>1. a - l \in 1 .. n /\ w[a - l] = a
      OBVIOUS
    <3> QED
      BY <3>1 DEF Range
  <2>2. ASSUME NEW m \in 1 .. n PROVE w[m] \in l + 1 .. l + n
    OBVIOUS
  <2> QED
    BY <2>1, <2>2 DEF Range
<1>3. \A m \in 1 .. n : w[m] = l + m
  OBVIOUS
<1>4. Len(s) \in Nat /\ \A m \in 1 .. Len(s) : s[m] \in Nat /\ s[m] <= l
  <2>1. \A m \in 1 .. Len(s) : s[m] \in Range(s)
    BY RangeEquality
  <2> QED
    BY <2>1, LenProperties, RangeOfSeq
<1> HIDE DEF w
<1>5. /\ s \o w \in Seq(Nat) /\ Len(s \o w) = Len(s) + n
      /\ \A m \in 1 .. Len(s) + n : (s \o w)[m] = IF m <= Len(s) THEN s[m] ELSE w[m - Len(s)]
  BY <1>1, ConcatProperties
<1>6. Range(s \o w) = Range(s) \cup (l + 1 .. l + n)
  BY <1>1, <1>2, RangeConcatenation
<1>7. \A m \in 1 .. Len(s) + n : (s \o w)[m] = IF m <= Len(s) THEN s[m] ELSE l + (m - Len(s))
  BY <1>3, <1>4, <1>5
<1>8. Copied!InLogOrder(s \o w)
  <2> DEFINE t == s \o w
  <2>0. /\ Len(t) = Len(s) + n
        /\ \A j \in 1 .. Len(s) + n : t[j] = IF j <= Len(s) THEN s[j] ELSE l + (j - Len(s))
    BY <1>5, <1>7
  <2> HIDE DEF t
  <2> SUFFICES ASSUME NEW m \in 1 .. Len(s) + n, NEW k \in 1 .. Len(s) + n, m < k
               PROVE  t[m] < t[k]
    BY <2>0 DEF Copied!InLogOrder, t
  <2>1. CASE k <= Len(s)
    <3>1. t[m] = s[m] /\ t[k] = s[k] /\ m \in 1 .. Len(s) /\ k \in 1 .. Len(s)
      BY <1>4, <2>0, <2>1
    <3> QED
      BY <3>1 DEF Copied!InLogOrder
  <2>2. CASE m <= Len(s) /\ k > Len(s)
    <3>1. t[m] = s[m] /\ t[k] = l + (k - Len(s)) /\ m \in 1 .. Len(s)
      BY <1>4, <2>0, <2>2
    <3>2. s[m] <= l /\ s[m] \in Nat
      BY <1>4, <3>1
    <3> QED
      BY <1>4, <2>2, <3>1, <3>2
  <2>3. CASE m > Len(s)
    <3>1. t[m] = l + (m - Len(s)) /\ t[k] = l + (k - Len(s))
      BY <1>4, <2>0, <2>3
    <3> QED
      BY <1>4, <3>1
  <2> QED
    BY <1>4, <2>1, <2>2, <2>3
<1> QED
  BY <1>2, <1>4, <1>5, <1>6, <1>8 DEF w

-----------------------------------------------------------------------------
(* The initial state and every step of one actor.                          *)

LEMMA InitInv == Init => IInv
<1> SUFFICES ASSUME Init PROVE IInv
  OBVIOUS
<1>1. TypeOK
  BY BufAssumption, NewFile DEF Init, FreshContexts, TypeOK, FdState
<1>2. ASSUME NEW i \in Instances PROVE InvAt(i)
  BY BufAssumption, NewFile DEF Init, FreshContexts, InvAt, ChainInv, LengthInv, OrderInv,
     KeepInv, DrainInv, Unwritten, Written, Iov, Ring, Request
<1> QED
  BY <1>1, <1>2 DEF IInv

(* The record that is overwritten leaves the ring and is counted as lost. *)
LEMMA ProduceInv ==
  ASSUME IInv, NEW i \in Instances, Produce(i)
  PROVE  IInv'
<1>1. TypeOK'
  BY DEF IInv, TypeOK, Produce, iovVars, fdVars
<1>2. ASSUME NEW j \in Instances, j # i PROVE InvAt(j)'
  <2>1. SameContext(j) /\ expired' = expired
    BY <1>2 DEF IInv, TypeOK, SameContext, Produce, kernelVars, iovVars, fdVars, historyVars
  <2> QED
    BY <2>1, SameContextKeepsInv DEF IInv
<1>3. InvAt(i)
  BY DEF IInv
<1>4. ChainInv(i)' /\ LengthInv(i)'
  BY <1>3 DEF InvAt, ChainInv, LengthInv, Produce, iovVars, fdVars, Request
<1>5. OrderInv(i)' /\ DrainInv(i)'
  BY <1>3, RingAssumption
     DEF IInv, TypeOK, InvAt, OrderInv, DrainInv, Unwritten, Written, Produce, iovVars, fdVars, Request
<1>6. KeepInv(i)'
  <2> DEFINE full == produced[i] - head[i] >= RingRecords
  <2>1. /\ produced'[i] = produced[i] + 1
        /\ head'[i] = IF full THEN head[i] + 1 ELSE head[i]
        /\ lost'[i] = IF full THEN lost[i] \cup {head[i] + 1} ELSE lost[i]
        /\ lo'[i] = lo[i] /\ hi'[i] = hi[i] /\ file'[i] = file[i] /\ base'[i] = base[i]
        /\ Unwritten(i)' = Unwritten(i)
    BY DEF IInv, TypeOK, Produce, iovVars, Unwritten, Request
  <2>2. ~Unwritten(i) => (Iov(i) \subseteq Written(i) \cup lost[i])'
    BY <1>3, <2>1 DEF InvAt, KeepInv, Written, Iov
  <2>3. Ring(i) \cup {produced[i] + 1} \subseteq Ring(i)' \cup lost'[i]
    <3>1. produced[i] \in Nat /\ head[i] \in Nat /\ head[i] <= produced[i]
      BY <1>3 DEF IInv, TypeOK, InvAt, OrderInv
    <3>2. CASE full
      BY <2>1, <3>1, <3>2 DEF Ring
    <3>3. CASE ~full
      BY <2>1, <3>1, <3>3 DEF Ring
    <3> QED
      BY <3>2, <3>3
  <2>4. (base[i] + 1 .. produced[i])' \subseteq (base[i] + 1 .. produced[i]) \cup {produced[i] + 1}
    BY <2>1 DEF IInv, TypeOK
  <2> QED
    BY <1>3, <2>1, <2>2, <2>3, <2>4 DEF InvAt, KeepInv, Written, Iov
<1> QED
  BY <1>1, <1>2, <1>4, <1>5, <1>6 DEF IInv, InvAt

LEMMA PerformOpenInv ==
  ASSUME IInv, NEW i \in Instances, NEW res \in Results, PerformOpen(i, res)
  PROVE  IInv'
<1> USE DEF PerformOpen
<1>1. TypeOK'
  BY DEF IInv, TypeOK, Answer, Request, Ops, Results, kernelVars, iovVars, fdVars, historyVars
<1>2. ASSUME NEW j \in Instances, j # i PROVE InvAt(j)'
  <2>1. SameContext(j) /\ expired' = expired
    BY <1>2 DEF IInv, TypeOK, SameContext, Answer, kernelVars, iovVars, fdVars, historyVars
  <2> QED
    BY <2>1, SameContextKeepsInv DEF IInv
<1>3. InvAt(i)
  BY DEF IInv
<1>4. reqs[i] = {Request("open", "queued")} /\ reqs'[i] = {Request("open", res)}
  BY <1>3, AnswerLeaves DEF IInv, InvAt, TypeOK
<1> QED
  BY <1>1, <1>2, <1>3, <1>4
     DEF IInv, InvAt, ChainInv, LengthInv, OrderInv, KeepInv, DrainInv, Unwritten, Written, Iov, Ring,
         Request, kernelVars, iovVars, fdVars, historyVars

(* The ring passes its oldest records to the buffer, which held nothing    *)
(* that still had to be written.                                           *)
LEMMA PerformReadDataInv ==
  ASSUME IInv, NEW i \in Instances, NEW n, PerformReadData(i, n)
  PROVE  IInv'
<1> USE DEF PerformReadData
<1>1. TypeOK'
  BY DEF IInv, TypeOK, Answer, Request, Ops, Results, kernelVars, iovVars, fdVars, historyVars
<1>2. ASSUME NEW j \in Instances, j # i PROVE InvAt(j)'
  <2>1. SameContext(j) /\ expired' = expired
    BY <1>2 DEF IInv, TypeOK, SameContext, Answer, kernelVars, iovVars, fdVars, historyVars
  <2> QED
    BY <2>1, SameContextKeepsInv DEF IInv
<1>3. InvAt(i)
  BY DEF IInv
<1>4. reqs[i] = {Request("read", "queued")} /\ reqs'[i] = {Request("read", "ok")}
  BY <1>3, AnswerLeaves DEF IInv, InvAt, TypeOK
<1>5. ChainInv(i)' /\ DrainInv(i)'
  BY <1>3, <1>4 DEF IInv, InvAt, ChainInv, DrainInv, Request, fdVars
<1>6. LengthInv(i)'
  <2>1. hi'[i] - lo'[i] = n /\ iovLen'[i] = iovLen[i] /\ fdIn'[i] = fdIn[i]
    BY DEF IInv, TypeOK, fdVars
  <2>2. fdIn[i] = "open"
    BY <1>3, <1>4 DEF InvAt, ChainInv, Request
  <2>3. iovLen[i] = BufRecords
    BY <1>3, <1>4, <2>2 DEF InvAt, LengthInv, Request
  <2>4. n <= BufRecords
    BY <2>3, BufAssumption
  <2> QED
    BY <1>4, <2>1, <2>2, <2>3, <2>4, BufAssumption DEF LengthInv, Request
<1>7. OrderInv(i)'
  <2>1. Written(i)' = Written(i) /\ \A a \in Written(i) : a \in Nat
    BY WrittenNat DEF IInv, Written
  <2> QED
    BY <1>3, <1>4, <2>1 DEF IInv, TypeOK, InvAt, OrderInv, Unwritten, Request
<1>8. KeepInv(i)'
  BY <1>3, <1>4 DEF IInv, TypeOK, InvAt, OrderInv, KeepInv, Unwritten, Written, Iov, Ring, Request
<1> QED
  BY <1>1, <1>2, <1>5, <1>6, <1>7, <1>8 DEF IInv, InvAt

LEMMA PerformReadNothingInv ==
  ASSUME IInv, NEW i \in Instances, NEW res \in Results, PerformReadNothing(i, res)
  PROVE  IInv'
<1> USE DEF PerformReadNothing
<1>1. TypeOK'
  BY DEF IInv, TypeOK, Answer, Request, Ops, Results, kernelVars, iovVars, fdVars, historyVars
<1>2. ASSUME NEW j \in Instances, j # i PROVE InvAt(j)'
  <2>1. SameContext(j) /\ expired' = expired
    BY <1>2 DEF IInv, TypeOK, SameContext, Answer, kernelVars, iovVars, fdVars, historyVars
  <2> QED
    BY <2>1, SameContextKeepsInv DEF IInv
<1>3. InvAt(i)
  BY DEF IInv
<1>4. reqs[i] = {Request("read", "queued")} /\ reqs'[i] = {Request("read", res)}
  BY <1>3, AnswerLeaves DEF IInv, InvAt, TypeOK
<1>5. ChainInv(i)' /\ LengthInv(i)' /\ OrderInv(i)' /\ KeepInv(i)'
  BY <1>3, <1>4
     DEF IInv, InvAt, ChainInv, LengthInv, OrderInv, KeepInv, Unwritten, Written, Iov, Ring,
         Request, kernelVars, iovVars, fdVars
<1>6. DrainInv(i)'
  BY <1>3, <1>4 DEF IInv, TypeOK, InvAt, ChainInv, DrainInv, Ring, Request, kernelVars, fdVars
<1> QED
  BY <1>1, <1>2, <1>5, <1>6 DEF IInv, InvAt

(* What a write leaves out of the file is counted as lost. *)
LEMMA PerformWriteInv ==
  ASSUME IInv, NEW i \in Instances, NEW n \in Nat, NEW res \in Results, PerformWrite(i, n, res)
  PROVE  IInv'
<1> USE DEF PerformWrite
<1>1. InvAt(i) /\ TypeOK
  BY DEF IInv
<1>2. reqs[i] = {Request("write", "queued")} /\ reqs'[i] = {Request("write", res)}
  BY <1>1, AnswerLeaves DEF InvAt, TypeOK
<1>3. res \in {"ok", "short", "error"} /\ n <= iovLen[i] /\ iovLen[i] = hi[i] - lo[i]
  BY <1>1, <1>2 DEF TypeOK, InvAt, LengthInv
<1> DEFINE W == lo[i] + 1 .. lo[i] + n
<1>4. /\ file' \in [Instances -> Files]
      /\ Written(i)' = Written(i) \cup W /\ Copied!InLogOrder(file'[i])
      /\ lost' = [lost EXCEPT ![i] = @ \cup (Iov(i) \ W)]
  <2>1. file[i] \in Seq(Nat) /\ lo[i] \in Nat /\ Copied!InLogOrder(file[i])
    BY <1>1 DEF TypeOK, Files, InvAt, OrderInv
  <2>2. \A a \in Range(file[i]) : a <= lo[i]
    BY <1>1, <1>2 DEF InvAt, OrderInv, Unwritten, Written
  <2> DEFINE w == Stretch(lo[i], n)
  <2>3. /\ Range(w) = W /\ file[i] \o w \in Seq(Nat)
        /\ Range(file[i] \o w) = Range(file[i]) \cup W /\ Copied!InLogOrder(file[i] \o w)
    <3> HIDE DEF PerformWrite
    <3> QED
      BY ONLY <2>1, <2>2, n \in Nat, AppendRecords
  <2>4. file' = [file EXCEPT ![i] = file[i] \o w]
        /\ lost' = [lost EXCEPT ![i] = @ \cup (Iov(i) \ Range(w))]
    OBVIOUS
  <2> HIDE DEF w, PerformWrite
  <2>5. file'[i] = file[i] \o w /\ file' \in [Instances -> Files]
    BY <1>1, <2>3, <2>4 DEF TypeOK, Files
  <2> QED
    BY <2>3, <2>4, <2>5 DEF Written
<1>5. UNCHANGED <<kernelVars, iovVars, retry, fdVars, expired, base, lastRead, failed>>
      /\ Answer(i, "write", res)
  OBVIOUS
<1>6. ASSUME NEW j \in Instances, j # i PROVE InvAt(j)'
  <2>1. SameContext(j) /\ expired' = expired
    BY <1>6 DEF IInv, TypeOK, SameContext, Answer, kernelVars, iovVars, fdVars, historyVars
  <2> QED
    BY <2>1, SameContextKeepsInv DEF IInv
<1> HIDE DEF PerformWrite
<1>7. TypeOK'
  BY <1>1, <1>4, <1>5
     DEF TypeOK, Answer, Request, Ops, Results, Iov, kernelVars, iovVars, fdVars
<1>8. ChainInv(i)' /\ LengthInv(i)' /\ DrainInv(i)'
  BY <1>1, <1>2, <1>3, <1>5
     DEF InvAt, ChainInv, LengthInv, DrainInv, Request, kernelVars, iovVars, fdVars
<1>9. OrderInv(i)'
  <2>1. \A a \in Written(i) : a \in Nat
    BY <1>1, WrittenNat
  <2> QED
    BY <1>1, <1>2, <1>3, <1>4, <1>5, <2>1
       DEF TypeOK, InvAt, OrderInv, Unwritten, Request, kernelVars, iovVars
<1>10. KeepInv(i)'
  BY <1>1, <1>2, <1>3, <1>4, <1>5
     DEF TypeOK, InvAt, KeepInv, Unwritten, Iov, Ring, Request, kernelVars, iovVars
<1> QED
  BY <1>6, <1>7, <1>8, <1>9, <1>10 DEF IInv, InvAt

LEMMA RecordEventsInv ==
  ASSUME IInv, NEW i \in Instances, NEW out \in FdState, RecordEvents(i, out), out # "none"
  PROVE  IInv'
<1> USE DEF RecordEvents, Submit
<1>1. TypeOK'
  BY DEF IInv, TypeOK, Request, Ops, Results, kernelVars, iovVars, historyVars
<1>2. ASSUME NEW j \in Instances, j # i PROVE InvAt(j)'
  <2>1. SameContext(j) /\ expired' = expired
    BY <1>2 DEF IInv, TypeOK, SameContext, RecordEvents, kernelVars, iovVars, fdVars, historyVars
  <2> QED
    BY <2>1, SameContextKeepsInv DEF IInv
<1>3. InvAt(i)
  BY DEF IInv
<1>4. reqs[i] = {} /\ reqs'[i] = {Request("open", "queued")}
  BY <1>3 DEF IInv, TypeOK, InvAt, ChainInv
<1> QED
  BY <1>1, <1>2, <1>3, <1>4
     DEF IInv, TypeOK, InvAt, ChainInv, LengthInv, OrderInv, KeepInv, DrainInv, Unwritten, Written, Iov, Ring,
         Request, kernelVars, iovVars, historyVars

LEMMA OnOpenInv ==
  ASSUME IInv, NEW i \in Instances, NEW res \in Results, OnOpen(i, res)
  PROVE  IInv'
<1>1. TypeOK'
  BY DEF IInv, TypeOK, OnOpen, Consume, ConsumeAndSubmit, Request, Ops, Results, FdState,
         kernelVars, iovVars
<1>2. ASSUME NEW j \in Instances, j # i PROVE InvAt(j)'
  <2>1. SameContext(j) /\ expired' = expired
    BY <1>2 DEF IInv, TypeOK, SameContext, OnOpen, Consume, ConsumeAndSubmit, kernelVars, iovVars, fdVars, historyVars
  <2> QED
    BY <2>1, SameContextKeepsInv DEF IInv
<1>3. InvAt(i)
  BY DEF IInv
<1>4. reqs[i] = {Request("open", res)} /\ res # "queued"
  BY <1>3, CallbackLeaves DEF IInv, InvAt, OnOpen, Deliver
<1>5. fdOut[i] # "none" /\ fdIn[i] = "none" /\ ~retry[i] /\ res \in {"ok", "error"}
  <2>1. ChainInv(i) /\ Request("open", res) \in reqs[i]
    BY <1>3, <1>4 DEF InvAt
  <2>2. fdIn[i] = "none" /\ res \in {"queued", "ok", "error"}
    BY <2>1 DEF ChainInv, Request
  <2>3. fdOut[i] # "none" /\ ~retry[i]
    BY <2>1 DEF ChainInv
  <2> QED
    BY <1>4, <2>2, <2>3
<1>6. /\ kernelVars' = kernelVars /\ iovVars' = iovVars /\ file' = file /\ retry' = retry
      /\ fdOut' = fdOut /\ base' = base /\ lost' = lost /\ lastRead' = lastRead
  BY DEF OnOpen
<1>7. \/ reqs'[i] = {} /\ fdIn'[i] = "none"
      \/ reqs'[i] = {Request("read", "queued")} /\ fdIn'[i] = "open"
  BY <1>3, <1>5, CallbackLeaves DEF IInv, TypeOK, InvAt, OnOpen
<1>8. ChainInv(i)'
  BY <1>5, <1>6, <1>7 DEF ChainInv, Request
<1>9. LengthInv(i)' /\ OrderInv(i)'
  BY <1>3, <1>4, <1>5, <1>6, <1>7
     DEF InvAt, LengthInv, OrderInv, Unwritten, Written, Request, kernelVars, iovVars
<1>10. KeepInv(i)' /\ DrainInv(i)'
  BY <1>3, <1>4, <1>5, <1>6, <1>7
     DEF InvAt, KeepInv, DrainInv, Unwritten, Written, Iov, Ring, Request, kernelVars, iovVars
<1> QED
  BY <1>1, <1>2, <1>8, <1>9, <1>10 DEF IInv, InvAt

(* A context is closed only when there is nothing left to write, and, with *)
(* no error, only by a read that found the ring empty.                     *)
LEMMA OnReadInv ==
  ASSUME IInv, NEW i \in Instances, NEW res \in Results, OnRead(i, res)
  PROVE  IInv'
<1> USE DEF OnRead, WriteOut
<1>1. TypeOK'
  <2>1. hi[i] - lo[i] \in Nat
    BY DEF IInv, TypeOK, InvAt, OrderInv
  <2>2. iovLen' \in [Instances -> Nat] /\ retry' \in [Instances -> BOOLEAN]
    BY <2>1 DEF IInv, TypeOK
  <2>3. reqs' \in [Instances -> SUBSET [op : Ops, res : Results]]
    BY DEF IInv, TypeOK, Consume, ConsumeAndSubmit, Request, Ops, Results
  <2>4. fdIn' \in [Instances -> FdState] /\ fdOut' \in [Instances -> FdState]
    BY DEF IInv, TypeOK, CloseFiles, FdState, fdVars
  <2> QED
    BY <2>2, <2>3, <2>4 DEF IInv, TypeOK, kernelVars
<1>2. ASSUME NEW j \in Instances, j # i PROVE InvAt(j)'
  <2>1. SameContext(j) /\ expired' = expired
    BY <1>2 DEF IInv, TypeOK, SameContext, OnRead, WriteOut, CloseFiles, Consume, ConsumeAndSubmit, kernelVars, iovVars, fdVars, historyVars
  <2> QED
    BY <2>1, SameContextKeepsInv DEF IInv
<1>3. InvAt(i)
  BY DEF IInv
<1>4. reqs[i] = {Request("read", res)} /\ Deliver(i, "read", res)
  BY <1>3, CallbackLeaves DEF IInv, InvAt
<1>5. fdIn[i] = "open" /\ fdOut[i] # "none" /\ ~retry[i] /\ res \in {"ok", "eagain", "error"}
  BY <1>3, <1>4 DEF InvAt, ChainInv, Request, Deliver
<1>6. /\ kernelVars' = kernelVars /\ lo' = lo /\ hi' = hi /\ file' = file /\ expired' = expired
      /\ base' = base /\ lost' = lost /\ lastRead' = lastRead
  BY DEF kernelVars
<1>7. CASE StopsReading(res)
  <2>1. /\ reqs'[i] = {} /\ fdIn'[i] = "closed" /\ fdOut'[i] = "closed"
        /\ iovLen' = iovLen /\ retry' = retry
        /\ i \in failed' \/ (res = "eagain" /\ expired)
    BY <1>3, <1>5, <1>7, CallbackLeaves
       DEF IInv, TypeOK, InvAt, CloseFiles, StopsReading
  <2>2. ChainInv(i)' /\ LengthInv(i)'
    BY <1>3, <1>5, <1>6, <2>1 DEF InvAt, ChainInv, LengthInv, Request
  <2>3. OrderInv(i)' /\ KeepInv(i)'
    BY <1>3, <1>4, <1>5, <1>6, <1>7, <2>1
       DEF InvAt, OrderInv, KeepInv, Unwritten, Written, Iov, Ring, Request, StopsReading, kernelVars
  <2>4. DrainInv(i)'
    BY <1>3, <1>4, <1>6, <2>1 DEF InvAt, DrainInv, Request, kernelVars
  <2> QED
    BY <1>1, <1>2, <2>2, <2>3, <2>4 DEF IInv, InvAt
<1>8. CASE res = "eagain" /\ ~StopsReading(res)
  <2>1. reqs'[i] = {} /\ retry'[i] = TRUE /\ iovLen' = iovLen /\ fdVars' = fdVars
    BY <1>3, <1>4, <1>8, CallbackLeaves DEF IInv, TypeOK, InvAt
  <2> QED
    BY <1>1, <1>2, <1>3, <1>4, <1>5, <1>6, <2>1
       DEF IInv, InvAt, ChainInv, LengthInv, OrderInv, KeepInv, DrainInv, Unwritten, Written, Iov, Ring,
         Request, kernelVars, fdVars
<1>9. CASE res = "ok"
  <2>1. /\ reqs'[i] = {Request("write", "queued")} /\ retry' = retry /\ fdVars' = fdVars
        /\ iovLen'[i] = hi[i] - lo[i]
    BY <1>3, <1>4, <1>9, CallbackLeaves DEF IInv, TypeOK, InvAt, StopsReading
  <2>2. ChainInv(i)' /\ LengthInv(i)'
    BY <1>3, <1>5, <1>6, <2>1 DEF InvAt, ChainInv, LengthInv, Request, fdVars
  <2>3. OrderInv(i)' /\ KeepInv(i)'
    BY <1>3, <1>4, <1>6, <1>9, <2>1
       DEF InvAt, OrderInv, KeepInv, Unwritten, Written, Iov, Ring, Request, kernelVars
  <2>4. DrainInv(i)'
    BY <1>3, <1>5, <1>6, <2>1 DEF InvAt, DrainInv, Request, fdVars
  <2> QED
    BY <1>1, <1>2, <2>2, <2>3, <2>4 DEF IInv, InvAt
<1> QED
  BY <1>5, <1>7, <1>8, <1>9 DEF StopsReading

LEMMA OnWriteInv ==
  ASSUME IInv, NEW i \in Instances, NEW res \in Results, OnWrite(i, res)
  PROVE  IInv'
<1> USE DEF OnWrite, ReadOn
<1>1. TypeOK'
  <2>1. iovLen' \in [Instances -> Nat]
    BY BufAssumption DEF IInv, TypeOK
  <2>2. reqs' \in [Instances -> SUBSET [op : Ops, res : Results]]
    BY DEF IInv, TypeOK, Consume, ConsumeAndSubmit, Request, Ops, Results
  <2>3. fdIn' \in [Instances -> FdState] /\ fdOut' \in [Instances -> FdState]
    BY DEF IInv, TypeOK, CloseFiles, FdState, fdVars
  <2> QED
    BY <2>1, <2>2, <2>3 DEF IInv, TypeOK, kernelVars
<1>2. ASSUME NEW j \in Instances, j # i PROVE InvAt(j)'
  <2>1. SameContext(j) /\ expired' = expired
    BY <1>2 DEF IInv, TypeOK, SameContext, OnWrite, ReadOn, CloseFiles, Consume, ConsumeAndSubmit, kernelVars, iovVars, fdVars, historyVars
  <2> QED
    BY <2>1, SameContextKeepsInv DEF IInv
<1>3. InvAt(i)
  BY DEF IInv
<1>4. reqs[i] = {Request("write", res)} /\ Deliver(i, "write", res)
  BY <1>3, CallbackLeaves DEF IInv, InvAt
<1>5. fdIn[i] = "open" /\ fdOut[i] # "none" /\ ~retry[i] /\ res \in {"ok", "short", "error"}
  <2> HIDE DEF OnWrite, ReadOn
  <2> QED
    BY <1>3, <1>4 DEF InvAt, ChainInv, Request, Deliver
<1>6. CASE res = "error"
  <2>1. /\ reqs'[i] = {} /\ fdIn'[i] = "closed" /\ fdOut'[i] = "closed"
        /\ iovLen' = iovLen /\ i \in failed'
    BY <1>3, <1>6, CallbackLeaves DEF IInv, TypeOK, InvAt, CloseFiles
  <2> QED
    BY <1>1, <1>2, <1>3, <1>4, <1>5, <2>1
       DEF IInv, InvAt, ChainInv, LengthInv, OrderInv, KeepInv, DrainInv, Unwritten, Written, Iov, Ring,
         Request, kernelVars, Deliver
<1>7. CASE res # "error"
  <2>1. reqs'[i] = {Request("read", "queued")} /\ iovLen'[i] = BufRecords /\ fdVars' = fdVars
    BY <1>3, <1>4, <1>7, CallbackLeaves DEF IInv, TypeOK, InvAt
  <2>2. ChainInv(i)' /\ LengthInv(i)'
    BY <1>3, <1>5, <2>1, BufAssumption DEF InvAt, ChainInv, LengthInv, Request, fdVars
  <2>3. OrderInv(i)' /\ KeepInv(i)'
    BY <1>3, <1>4, <2>1
       DEF InvAt, OrderInv, KeepInv, Unwritten, Written, Iov, Ring, Request, kernelVars, Deliver
  <2>4. DrainInv(i)'
    BY <1>3, <1>5, <2>1 DEF InvAt, DrainInv, Request, fdVars
  <2> QED
    BY <1>1, <1>2, <2>2, <2>3, <2>4 DEF IInv, InvAt
<1> QED
  BY <1>6, <1>7

LEMMA OnRetryInv ==
  ASSUME IInv, NEW i \in Instances, OnRetry(i)
  PROVE  IInv'
<1> USE DEF OnRetry, Submit
<1>1. TypeOK'
  BY DEF IInv, TypeOK, Request, Ops, Results, kernelVars, iovVars, fdVars, historyVars
<1>2. ASSUME NEW j \in Instances, j # i PROVE InvAt(j)'
  <2>1. SameContext(j) /\ expired' = expired
    BY <1>2 DEF IInv, TypeOK, SameContext, OnRetry, kernelVars, iovVars, fdVars, historyVars
  <2> QED
    BY <2>1, SameContextKeepsInv DEF IInv
<1>3. InvAt(i)
  BY DEF IInv
<1>4. reqs[i] = {} /\ reqs'[i] = {Request("read", "queued")} /\ retry'[i] = FALSE
  BY <1>3 DEF IInv, TypeOK, InvAt, ChainInv
<1>5. fdIn[i] = "open" /\ fdOut[i] # "none"
  BY <1>3 DEF InvAt, ChainInv
<1> QED
  BY <1>1, <1>2, <1>3, <1>4, <1>5
     DEF IInv, InvAt, ChainInv, LengthInv, OrderInv, KeepInv, DrainInv, Unwritten, Written, Iov, Ring,
         Request, kernelVars, iovVars, fdVars, historyVars

LEMMA ExpireInv == IInv /\ Expire => IInv'
<1> SUFFICES ASSUME IInv, Expire PROVE IInv'
  OBVIOUS
<1>1. TypeOK'
  BY DEF IInv, TypeOK, Expire, kernelVars, iovVars, fdVars, historyVars
<1>2. ASSUME NEW j \in Instances PROVE InvAt(j)'
  <2>1. SameContext(j) /\ (expired => expired')
    BY DEF SameContext, Expire, kernelVars, iovVars, fdVars, historyVars
  <2> QED
    BY <2>1, SameContextKeepsInv DEF IInv
<1> QED
  BY <1>1, <1>2 DEF IInv

(* A new run sees what the ring holds, and nothing else of the run before. *)
LEMMA NewRunInv == IInv /\ NewRun => IInv'
<1> SUFFICES ASSUME IInv, NewRun PROVE IInv'
  OBVIOUS
<1>1. TypeOK'
  BY BufAssumption, NewFile DEF IInv, TypeOK, NewRun, FreshContexts, FdState, kernelVars
<1>2. ASSUME NEW i \in Instances PROVE InvAt(i)'
  <2>1. ChainInv(i)' /\ LengthInv(i)' /\ DrainInv(i)'
    BY BufAssumption DEF NewRun, FreshContexts, ChainInv, LengthInv, DrainInv, Request
  <2>2. OrderInv(i)' /\ KeepInv(i)'
    BY NewFile DEF IInv, TypeOK, InvAt, NewRun, FreshContexts, OrderInv, KeepInv, Unwritten, Written,
           Iov, Ring, Request, kernelVars
  <2> QED
    BY <2>1, <2>2 DEF InvAt
<1> QED
  BY <1>1, <1>2 DEF IInv

(* Every step keeps the invariant. *)
LEMMA StepInv == IInv /\ [Next]_vars => IInv'
<1> SUFFICES ASSUME IInv, [Next]_vars PROVE IInv'
  OBVIOUS
<1>1. CASE UNCHANGED vars
  <2>1. TypeOK'
    BY <1>1 DEF IInv, TypeOK, vars, kernelVars, iovVars, fdVars, historyVars
  <2>2. ASSUME NEW j \in Instances PROVE InvAt(j)'
    <3>1. SameContext(j) /\ expired' = expired
      BY <1>1 DEF SameContext, vars, kernelVars, iovVars, fdVars, historyVars
    <3> QED
      BY <3>1, SameContextKeepsInv DEF IInv
  <2> QED
    BY <2>1, <2>2 DEF IInv
<1>2. ASSUME NEW i \in Instances, Produce(i) PROVE IInv'
  BY <1>2, ProduceInv
<1>3. ASSUME NEW i \in Instances, PoolStep(i) PROVE IInv'
  <2>1. ASSUME NEW res \in Results, PerformOpen(i, res) PROVE IInv'
    BY <2>1, PerformOpenInv
  <2>2. ASSUME NEW res \in Results, PerformReadNothing(i, res) PROVE IInv'
    BY <2>2, PerformReadNothingInv
  <2>3. ASSUME NEW n \in 0 .. BufRecords, PerformReadData(i, n) PROVE IInv'
    BY <2>3, PerformReadDataInv
  <2>4. ASSUME NEW n \in 0 .. BufRecords, NEW res \in Results, PerformWrite(i, n, res)
        PROVE  IInv'
    <3>1. n \in Nat
      BY BufAssumption
    <3> QED
      BY <2>4, <3>1, PerformWriteInv
  <2> QED
    BY <1>3, <2>1, <2>2, <2>3, <2>4 DEF PoolStep
<1>4. ASSUME NEW i \in Instances, Callback(i) PROVE IInv'
  BY <1>4, OnOpenInv, OnReadInv, OnWriteInv, OnRetryInv DEF Callback
<1>5. ASSUME NEW i \in Instances, NEW out \in {"open", "error"}, RecordEvents(i, out)
      PROVE  IInv'
  BY <1>5, RecordEventsInv DEF FdState
<1>6. CASE Expire
  BY <1>6, ExpireInv
<1>7. CASE NewRun
  BY <1>7, NewRunInv
<1> QED
  BY <1>1, <1>2, <1>3, <1>4, <1>5, <1>6, <1>7 DEF Next

-----------------------------------------------------------------------------
(* The theorems.                                                           *)

(* The invariant holds in every state of the copy. *)
THEOREM Invariance == Spec => []IInv
<1>1. Init => IInv
  BY InitInv
<1>2. IInv /\ [Next]_vars => IInv'
  BY StepInv
<1> QED
  BY <1>1, <1>2, PTL DEF Spec

(* Every variable of event.c's contexts keeps to its type, whatever the    *)
(* callbacks and the pool do.                                              *)
THEOREM TypeCorrect == Spec => []TypeOK
<1>1. IInv => TypeOK
  BY DEF IInv
<1> QED
  BY <1>1, Invariance, PTL

(* The one `req' and the one timer of an event_ctx serve its whole chain   *)
(* of callbacks: never two requests, none while the retry timer runs, none *)
(* on a closed descriptor.                                                 *)
THEOREM OneOutstandingHolds == Spec => []OneOutstanding
<1>1. IInv => OneOutstanding
  BY DEF IInv, InvAt, ChainInv, OneOutstanding
<1> QED
  BY <1>1, Invariance, PTL

(* on_read and on_write shrink and restore event->iov.len in step: a write *)
(* takes what the last read brought, which no write has taken before.      *)
THEOREM BufferDisciplineHolds == Spec => []BufferDiscipline
<1>1. IInv => BufferDiscipline
  <2> SUFFICES ASSUME IInv, NEW i \in Instances
               PROVE  /\ retry[i] \/ Request("read", "queued") \in reqs[i]
                           => iovLen[i] = BufRecords
                      /\ Request("write", "queued") \in reqs[i] =>
                           /\ iovLen[i] = hi[i] - lo[i]
                           /\ Iov(i) # {}
                           /\ Iov(i) \cap Written(i) = {}
    BY DEF BufferDiscipline
  <2>1. InvAt(i)
    BY DEF IInv
  <2>2. ASSUME retry[i] PROVE iovLen[i] = BufRecords
    BY <2>1, <2>2 DEF InvAt, ChainInv, LengthInv
  <2>3. ASSUME Request("read", "queued") \in reqs[i] PROVE iovLen[i] = BufRecords
    <3>1. reqs[i] = {Request("read", "queued")}
      BY <2>1, <2>3, OnlyRequest DEF InvAt
    <3>2. fdIn[i] = "open"
      BY <2>1, <3>1 DEF InvAt, ChainInv, Request
    <3> QED
      BY <2>1, <3>1, <3>2 DEF InvAt, LengthInv, Request
  <2>4. ASSUME Request("write", "queued") \in reqs[i]
        PROVE  iovLen[i] = hi[i] - lo[i] /\ Iov(i) # {} /\ Iov(i) \cap Written(i) = {}
    BY <2>1, <2>4 DEF IInv, TypeOK, InvAt, LengthInv, OrderInv, Unwritten, Written, Iov
  <2> QED
    BY <2>2, <2>3, <2>4
<1> QED
  BY <1>1, Invariance, PTL

(* What a run could see is in the file, in the buffer or in the ring, save *)
(* what the ring overwrote and what a write left out.                      *)
THEOREM NoSilentLossHolds == Spec => []NoSilentLoss
<1>1. IInv => NoSilentLoss
  BY DEF IInv, InvAt, KeepInv, Written, NoSilentLoss
<1> QED
  BY <1>1, Invariance, PTL

(* A context that is closed with no error has written what it read up to   *)
(* its last read, and the recorder had expired.  The last read may be one  *)
(* from before the expiry that found the ring empty: what was produced     *)
(* after it, before or after the expiry, may be left in the ring.          *)
THEOREM DrainedAtCloseHolds == Spec => []DrainedAtClose
<1>1. IInv => DrainedAtClose
  BY DEF IInv, InvAt, ChainInv, KeepInv, DrainInv, Unwritten, Written, DrainedAtClose
<1> QED
  BY <1>1, Invariance, PTL

-----------------------------------------------------------------------------
(* The refinement.                                                         *)

(* What TraceCopy sees of a step that only moves the chain of callbacks. *)
LEMMA CopyStutters ==
  ASSUME produced' = produced, file' = file,
         \A j \in Instances : fdIn'[j] = "closed" <=> fdIn[j] = "closed"
  PROVE  UNCHANGED Copied!vars
  BY DEF Copied!vars

(* Closing the files of i ends its copy. *)
LEMMA CloseFinishes ==
  ASSUME TypeOK, NEW i \in Instances, CloseFiles(i), produced' = produced, file' = file
  PROVE  Copied!Finish(i)
<1>1. \A j \in Instances : fdIn'[j] = "closed" <=> fdIn[j] = "closed" \/ j = i
  BY DEF TypeOK, CloseFiles
<1> QED
  BY <1>1 DEF Copied!Finish

(* A write that a pool thread performs appends to the file what is later   *)
(* than everything in it.                                                  *)
LEMMA WriteCopies ==
  ASSUME IInv, NEW i \in Instances, NEW n \in Nat, NEW res \in Results, PerformWrite(i, n, res)
  PROVE  Copied!Copy(i)
<1>1. InvAt(i)
  BY DEF IInv
<1>2. Request("write", "queued") \in reqs[i]
  BY DEF PerformWrite, Answer
<1>3. fdIn[i] = "open"
  BY <1>1, <1>2 DEF InvAt, ChainInv, Request
<1>4. lo[i] \in Nat /\ hi[i] \in Nat /\ produced[i] \in Nat /\ file[i] \in Seq(Nat)
  BY DEF IInv, TypeOK, Files
<1>5. n <= hi[i] - lo[i] /\ hi[i] <= produced[i]
  BY <1>1, <1>2 DEF InvAt, LengthInv, OrderInv, PerformWrite, IInv, TypeOK
<1>6. \A a \in Range(file[i]) : a <= lo[i]
  BY <1>1, <1>2 DEF InvAt, OrderInv, Unwritten, Written
<1> DEFINE w == Stretch(lo[i], n)
<1>7. /\ Range(file[i] \o w) = Range(file[i]) \cup (lo[i] + 1 .. lo[i] + n)
      /\ Copied!InLogOrder(file[i] \o w)
      /\ Len(file[i]) <= Len(file[i] \o w)
      /\ \A m \in 1 .. Len(file[i]) : (file[i] \o w)[m] = file[i][m]
  <2>1. lo[i] \in Nat /\ file[i] \in Seq(Nat) /\ Copied!InLogOrder(file[i])
    BY <1>1, <1>4 DEF InvAt, OrderInv
  <2> QED
    BY ONLY <1>6, <2>1, n \in Nat, AppendRecords
<1>8. file' = [file EXCEPT ![i] = file[i] \o w] /\ produced' = produced /\ fdIn' = fdIn
  BY DEF PerformWrite, kernelVars, fdVars
<1> HIDE DEF w
<1>9. Range(file[i] \o w) \subseteq 1 .. produced[i]
  <2>1. \A a \in Range(file[i]) : a \in Nat /\ 1 <= a /\ a <= lo[i]
    BY <1>1, <1>6, WrittenNat DEF IInv, InvAt, OrderInv, Written
  <2> QED
    BY <1>4, <1>5, <1>7, <2>1
<1>10. file'[i] = file[i] \o w /\ file' = [file EXCEPT ![i] = file'[i]]
  BY <1>8 DEF IInv, TypeOK
<1>11. /\ i \notin {j \in Instances : fdIn[j] = "closed"}
       /\ UNCHANGED <<produced, {j \in Instances : fdIn[j] = "closed"}>>
  BY <1>3, <1>8
<1> QED
  BY <1>7, <1>9, <1>10, <1>11 DEF Copied!Copy, Copied!Range, Range

(* Every step of the copy is a step of TraceCopy or a stutter. *)
LEMMA StepCopies == IInv /\ [Next]_vars => [Copied!Next]_(Copied!vars)
<1> SUFFICES ASSUME IInv, [Next]_vars PROVE [Copied!Next]_(Copied!vars)
  OBVIOUS
<1>1. CASE UNCHANGED vars
  BY <1>1 DEF vars, kernelVars, fdVars, Copied!vars
<1>2. ASSUME NEW i \in Instances, Produce(i) PROVE Copied!Produce(i)
  BY <1>2 DEF Produce, fdVars, Copied!Produce
<1>3. ASSUME NEW i \in Instances, PoolStep(i)
      PROVE  Copied!Copy(i) \/ UNCHANGED Copied!vars
  <2>1. ASSUME NEW res \in Results, PerformOpen(i, res) \/ PerformReadNothing(i, res)
        PROVE  UNCHANGED Copied!vars
    BY <2>1, CopyStutters DEF PerformOpen, PerformReadNothing, kernelVars, fdVars
  <2>2. ASSUME NEW n, PerformReadData(i, n) PROVE UNCHANGED Copied!vars
    BY <2>2, CopyStutters DEF PerformReadData, fdVars
  <2>3. ASSUME NEW n \in 0 .. BufRecords, NEW res \in Results, PerformWrite(i, n, res)
        PROVE  Copied!Copy(i)
    <3>1. n \in Nat
      BY BufAssumption
    <3> QED
      BY <2>3, <3>1, WriteCopies
  <2> QED
    BY <1>3, <2>1, <2>2, <2>3 DEF PoolStep
<1>4. ASSUME NEW i \in Instances, Callback(i)
      PROVE  Copied!Finish(i) \/ UNCHANGED Copied!vars
  <2>1. ASSUME NEW res \in Results, OnOpen(i, res) PROVE UNCHANGED Copied!vars
    <3>1. ChainInv(i) /\ Request("open", res) \in reqs[i]
      BY <2>1 DEF IInv, InvAt, OnOpen, Deliver
    <3>2. fdIn[i] = "none"
      BY <3>1 DEF ChainInv, Request
    <3>3. \A j \in Instances : fdIn'[j] = "closed" <=> fdIn[j] = "closed"
      BY <2>1, <3>2 DEF IInv, TypeOK, OnOpen
    <3> QED
      BY <2>1, <3>3, CopyStutters DEF OnOpen, kernelVars
  <2>2. ASSUME NEW res \in Results, OnRead(i, res)
        PROVE  Copied!Finish(i) \/ UNCHANGED Copied!vars
    BY <2>2, CloseFinishes, CopyStutters DEF IInv, OnRead, kernelVars, fdVars
  <2>3. ASSUME NEW res \in Results, OnWrite(i, res)
        PROVE  Copied!Finish(i) \/ UNCHANGED Copied!vars
    BY <2>3, CloseFinishes, CopyStutters DEF IInv, OnWrite, kernelVars, fdVars
  <2>4. ASSUME OnRetry(i) PROVE UNCHANGED Copied!vars
    BY <2>4, CopyStutters DEF OnRetry, kernelVars, fdVars
  <2> QED
    BY <1>4, <2>1, <2>2, <2>3, <2>4 DEF Callback
<1>5. ASSUME NEW i \in Instances, NEW out, RecordEvents(i, out)
      PROVE  UNCHANGED Copied!vars
  BY <1>5, CopyStutters DEF RecordEvents, kernelVars
<1>6. CASE Expire
  BY <1>6, CopyStutters DEF Expire, kernelVars, fdVars
<1>7. CASE NewRun
  BY <1>7 DEF NewRun, FreshContexts, kernelVars, Copied!NewRun, Copied!Next
<1> QED
  BY <1>1, <1>2, <1>3, <1>4, <1>5, <1>6, <1>7 DEF Next, Copied!Next

(* The callbacks of event.c copy each trace in order and at most once: the *)
(* chain of reads and writes implements TraceCopy.                         *)
THEOREM CopyImplementsTraceCopy == Spec => CopySpec
<1>1. Init => Copied!Init
  BY DEF Init, FreshContexts, Copied!Init
<1>2. IInv /\ [Next]_vars => [Copied!Next]_(Copied!vars)
  BY StepCopies
<1> QED
  BY <1>1, <1>2, Invariance, PTL DEF Spec, CopySpec, Copied!Spec

=============================================================================
