------------------------- MODULE TracedThreadProofs -------------------------
(***************************************************************************)
(* Proofs about TracedThread: what the analyzer makes of a trace is what   *)
(* the thread did, for every length of the trace.                          *)
(*                                                                         *)
(* The argument has two halves.  While the kernel runs, each record is     *)
(* tied to what the thread did since its switch before (KernelInv, and     *)
(* WakeInv for wake-ups).  While the analyzer reads, its state is tied to  *)
(* the last record it took notice of (PlaceInv), and each segment but the  *)
(* one that starts at the time BreakIntoSegments began with is made        *)
(* between two records the first half speaks of.                           *)
(***************************************************************************)
EXTENDS TracedThread, WellFoundedInduction, TLAPS

-----------------------------------------------------------------------------
(* Records.                                                                *)

OwnIn(r)  == r.type = "switch_to" /\ r.prev # Pid /\ r.next = Pid
OwnOut(r) == r.type = "switch_to" /\ r.prev = Pid
Own(r)    == OwnIn(r) \/ OwnOut(r)
Wake(r)   == r.type = "try_to_wake_up" /\ r.next = Pid

(* The records whose stamp can be trusted. *)
Stamped == {r \in Range(trace) : r.type # "do_exit"}

(* Among the records R, no switch of the thread is from a to b, and one of *)
(* its wake-ups is after a and not after b.                                *)
Still(R, a, b)   == \A q \in R : Own(q) => q.time < a \/ b < q.time
WokenIn(R, a, b) == \E w \in R : Wake(w) /\ a < w.time /\ w.time <= b

(* r is the last switch of the thread up to t. *)
Latest(R, r, t) == r \in R /\ Own(r) /\ r.time <= t /\ Still(R, r.time + 1, t)

LEMMA RecordFields ==
  ASSUME NEW r \in Analyzer!Switch
  PROVE  /\ r.type \in Analyzer!EventTypes /\ r.time \in Nat /\ r.cpu \in CPUs
         /\ r.prev \in Nat /\ r.next \in Nat /\ r.prevState \in {0, 1}
         /\ r.ctx \in 0 .. Analyzer!PROCESS
  BY DEF Analyzer!Switch

LEMMA SoftFields ==
  ASSUME NEW s \in Analyzer!Soft
  PROVE  s.cpu \in CPUs /\ s.stime \in Nat /\ s.etime \in Nat
  BY DEF Analyzer!Soft

LEMMA Inserted ==
  ASSUME NEW S, NEW s \in Seq(S), NEW e \in S, NEW p \in 1 .. Len(s) + 1
  PROVE  /\ InsertAt(s, p, e) \in Seq(S)
         /\ Len(InsertAt(s, p, e)) = Len(s) + 1
         /\ \A i \in 1 .. Len(s) + 1 :
              InsertAt(s, p, e)[i] = IF i < p THEN s[i] ELSE IF i = p THEN e ELSE s[i - 1]
  <1> DEFINE front == SubSeq(s, 1, p - 1)
             back  == SubSeq(s, p, Len(s))
  <1>1. /\ front \in Seq(S) /\ Len(front) = p - 1
        /\ \A i \in 1 .. p - 1 : front[i] = s[i]
    OBVIOUS
  <1>2. /\ back \in Seq(S) /\ Len(back) = Len(s) - p + 1
        /\ \A i \in 1 .. Len(s) - p + 1 : back[i] = s[p + i - 1]
    OBVIOUS
  <1> HIDE DEF front, back
  <1>3. /\ front \o <<e>> \in Seq(S) /\ Len(front \o <<e>>) = p
        /\ \A i \in 1 .. p : (front \o <<e>>)[i] = IF i < p THEN s[i] ELSE e
    BY <1>1
  <1>4. InsertAt(s, p, e) = (front \o <<e>>) \o back
    BY DEF InsertAt, front, back
  <1> DEFINE head == front \o <<e>>
  <1> HIDE DEF head
  <1>5. /\ head \o back \in Seq(S) /\ Len(head \o back) = Len(s) + 1
        /\ \A i \in 1 .. Len(s) + 1 : (head \o back)[i] = IF i <= p THEN head[i] ELSE back[i - p]
    BY <1>2, <1>3 DEF head
  <1>6. ASSUME NEW i \in 1 .. Len(s) + 1
        PROVE  (head \o back)[i] = IF i < p THEN s[i] ELSE IF i = p THEN e ELSE s[i - 1]
    <2>1. CASE i <= p
      BY <1>3, <1>5, <2>1 DEF head
    <2>2. CASE i > p
      <3>1. i - p \in 1 .. Len(s) - p + 1
        BY <2>2
      <3>2. back[i - p] = s[p + (i - p) - 1]
        BY <1>2, <3>1
      <3>3. p + (i - p) - 1 = i - 1
        BY <2>2
      <3> QED BY <1>5, <2>2, <3>2, <3>3
    <2>3. i <= p \/ i > p
      OBVIOUS
    <2> QED BY <2>1, <2>2, <2>3
  <1> QED BY <1>4, <1>5, <1>6 DEF head

-----------------------------------------------------------------------------
(* Types.                                                                  *)

LEMMA RecordTyped ==
  ASSUME TypeOK, now < MaxTime, NEW type \in Analyzer!EventTypes, NEW c \in CPUs,
         NEW prev \in Nat, NEW next \in Nat, NEW prevState \in {0, 1},
         NEW ctx \in 0 .. Analyzer!PROCESS
  PROVE  Record(type, c, prev, next, prevState, ctx) \in Analyzer!Switch
  BY DEF Record, Analyzer!Switch, TypeOK

LEMMA ContextTyped == Contexts \subseteq 0 .. Analyzer!PROCESS
  BY SoftNrAssumption DEF Contexts, Analyzer!PROCESS, Analyzer!HARDIRQ

LEMMA TruthTyped ==
  ASSUME TypeOK
  PROVE  Truth \in {"absent", "running", "displaced", "runnable", "blocked"}
  BY DEF TypeOK, Truth, OnCpu, OffCpu

LEMMA LogTyped ==
  ASSUME TypeOK, NEW e \in Analyzer!Switch, Log(e)
  PROVE  /\ trace' \in Seq(Analyzer!Switch) /\ trace' # <<>>
         /\ Range(trace') = Range(trace) \cup {e}
  <1>1. PICK p \in 1 .. Len(trace) + 1 : trace' = InsertAt(trace, p, e)
    BY DEF Log
  <1>2. trace \in Seq(Analyzer!Switch)
    BY DEF TypeOK
  <1>3. /\ trace' \in Seq(Analyzer!Switch) /\ Len(trace') = Len(trace) + 1
        /\ \A i \in 1 .. Len(trace) + 1 :
             trace'[i] = IF i < p THEN trace[i] ELSE IF i = p THEN e ELSE trace[i - 1]
    BY <1>1, <1>2, Inserted, SMTT(30)
  <1>4. Range(trace') \subseteq Range(trace) \cup {e}
    <2>1. SUFFICES ASSUME NEW i \in 1 .. Len(trace) + 1
                   PROVE  trace'[i] = e \/ \E j \in DOMAIN trace : trace'[i] = trace[j]
      BY <1>2, <1>3 DEF Range
    <2>2. CASE i < p
      BY <1>2, <1>3, <2>2
    <2>3. CASE i = p
      BY <1>3, <2>3
    <2>4. CASE i > p
      <3>1. i - 1 \in DOMAIN trace
        BY <1>2, <2>4
      <3> QED BY <1>3, <2>4, <3>1
    <2> QED BY <2>2, <2>3, <2>4
  <1>5. e \in Range(trace')
    <2>1. p \in DOMAIN trace' /\ trace'[p] = e
      BY <1>2, <1>3
    <2> QED BY <2>1 DEF Range
  <1>6. ASSUME NEW j \in DOMAIN trace PROVE trace[j] \in Range(trace')
    <2>1. CASE j < p
      <3>1. j \in DOMAIN trace' /\ trace'[j] = trace[j]
        BY <1>2, <1>3, <2>1
      <3> QED BY <3>1 DEF Range
    <2>2. CASE j >= p
      <3>1. j + 1 \in 1 .. Len(trace) + 1 /\ ~(j + 1 < p) /\ j + 1 # p /\ (j + 1) - 1 = j
        BY <1>2, <2>2
      <3>2. j + 1 \in DOMAIN trace' /\ trace'[j + 1] = trace[j]
        BY <1>3, <3>1
      <3> QED BY <3>2 DEF Range
    <2> QED BY <1>2, <2>1, <2>2
  <1>7. trace' # <<>>
    BY <1>2, <1>3
  <1> QED BY <1>3, <1>4, <1>5, <1>6, <1>7 DEF Range

(* The steps of the kernel, and what they log.                             *)
KernelStep ==
  \/ Create \/ Exit
  \/ \E prevState \in {0, 1} : SwitchOut(prevState)
  \/ \E ctx \in Contexts : WakeUp(ctx) \/ NeedlessWakeUp(ctx) \/ MisleadingWakeUp(ctx)
  \/ \E c \in CPUs : SwitchIn(c) \/ OtherSwitch(c) \/ SoftirqBegin(c) \/ SoftirqEnd(c)

ExitRecord(stamp) ==
  [Record("do_exit", cpu, Pid, 0, 0, Analyzer!PROCESS) EXCEPT !.time = stamp]
InRecord(c)  == Record("switch_to", c, Waker, Pid, 0, Analyzer!PROCESS)
OutRecord(s) == Record("switch_to", cpu, Pid, Waker, s, Analyzer!PROCESS)
OtherRecord(c) == Record("switch_to", c, Waker, 0, 0, Analyzer!PROCESS)
NewRecord    == Record("wake_up_new_task", cpu, Waker, Pid, 0, Analyzer!PROCESS)
WakeRecord(ctx) == Record("try_to_wake_up", cpu, Waker, Pid, 0, ctx)

LEMMA RecordsTyped ==
  ASSUME TypeOK, now < MaxTime
  PROVE  /\ NewRecord \in Analyzer!Switch
         /\ \A c \in CPUs : InRecord(c) \in Analyzer!Switch /\ OtherRecord(c) \in Analyzer!Switch
         /\ \A s \in {0, 1} : OutRecord(s) \in Analyzer!Switch
         /\ \A ctx \in Contexts : WakeRecord(ctx) \in Analyzer!Switch
         /\ \A stamp \in StaleStamps : ExitRecord(stamp) \in Analyzer!Switch
  <1> USE PidAssumption, WakerAssumption, StampsAssumption, ContextTyped
  <1>1. now + 1 \in Nat /\ cpu \in CPUs
    BY DEF TypeOK
  <1>2. NewRecord \in Analyzer!Switch
    BY <1>1 DEF NewRecord, Record, Analyzer!Switch, Analyzer!EventTypes, Analyzer!PROCESS
  <1>3. ASSUME NEW c \in CPUs
        PROVE  InRecord(c) \in Analyzer!Switch /\ OtherRecord(c) \in Analyzer!Switch
    BY <1>1 DEF InRecord, OtherRecord, Record, Analyzer!Switch, Analyzer!EventTypes, Analyzer!PROCESS
  <1>4. ASSUME NEW s \in {0, 1} PROVE OutRecord(s) \in Analyzer!Switch
    BY <1>1 DEF OutRecord, Record, Analyzer!Switch, Analyzer!EventTypes, Analyzer!PROCESS
  <1>5. ASSUME NEW ctx \in Contexts PROVE WakeRecord(ctx) \in Analyzer!Switch
    BY <1>1 DEF WakeRecord, Record, Analyzer!Switch, Analyzer!EventTypes, Analyzer!PROCESS
  <1>6. ASSUME NEW stamp \in StaleStamps PROVE ExitRecord(stamp) \in Analyzer!Switch
    BY <1>1 DEF ExitRecord, Record, Analyzer!Switch, Analyzer!EventTypes, Analyzer!PROCESS
  <1> QED BY <1>2, <1>3, <1>4, <1>5, <1>6

LEMMA TickTyped ==
  ASSUME TypeOK, Tick
  PROVE  /\ now' = now + 1 /\ now' \in 1 .. MaxTime /\ now < MaxTime
         /\ truth' \in Seq({"absent", "running", "displaced", "runnable", "blocked"})
         /\ truth' = Append(truth, Truth) /\ Analyzer!TypeOK' /\ UNCHANGED analyzerVars
  <1>1. Analyzer!TypeOK'
    BY DEF TypeOK, Tick, analyzerVars, Analyzer!TypeOK
  <1>2. truth' \in Seq({"absent", "running", "displaced", "runnable", "blocked"})
    <2>1. truth' = Append(truth, Truth)
      BY DEF Tick
    <2> HIDE DEF Truth
    <2> QED BY <2>1, TruthTyped DEF TypeOK
  <1> QED BY <1>1, <1>2, MaxTimeAssumption DEF TypeOK, Tick

KernelTypes ==
  /\ doing \in OnCpu \cup OffCpu /\ cpu \in CPUs
  /\ began \in [CPUs -> 0 .. MaxTime]
  /\ trace \in Seq(Analyzer!Switch) /\ softTrace \subseteq Analyzer!Soft
  /\ woken \subseteq (1 .. MaxTime) \X Int

LEMMA KernelTyped ==
  ASSUME TypeOK, KernelStep
  PROVE  TypeOK'
  <1>1. Tick
    BY DEF KernelStep, Create, Exit, SwitchOut, WakeUp, NeedlessWakeUp, MisleadingWakeUp,
           SwitchIn, OtherSwitch, SoftirqBegin, SoftirqEnd
  <1>2. SUFFICES KernelTypes'
    BY <1>1, TickTyped DEF TypeOK, KernelTypes
  <1> USE RecordsTyped, LogTyped, <1>1, TickTyped DEF OnCpu, OffCpu, KernelTypes
  <1>3. CASE Create
    BY <1>3 DEF Create, TypeOK, NewRecord
  <1>4. CASE Exit
    BY <1>4 DEF Exit, TypeOK, ExitRecord
  <1>5. ASSUME NEW s \in {0, 1}, SwitchOut(s) PROVE KernelTypes'
    BY <1>5 DEF SwitchOut, TypeOK, OutRecord
  <1>6. ASSUME NEW ctx \in Contexts, WakeUp(ctx) PROVE KernelTypes'
    <2>1. By(ctx) \in Int
      BY ContextTyped, WakerAssumption DEF By, Analyzer!PROCESS
    <2> QED BY <1>6, <2>1, SMTT(30) DEF WakeUp, LogWakeUp, TypeOK, WakeRecord
  <1>7. ASSUME NEW ctx \in Contexts, NeedlessWakeUp(ctx) PROVE KernelTypes'
    BY <1>7 DEF NeedlessWakeUp, LogWakeUp, TypeOK, WakeRecord
  <1>8. ASSUME NEW ctx \in Contexts, MisleadingWakeUp(ctx) PROVE KernelTypes'
    BY <1>8 DEF MisleadingWakeUp, LogWakeUp, TypeOK, WakeRecord
  <1>9. ASSUME NEW c \in CPUs, SwitchIn(c) PROVE KernelTypes'
    BY <1>9 DEF SwitchIn, TypeOK, InRecord
  <1>10. ASSUME NEW c \in CPUs, OtherSwitch(c) PROVE KernelTypes'
    BY <1>10 DEF OtherSwitch, TypeOK, OtherRecord
  <1>11. ASSUME NEW c \in CPUs, SoftirqBegin(c) PROVE KernelTypes'
    BY <1>11 DEF SoftirqBegin, TypeOK
  <1>12. ASSUME NEW c \in CPUs, SoftirqEnd(c) PROVE KernelTypes'
    <2>1. [cpu |-> c, stime |-> began[c], etime |-> now + 1] \in Analyzer!Soft
      BY DEF TypeOK, Analyzer!Soft
    <2>2. [began EXCEPT ![c] = 0] \in [CPUs -> 0 .. MaxTime]
      BY MaxTimeAssumption DEF TypeOK
    <2>3. KernelTypes
      BY DEF TypeOK, KernelTypes
    <2> QED BY ONLY <1>12, <2>1, <2>2, <2>3 DEF SoftirqEnd, KernelTypes
  <1> QED BY <1>3, <1>4, <1>5, <1>6, <1>7, <1>8, <1>9, <1>10, <1>11, <1>12 DEF KernelStep

-----------------------------------------------------------------------------
(* The analyzer's data.                                                    *)

(* A set of numbers that is not empty has a least one.                     *)
LEMMA LeastExists ==
  ASSUME NEW S \in SUBSET Nat, S # {}
  PROVE  \E m \in S : \A l \in S : m <= l
  <1>1. PICK m \in S : \A l \in S : ~(<<l, m>> \in OpToRel(<, Nat))
    BY NatLessThanWellFounded, WFMin
  <1>2. ASSUME NEW l \in S PROVE m <= l
    <2>1. ~(l < m)
      BY <1>1 DEF OpToRel
    <2> QED BY <2>1
  <1> QED BY <1>2

LEMMA LastExists ==
  ASSUME NEW N \in Nat, NEW S \in SUBSET (1 .. N), S # {}
  PROVE  \E m \in S : \A l \in S : l <= m
  <1> DEFINE T == {N - m : m \in S}
  <1>1. T \in SUBSET Nat /\ T # {}
    <2>1. \A m \in S : N - m \in Nat
      OBVIOUS
    <2> QED BY <2>1
  <1>2. PICK d \in T : \A e \in T : d <= e
    BY <1>1, LeastExists
  <1>3. PICK m \in S : d = N - m
    OBVIOUS
  <1>4. ASSUME NEW l \in S PROVE l <= m
    <2>1. N - l \in T
      OBVIOUS
    <2>2. d <= N - l
      BY <1>2, <2>1
    <2> QED BY <1>3, <2>2
  <1> QED BY <1>4

LEMMA PrevStateTyped ==
  ASSUME NEW sl \in Seq(Analyzer!Switch), sl # <<>>
  PROVE  /\ Analyzer!GetPrevState(sl).time \in Nat /\ Analyzer!TraceEtime(sl) \in Nat
         /\ Analyzer!GetPrevState(sl).state = "-1"
         /\ Analyzer!GetPrevState(sl) = Analyzer!Unknown(Analyzer!GetPrevState(sl).time)
         /\ Analyzer!Exits(sl) # {} => Analyzer!GetPrevState(sl).time = Analyzer!ExitTime(sl)
         /\ Analyzer!Exits(sl) = {} => Analyzer!GetPrevState(sl).time = Analyzer!TraceEtime(sl)
  <1>1. Analyzer!TraceEtime(sl) \in Nat
    <2>1. sl[Len(sl)] \in Analyzer!Switch
      OBVIOUS
    <2> QED BY <2>1, RecordFields DEF Analyzer!TraceEtime
  <1>2. ASSUME Analyzer!Exits(sl) # {} PROVE Analyzer!ExitTime(sl) \in Nat
    <2>1. Analyzer!Exits(sl) \in SUBSET (1 .. Len(sl)) /\ Len(sl) \in Nat
      BY DEF Analyzer!Exits
    <2>2. \E m \in Analyzer!Exits(sl) : \A l \in Analyzer!Exits(sl) : l <= m
      BY <1>2, <2>1, LastExists
    <2> DEFINE last == CHOOSE m \in Analyzer!Exits(sl) : \A l \in Analyzer!Exits(sl) : l <= m
    <2>3. last \in Analyzer!Exits(sl)
      BY <2>2
    <2>4. sl[last] \in Analyzer!Switch
      BY <2>1, <2>3
    <2>5. Analyzer!ExitTime(sl) = sl[last].time
      BY DEF Analyzer!ExitTime
    <2> QED BY <2>4, <2>5, RecordFields
  <1> QED BY <1>1, <1>2 DEF Analyzer!GetPrevState, Analyzer!Unknown

SegTypes(map) ==
  DOMAIN map \subseteq Nat /\ \A t \in DOMAIN map : map[t] \in Analyzer!Segment /\ map[t].stime = t

LEMMA SegTyped ==
  ASSUME NEW state \in Analyzer!States, NEW b \in Nat, NEW e \in Nat, NEW w \in Int
  PROVE  /\ Analyzer!Seg(state, b, e, w) \in Analyzer!Segment
         /\ Analyzer!Seg(state, b, e, w).state = state
         /\ Analyzer!Seg(state, b, e, w).stime = b
         /\ Analyzer!Seg(state, b, e, w).etime = e
         /\ Analyzer!Seg(state, b, e, w).waitFor = w
  BY DEF Analyzer!Seg, Analyzer!Segment

LEMMA PutIs ==
  ASSUME NEW map, NEW seg
  PROVE  /\ DOMAIN Analyzer!Put(map, seg) = DOMAIN map \cup {seg.stime}
         /\ Analyzer!Put(map, seg)[seg.stime] = seg
         /\ \A t \in DOMAIN map : t # seg.stime => Analyzer!Put(map, seg)[t] = map[t]
  BY DEF Analyzer!Put

LEMMA PutTyped ==
  ASSUME NEW map, SegTypes(map), NEW seg \in Analyzer!Segment
  PROVE  SegTypes(Analyzer!Put(map, seg))
  <1>1. seg.stime \in Nat
    BY DEF Analyzer!Segment
  <1> DEFINE new == Analyzer!Put(map, seg)
  <1>2. /\ DOMAIN new = DOMAIN map \cup {seg.stime} /\ new[seg.stime] = seg
        /\ \A t \in DOMAIN map : t # seg.stime => new[t] = map[t]
    BY DEF Analyzer!Put
  <1> HIDE DEF new
  <1>3. SegTypes(new)
    BY <1>1, <1>2 DEF SegTypes
  <1> QED BY <1>3 DEF new

(* What Ran does to the map: one segment, or three around a softirq.        *)
Inside(sw) ==
  {s \in Analyzer!GetCeilingSoft(sw.cpu, ps.time) : s.stime < sw.time /\ s.etime < sw.time}

SplitAround(s, new, p, end) ==
  /\ DOMAIN new = DOMAIN segs \cup {p, s.stime, s.etime}
  /\ \A k \in DOMAIN segs : k \notin {p, s.stime, s.etime} => new[k] = segs[k]
  /\ new[s.etime] = Analyzer!Seg("RUNNING", s.etime, end, Analyzer!NONE)
  /\ s.stime # s.etime =>
       new[s.stime] = Analyzer!Seg("RUNNABLE", s.stime, s.etime, Analyzer!NONE)
  /\ p \notin {s.stime, s.etime} =>
       new[p] = Analyzer!Seg("RUNNING", p, s.stime, Analyzer!NONE)

LEMMA SplitIs ==
  ASSUME NEW s, NEW p, NEW end
  PROVE  SplitAround(s,
           Analyzer!Put(Analyzer!Put(
             Analyzer!Put(segs, Analyzer!Seg("RUNNING", p, s.stime, Analyzer!NONE)),
             Analyzer!Seg("RUNNABLE", s.stime, s.etime, Analyzer!NONE)),
             Analyzer!Seg("RUNNING", s.etime, end, Analyzer!NONE)), p, end)
  <1> DEFINE one   == Analyzer!Seg("RUNNING", p, s.stime, Analyzer!NONE)
             two   == Analyzer!Seg("RUNNABLE", s.stime, s.etime, Analyzer!NONE)
             three == Analyzer!Seg("RUNNING", s.etime, end, Analyzer!NONE)
             first == Analyzer!Put(segs, one)
             second == Analyzer!Put(first, two)
             third == Analyzer!Put(second, three)
  <1>1. one.stime = p /\ two.stime = s.stime /\ three.stime = s.etime
    BY DEF Analyzer!Seg
  <1> HIDE DEF one, two, three
  <1>2. /\ DOMAIN first = DOMAIN segs \cup {p} /\ first[p] = one
        /\ \A t \in DOMAIN segs : t # p => first[t] = segs[t]
    BY <1>1 DEF Analyzer!Put
  <1> HIDE DEF first
  <1>3. /\ DOMAIN second = DOMAIN first \cup {s.stime} /\ second[s.stime] = two
        /\ \A t \in DOMAIN first : t # s.stime => second[t] = first[t]
    BY <1>1 DEF Analyzer!Put
  <1> HIDE DEF second
  <1>4. /\ DOMAIN third = DOMAIN second \cup {s.etime} /\ third[s.etime] = three
        /\ \A t \in DOMAIN second : t # s.etime => third[t] = second[t]
    BY <1>1 DEF Analyzer!Put
  <1> HIDE DEF third
  <1>5. SplitAround(s, third, p, end)
    BY <1>2, <1>3, <1>4 DEF SplitAround, one, two, three
  <1> QED BY <1>5 DEF one, two, three, first, second, third

LEMMA RanIs ==
  ASSUME NEW sw, Analyzer!Ran(sw)
  PROVE  \/ /\ Inside(sw) = {}
            /\ segs' = Analyzer!Put(segs, Analyzer!Seg("RUNNING", ps.time, sw.time, Analyzer!NONE))
         \/ \E s \in Inside(sw) : SplitAround(s, segs', ps.time, sw.time)
  <1>1. CASE Inside(sw) = {}
    BY <1>1 DEF Inside, Analyzer!Ran
  <1>2. CASE Inside(sw) # {}
    <2>1. PICK s \in Inside(sw) :
            segs' = Analyzer!Put(Analyzer!Put(
             Analyzer!Put(segs, Analyzer!Seg("RUNNING", ps.time, s.stime, Analyzer!NONE)),
             Analyzer!Seg("RUNNABLE", s.stime, s.etime, Analyzer!NONE)),
             Analyzer!Seg("RUNNING", s.etime, sw.time, Analyzer!NONE))
      BY <1>2 DEF Inside, Analyzer!Ran
    <2>2. SplitAround(s, segs', ps.time, sw.time)
      BY <2>1, SplitIs
    <2> QED BY <2>2
  <1> QED BY <1>1, <1>2

(* What the analyzer reads is the trace.                                   *)
LoadedInv ==
  /\ pc = "load" => n = 1 /\ ps.state = "-1" /\ DOMAIN segs = {}
  /\ pc # "load" => swl = trace /\ softs = softTrace
  /\ pc = "break" => n <= Len(swl) + 1 /\ swl # <<>>

TypeInv == TypeOK /\ LoadedInv

LEMMA BreakFacts ==
  ASSUME TypeInv, pc = "break"
  PROVE  /\ swl \in Seq(Analyzer!Switch) /\ swl # <<>> /\ n \in Nat \ {0}
         /\ n <= Len(swl) => swl[n] \in Analyzer!Switch
         /\ SegTypes(segs) /\ ps.time \in Nat /\ softs \subseteq Analyzer!Soft
         /\ ps \in [time : Nat, state : Analyzer!States \cup {"-1"}]
  <1>1. /\ swl \in Seq(Analyzer!Switch) /\ swl # <<>> /\ n \in Nat \ {0}
        /\ SegTypes(segs) /\ softs \subseteq Analyzer!Soft
        /\ ps \in [time : Nat, state : Analyzer!States \cup {"-1"}]
    BY DEF TypeInv, TypeOK, LoadedInv, Analyzer!TypeOK, SegTypes
  <1>2. n <= Len(swl) => swl[n] \in Analyzer!Switch
    BY <1>1
  <1>3. ps.time \in Nat
    BY <1>1
  <1> QED BY <1>1, <1>2, <1>3

LEMMA LoadTyped ==
  ASSUME TypeInv, Load
  PROVE  TypeInv'
  <1>1. /\ trace \in Seq(Analyzer!Switch) /\ softTrace \subseteq Analyzer!Soft
        /\ swl' = trace /\ softs' = softTrace /\ UNCHANGED <<n, segs>> /\ pc = "load"
        /\ UNCHANGED kernelVars
    BY DEF TypeInv, TypeOK, Load, Analyzer!Load
  <1>2. CASE trace = <<>>
    BY <1>1, <1>2 DEF TypeInv, TypeOK, LoadedInv, Load, Analyzer!Load, Analyzer!TypeOK, kernelVars
  <1>3. CASE trace # <<>>
    <2>1. pc' = "break" /\ ps' = Analyzer!GetPrevState(trace)
      BY <1>3 DEF Load, Analyzer!Load
    <2>2. ps' \in [time : Nat, state : Analyzer!States \cup {"-1"}]
      BY <1>1, <1>3, <2>1, PrevStateTyped DEF Analyzer!Unknown
    <2>3. Analyzer!TypeOK'
      BY <1>1, <2>1, <2>2 DEF TypeInv, TypeOK, Analyzer!TypeOK
    <2>4. LoadedInv'
      BY <1>1, <1>3, <2>1 DEF TypeInv, LoadedInv, kernelVars
    <2>5. TypeOK'
      BY <1>1, <2>3 DEF TypeInv, TypeOK, kernelVars
    <2> QED BY <2>4, <2>5 DEF TypeInv
  <1> QED BY <1>2, <1>3

LEMMA SplitTyped ==
  ASSUME SegTypes(segs), NEW s \in Analyzer!Soft, NEW p \in Nat, NEW end \in Nat,
         NEW new, SplitAround(s, new, p, end)
  PROVE  SegTypes(new)
  <1>1. s.stime \in Nat /\ s.etime \in Nat
    BY SoftFields
  <1>2. Analyzer!NONE \in Int /\ "RUNNING" \in Analyzer!States /\ "RUNNABLE" \in Analyzer!States
    BY DEF Analyzer!NONE, Analyzer!States
  <1>3. ASSUME NEW k \in DOMAIN new PROVE new[k] \in Analyzer!Segment /\ new[k].stime = k
    <2>1. CASE k = s.etime
      <3>1. new[k] = Analyzer!Seg("RUNNING", s.etime, end, Analyzer!NONE)
        BY <2>1 DEF SplitAround
      <3> QED BY ONLY <1>1, <1>2, <2>1, <3>1, SegTyped, p \in Nat, end \in Nat
    <2>2. CASE k = s.stime /\ k # s.etime
      <3>1. new[k] = Analyzer!Seg("RUNNABLE", s.stime, s.etime, Analyzer!NONE)
        BY <2>2 DEF SplitAround
      <3> QED BY ONLY <1>1, <1>2, <2>2, <3>1, SegTyped, p \in Nat, end \in Nat
    <2>3. CASE k = p /\ k \notin {s.stime, s.etime}
      <3>1. new[k] = Analyzer!Seg("RUNNING", p, s.stime, Analyzer!NONE)
        BY <2>3 DEF SplitAround
      <3> QED BY ONLY <1>1, <1>2, <2>3, <3>1, SegTyped, p \in Nat, end \in Nat
    <2>4. CASE k \notin {p, s.stime, s.etime}
      BY <2>4 DEF SplitAround, SegTypes
    <2> QED BY <2>1, <2>2, <2>3, <2>4
  <1> QED BY <1>1, <1>3 DEF SegTypes, SplitAround

LEMMA RoundTyped ==
  ASSUME TypeInv, Analyzer!Round, UNCHANGED kernelVars, SegTypes(segs'),
         ps' \in [time : Nat, state : Analyzer!States \cup {"-1"}]
  PROVE  TypeInv'
  <1>1. /\ pc = "break" /\ pc' = pc /\ swl' = swl /\ softs' = softs
        /\ n' = n + 1 /\ n <= Len(swl)
    BY DEF Analyzer!Round
  <1>2. Analyzer!TypeOK'
    BY <1>1 DEF TypeInv, TypeOK, Analyzer!TypeOK, SegTypes
  <1>3. TypeOK'
    BY <1>2 DEF TypeInv, TypeOK, kernelVars
  <1>4. swl \in Seq(Analyzer!Switch) /\ n \in Nat
    BY <1>1, BreakFacts
  <1>5. LoadedInv'
    BY <1>1, <1>4 DEF TypeInv, LoadedInv, kernelVars
  <1> QED BY <1>3, <1>5 DEF TypeInv

LEMMA StatesAre == {"RUNNING", "RUNNABLE", "BLOCKED"} \subseteq Analyzer!States
  BY DEF Analyzer!States

LEMMA NoneTyped == Analyzer!NONE \in Int
  BY DEF Analyzer!NONE

LEMMA WaitTyped ==
  ASSUME NEW r \in Analyzer!Switch
  PROVE  Analyzer!WaitedFor(r) \in Int
  <1>1. r.prev \in Int /\ r.ctx \in Int
    BY RecordFields DEF Analyzer!PROCESS
  <1> QED BY <1>1 DEF Analyzer!WaitedFor

LEMMA AnalyzeTyped ==
  ASSUME TypeInv, Analyze
  PROVE  TypeInv'
  <1>1. pc = "break" /\ UNCHANGED kernelVars
    BY DEF Analyze, Analyzer!Step, Analyzer!SwitchOut, Analyzer!SwitchIn, Analyzer!WakeUp,
           Analyzer!Skip, Analyzer!Finish, Analyzer!Round
  <1>2. /\ swl \in Seq(Analyzer!Switch) /\ swl # <<>>
        /\ n <= Len(swl) => swl[n] \in Analyzer!Switch
        /\ SegTypes(segs) /\ ps.time \in Nat /\ softs \subseteq Analyzer!Soft
        /\ ps \in [time : Nat, state : Analyzer!States \cup {"-1"}]
    BY <1>1, BreakFacts
  <1>3. ASSUME n <= Len(swl), NEW state \in Analyzer!States, Analyzer!Becomes(state)
        PROVE  ps' \in [time : Nat, state : Analyzer!States \cup {"-1"}]
    BY <1>2, <1>3, RecordFields DEF Analyzer!Becomes
  <1>4. CASE Analyzer!SwitchOut
    <2>1. Analyzer!Round /\ n <= Len(swl) /\ Analyzer!Ran(swl[n])
      BY <1>4 DEF Analyzer!SwitchOut, Analyzer!Round
    <2>2. swl[n].time \in Nat
      BY <1>2, <2>1, RecordFields
    <2>3. SegTypes(segs')
      <3>1. CASE segs' = Analyzer!Put(segs, Analyzer!Seg("RUNNING", ps.time, swl[n].time, Analyzer!NONE))
        <4>1. Analyzer!Seg("RUNNING", ps.time, swl[n].time, Analyzer!NONE) \in Analyzer!Segment
          BY <1>2, <2>2, StatesAre, NoneTyped, SegTyped
        <4> QED BY <1>2, <3>1, <4>1, PutTyped
      <3>2. CASE \E s \in Inside(swl[n]) : SplitAround(s, segs', ps.time, swl[n].time)
        <4>1. Inside(swl[n]) \subseteq Analyzer!Soft
          BY <1>2 DEF Inside, Analyzer!GetCeilingSoft
        <4> QED BY <1>2, <2>2, <3>2, <4>1, SplitTyped
      <3> QED BY <2>1, <3>1, <3>2, RanIs
    <2>4. ps' \in [time : Nat, state : Analyzer!States \cup {"-1"}]
      BY <1>3, <1>4, <2>1, StatesAre DEF Analyzer!SwitchOut
    <2> QED BY <1>1, <2>1, <2>3, <2>4, RoundTyped
  <1>5. CASE Analyzer!SwitchIn
    <2>1. /\ Analyzer!Round /\ n <= Len(swl) /\ Analyzer!Becomes("RUNNING")
          /\ segs' = Analyzer!Put(segs, Analyzer!Seg("RUNNABLE", ps.time, swl[n].time, Analyzer!NONE))
      BY <1>5 DEF Analyzer!SwitchIn, Analyzer!Round
    <2>2. swl[n].time \in Nat
      BY <1>2, <2>1, RecordFields
    <2>3. Analyzer!Seg("RUNNABLE", ps.time, swl[n].time, Analyzer!NONE) \in Analyzer!Segment
      BY <1>2, <2>2, StatesAre, NoneTyped, SegTyped
    <2>4. SegTypes(segs')
      BY <1>2, <2>1, <2>3, PutTyped
    <2> QED BY <1>1, <1>3, <2>1, <2>4, StatesAre, RoundTyped
  <1>6. CASE Analyzer!WakeUp
    <2>1. /\ Analyzer!Round /\ n <= Len(swl) /\ Analyzer!Becomes("RUNNABLE")
          /\ segs' = Analyzer!Put(segs, Analyzer!Seg("BLOCKED", ps.time, swl[n].time,
                                                     Analyzer!WaitedFor(swl[n])))
      BY <1>6 DEF Analyzer!WakeUp, Analyzer!Round
    <2>2. swl[n].time \in Nat /\ Analyzer!WaitedFor(swl[n]) \in Int
      BY <1>2, <2>1, RecordFields, WaitTyped
    <2>3. Analyzer!Seg("BLOCKED", ps.time, swl[n].time, Analyzer!WaitedFor(swl[n])) \in Analyzer!Segment
      BY <1>2, <2>2, StatesAre, SegTyped
    <2>4. SegTypes(segs')
      BY <1>2, <2>1, <2>3, PutTyped
    <2> QED BY <1>1, <1>3, <2>1, <2>4, StatesAre, RoundTyped
  <1>7. CASE Analyzer!Skip
    <2>1. Analyzer!Round /\ UNCHANGED <<ps, segs>>
      BY <1>7 DEF Analyzer!Skip
    <2> QED BY <1>1, <1>2, <2>1, RoundTyped
  <1>8. CASE Analyzer!Finish
    <2>1. /\ Analyzer!GetPrevState(swl).time \in Nat /\ Analyzer!TraceEtime(swl) \in Nat
          /\ Analyzer!GetPrevState(swl) = Analyzer!Unknown(Analyzer!GetPrevState(swl).time)
          /\ Analyzer!Exits(swl) # {} => Analyzer!ExitTime(swl) \in Nat
      BY <1>2, PrevStateTyped
    <2>2. ps' \in [time : Nat, state : Analyzer!States \cup {"-1"}]
      BY <1>8, <2>1 DEF Analyzer!Finish, Analyzer!Unknown
    <2>3. SegTypes(segs')
      <3>1. CASE \E k \in Analyzer!Floor(segs, Analyzer!ExitTime(swl)) :
                   /\ segs' = [segs EXCEPT ![k].etime = Analyzer!ExitTime(swl)]
                   /\ Analyzer!Exits(swl) # {}
        <4>1. PICK k \in DOMAIN segs : segs' = [segs EXCEPT ![k].etime = Analyzer!ExitTime(swl)]
          BY <3>1 DEF Analyzer!Floor
        <4> DEFINE cut == [segs[k] EXCEPT !.etime = Analyzer!ExitTime(swl)]
        <4>2. cut \in Analyzer!Segment /\ cut.stime = k
          <5>1. segs[k] \in Analyzer!Segment /\ segs[k].stime = k /\ Analyzer!ExitTime(swl) \in Nat
            BY <1>2, <2>1, <3>1 DEF SegTypes
          <5> QED BY ONLY <5>1 DEF Analyzer!Segment
        <4>3. segs' = [segs EXCEPT ![k] = cut]
          BY <4>1
        <4> HIDE DEF cut
        <4> QED BY <1>2, <4>2, <4>3 DEF SegTypes
      <3>2. CASE UNCHANGED segs
        BY <1>2, <3>2
      <3>3. CASE segs' = Analyzer!Put(segs, Analyzer!Seg("BLOCKED", Analyzer!GetPrevState(swl).time,
                                       Analyzer!TraceEtime(swl), -Analyzer!UNKNOWN))
        <4>1. Analyzer!Seg("BLOCKED", Analyzer!GetPrevState(swl).time,
                           Analyzer!TraceEtime(swl), -Analyzer!UNKNOWN) \in Analyzer!Segment
          BY <2>1, StatesAre, SegTyped DEF Analyzer!UNKNOWN
        <4> QED BY <1>2, <3>3, <4>1, PutTyped
      <3> QED BY <1>8, <3>1, <3>2, <3>3 DEF Analyzer!Finish
    <2>4. Analyzer!TypeOK'
      BY <1>2, <1>8, <2>2, <2>3 DEF TypeInv, TypeOK, Analyzer!TypeOK, SegTypes, Analyzer!Finish
    <2>5. LoadedInv'
      BY <1>1, <1>8 DEF TypeInv, LoadedInv, kernelVars, Analyzer!Finish
    <2> QED BY <1>1, <2>4, <2>5 DEF TypeInv, TypeOK, kernelVars
  <1> QED BY <1>4, <1>5, <1>6, <1>7, <1>8 DEF Analyze, Analyzer!Step

LEMMA InitTyped == Init => TypeInv
  <1>1. ASSUME Init PROVE TypeInv
    <2>1. Analyzer!TypeOK
      BY <1>1 DEF Init, Analyzer!Init, Analyzer!TypeOK, Analyzer!Unknown
    <2>2. LoadedInv
      BY <1>1 DEF Init, Analyzer!Init, LoadedInv, Analyzer!Unknown
    <2> QED BY <1>1, <2>1, <2>2, MaxTimeAssumption DEF Init, TypeInv, TypeOK, OnCpu, OffCpu
  <1> QED BY <1>1

LEMMA NextIs == Next <=> KernelStep \/ Load \/ Analyze
  BY DEF Next, KernelStep

LEMMA StepTyped == TypeInv /\ [Next]_vars => TypeInv'
  <1>1. ASSUME TypeInv, KernelStep PROVE TypeInv'
    <2>1. TypeOK'
      BY <1>1, KernelTyped DEF TypeInv
    <2>2. UNCHANGED analyzerVars /\ pc = "load"
      BY <1>1 DEF KernelStep, Create, Exit, SwitchOut, WakeUp, NeedlessWakeUp, MisleadingWakeUp,
           SwitchIn, OtherSwitch, SoftirqBegin, SoftirqEnd, Tick
    <2> QED BY <1>1, <2>1, <2>2 DEF TypeInv, LoadedInv, analyzerVars
  <1>2. ASSUME TypeInv, UNCHANGED vars PROVE TypeInv'
    BY <1>2 DEF TypeInv, TypeOK, LoadedInv, vars, kernelVars, analyzerVars, Analyzer!TypeOK
  <1> QED BY <1>1, <1>2, LoadTyped, AnalyzeTyped, NextIs

(* The types, and that the analyzer reads the trace that was written.      *)
THEOREM TypeInductive == Spec => []TypeInv
  BY InitTyped, StepTyped, PTL DEF Spec

(* The variables keep their types, those of the analyzer too: no segment   *)
(* has a time that is not a number, and each is kept under its start.      *)
THEOREM TypeCorrect == Spec => []TypeOK
  <1>1. TypeInv => TypeOK
    BY DEF TypeInv
  <1> QED BY <1>1, TypeInductive, PTL

-----------------------------------------------------------------------------
(* What records say of the thread.                                         *)

(* Up to t the thread is on c since its last switch, or has been from the  *)
(* start.  tr is what it was doing, S the softirqs that are over.  A       *)
(* softirq on c since then displaces the thread, and is the only thing     *)
(* that does, but for one that began at b.                                 *)
OnFacts(R, S, tr, c, t, b) ==
  /\ \A r \in R : Latest(R, r, t) => OwnIn(r) /\ r.cpu = c
  /\ \A m \in 1 .. t : Still(R, m, t) => tr[m] \in {"running", "displaced"}
  /\ \A s \in S : s.cpu = c /\ s.etime <= t /\ Still(R, s.stime, t) =>
       /\ \A m \in s.stime + 1 .. s.etime : tr[m] = "displaced"
       /\ s.etime < t => tr[s.etime + 1] = "running"
  /\ \A m \in 1 .. t : Still(R, m, t) /\ tr[m] = "displaced" =>
       \/ b # 0 /\ b < m
       \/ \E s \in S : s.cpu = c /\ s.stime < m /\ m <= s.etime

(* The thread was preempted in r, or left its CPU for a sleep it was woken *)
(* from, before or after r: in the first case it is runnable from then on, *)
(* in the second at once or from its first wake-up.                        *)
RunnableFacts(R, tr, r, t) ==
  /\ r.prevState = 0 => \A m \in r.time + 1 .. t : tr[m] = "runnable"
  /\ r.prevState = 1 =>
       \A m \in r.time + 1 .. t :
         WokenIn(R, r.time, m - 1) \/ ~WokenIn(R, r.time, t) => tr[m] = "runnable"

BlockedFacts(tr, r, t) == \A m \in r.time + 1 .. t : tr[m] = "blocked"

SortedInv ==
  /\ \A i, j \in DOMAIN trace : i <= j => trace[i].time <= trace[j].time
  /\ \A i, j \in DOMAIN trace :
       /\ trace[i].type # "do_exit" /\ trace[j].type # "do_exit"
       /\ trace[i].time = trace[j].time
       => i = j

TraceInv ==
  /\ Len(truth) = now
  /\ SortedInv
  /\ \A r \in Stamped : r.time \in 1 .. now
  /\ \A r \in Range(trace) : r.type = "do_exit" => doing \in {"exiting", "exited"}

(* No switch falls into a softirq of its CPU, and no softirq into another. *)
SoftInv ==
  /\ \A s \in softTrace : 1 <= s.stime /\ s.stime < s.etime /\ s.etime <= now
  /\ \A c \in CPUs : began[c] <= now
  /\ \A s \in softTrace : \A r \in Stamped :
       r.type = "switch_to" /\ r.cpu = s.cpu => r.time < s.stime \/ s.etime < r.time
  /\ \A c \in CPUs : began[c] # 0 =>
       \A r \in Stamped : r.type = "switch_to" /\ r.cpu = c => r.time < began[c]
  /\ \A r, s \in softTrace : r.cpu = s.cpu => r = s \/ r.etime < s.stime \/ s.etime < r.stime
  /\ \A s \in softTrace : began[s.cpu] # 0 => s.etime < began[s.cpu]

OnInv ==
  doing \in OnCpu =>
    /\ OnFacts(Stamped, softTrace, truth, cpu, now, began[cpu])
    /\ began[cpu] # 0 => \A m \in began[cpu] + 1 .. now : truth[m] = "displaced"

OffInv ==
  /\ doing \notin OnCpu => \A r \in Stamped : Latest(Stamped, r, now) => OwnOut(r)
  /\ doing = "unborn" => \A r \in Stamped : ~Own(r)
  /\ doing = "exited" => \E r \in Stamped : Own(r)
  /\ \A r \in Stamped, m \in 1 .. now :
       Latest(Stamped, r, m - 1) /\ OwnOut(r) => truth[m] \notin {"running", "displaced"}

OutInv ==
  \A q \in Stamped : OwnOut(q) =>
    OnFacts(Stamped, softTrace, truth, q.cpu, q.time - 1, 0) /\ truth[q.time] = "running"

InInv ==
  \A q, r \in Stamped : OwnIn(q) /\ Latest(Stamped, r, q.time - 1) => OwnOut(r)

KernelInv == TraceInv /\ SoftInv /\ OnInv /\ OffInv /\ OutInv /\ InInv

(* When no wake-up misleads.                                               *)
NowFacts(r) ==
  /\ doing \in {"runnable", "left"} => RunnableFacts(Stamped, truth, r, now)
  /\ doing = "runnable" /\ r.prevState = 1 => WokenIn(Stamped, r.time, now)
  /\ doing = "left" => r.prevState = 1 /\ ~WokenIn(Stamped, r.time, now)
  /\ doing = "blocked" =>
       r.prevState = 1 /\ ~WokenIn(Stamped, r.time, now) /\ BlockedFacts(truth, r, now)

NowWakeInv == \A r \in Stamped : Latest(Stamped, r, now) => NowFacts(r)

InWakeInv ==
  \A q, r \in Stamped : OwnIn(q) /\ Latest(Stamped, r, q.time - 1) =>
    RunnableFacts(Stamped, truth, r, q.time - 1) /\ truth[q.time] = "runnable"

WakerInv ==
  \A q, r \in Stamped :
    /\ Wake(q) /\ Latest(Stamped, r, q.time - 1)
    /\ OwnOut(r) /\ r.prevState = 1 /\ ~WokenIn(Stamped, r.time, q.time - 1)
    => BlockedFacts(truth, r, q.time) /\ <<q.time, Analyzer!WaitedFor(q)>> \in woken

WakeInv == NowWakeInv /\ InWakeInv /\ WakerInv

-----------------------------------------------------------------------------
(* What is later takes nothing back.                                       *)

LEMMA StillKept ==
  ASSUME NEW R \in SUBSET Analyzer!Switch, NEW Q \in SUBSET Analyzer!Switch, R \subseteq Q,
         NEW t \in Int, \A r \in Q \ R : t < r.time,
         NEW a \in Int, NEW b \in Int, b <= t
  PROVE  /\ Still(Q, a, b) <=> Still(R, a, b)
         /\ WokenIn(Q, a, b) <=> WokenIn(R, a, b)
  BY RecordFields DEF Still, WokenIn

LEMMA LatestKept ==
  ASSUME NEW R \in SUBSET Analyzer!Switch, NEW Q \in SUBSET Analyzer!Switch, R \subseteq Q,
         NEW t \in Int, \A r \in Q \ R : t < r.time, NEW r \in Q
  PROVE  Latest(Q, r, t) <=> Latest(R, r, t)
  <1>1. r.time \in Nat
    BY RecordFields
  <1>2. Still(Q, r.time + 1, t) <=> Still(R, r.time + 1, t)
    BY <1>1, StillKept
  <1> QED BY <1>1, <1>2 DEF Latest

LEMMA OnKept ==
  ASSUME NEW R \in SUBSET Analyzer!Switch, NEW Q \in SUBSET Analyzer!Switch, R \subseteq Q,
         NEW t \in Int, \A r \in Q \ R : t < r.time,
         NEW S \in SUBSET Analyzer!Soft, NEW V \in SUBSET Analyzer!Soft, S \subseteq V,
         \A s \in V \ S : t < s.etime,
         NEW tr, NEW tv, \A m \in 1 .. t : tv[m] = tr[m],
         NEW c, NEW b, OnFacts(R, S, tr, c, t, b),
         \A s \in S : 1 <= s.stime
  PROVE  OnFacts(Q, V, tv, c, t, b)
  <1>1. ASSUME NEW r \in Q, Latest(Q, r, t) PROVE OwnIn(r) /\ r.cpu = c
    BY <1>1, LatestKept DEF OnFacts, Latest
  <1>2. ASSUME NEW m \in 1 .. t, Still(Q, m, t) PROVE tv[m] \in {"running", "displaced"}
    <2>1. Still(R, m, t)
      BY <1>2, StillKept
    <2> QED BY <2>1 DEF OnFacts
  <1>3. ASSUME NEW s \in V, s.cpu = c /\ s.etime <= t /\ Still(Q, s.stime, t)
        PROVE  /\ \A m \in s.stime + 1 .. s.etime : tv[m] = "displaced"
               /\ s.etime < t => tv[s.etime + 1] = "running"
    <2>1. s.stime \in Nat /\ s.etime \in Nat
      BY SoftFields
    <2>2. s \in S
      BY <1>3, <2>1
    <2>3. Still(R, s.stime, t)
      BY <1>3, <2>1, StillKept
    <2>4. /\ \A m \in s.stime + 1 .. s.etime : tr[m] = "displaced"
          /\ s.etime < t => tr[s.etime + 1] = "running"
      BY <1>3, <2>2, <2>3 DEF OnFacts
    <2> QED BY <1>3, <2>1, <2>2, <2>4
  <1>4. ASSUME NEW m \in 1 .. t, Still(Q, m, t), tv[m] = "displaced"
        PROVE  \/ b # 0 /\ b < m
               \/ \E s \in V : s.cpu = c /\ s.stime < m /\ m <= s.etime
    <2>1. Still(R, m, t)
      BY <1>4, StillKept
    <2> QED BY <1>4, <2>1 DEF OnFacts
  <1> QED BY <1>1, <1>2, <1>3, <1>4 DEF OnFacts

LEMMA RunnableKept ==
  ASSUME NEW R \in SUBSET Analyzer!Switch, NEW Q \in SUBSET Analyzer!Switch, R \subseteq Q,
         NEW t \in Int, \A r \in Q \ R : t < r.time,
         NEW tr, NEW tv, \A m \in 1 .. t : tv[m] = tr[m],
         NEW r \in R, RunnableFacts(R, tr, r, t)
  PROVE  RunnableFacts(Q, tv, r, t)
  <1>1. r.time \in Nat
    BY RecordFields
  <1>2. ASSUME NEW m \in r.time + 1 .. t
        PROVE  /\ tv[m] = tr[m]
               /\ WokenIn(Q, r.time, m - 1) <=> WokenIn(R, r.time, m - 1)
               /\ WokenIn(Q, r.time, t) <=> WokenIn(R, r.time, t)
    <2>1. m \in 1 .. t /\ m - 1 \in Int /\ m - 1 <= t /\ r.time \in Int
      BY <1>1
    <2>2. WokenIn(Q, r.time, m - 1) <=> WokenIn(R, r.time, m - 1)
      BY <2>1, StillKept
    <2>3. WokenIn(Q, r.time, t) <=> WokenIn(R, r.time, t)
      BY <2>1, StillKept
    <2> QED BY <2>1, <2>2, <2>3
  <1> QED BY <1>2 DEF RunnableFacts

-----------------------------------------------------------------------------
(* A step of the kernel writes at most one record, and stamps it now + 1.   *)

Grows ==
  /\ now' = now + 1 /\ truth' = Append(truth, Truth)
  /\ Stamped \subseteq Stamped' /\ \A r \in Stamped' \ Stamped : r.time = now + 1
  /\ softTrace \subseteq softTrace' /\ \A s \in softTrace' \ softTrace : s.etime = now + 1

LEMMA StampedTyped ==
  ASSUME TypeOK
  PROVE  Stamped \in SUBSET Analyzer!Switch /\ softTrace \in SUBSET Analyzer!Soft /\ now \in Nat
  BY MaxTimeAssumption DEF TypeOK, Stamped, Range

LEMMA LogSorted ==
  ASSUME TypeOK, TraceInv, NEW e \in Analyzer!Switch, Log(e),
         e.type = "do_exit" \/ e.time = now + 1
  PROVE  SortedInv'
  <1>1. PICK p \in 1 .. Len(trace) + 1 :
          /\ \A m \in 1 .. p - 1 : trace[m].time <= e.time
          /\ \A m \in p .. Len(trace) : e.time <= trace[m].time
          /\ trace' = InsertAt(trace, p, e)
    BY DEF Log
  <1>2. trace \in Seq(Analyzer!Switch) /\ now \in Nat
    BY MaxTimeAssumption DEF TypeOK
  <1>3. /\ trace' \in Seq(Analyzer!Switch) /\ Len(trace') = Len(trace) + 1
        /\ \A i \in 1 .. Len(trace) + 1 :
             trace'[i] = IF i < p THEN trace[i] ELSE IF i = p THEN e ELSE trace[i - 1]
    <2>1. trace' = InsertAt(trace, p, e)
      BY <1>1
    <2> QED BY ONLY <1>2, <2>1, Inserted, p \in 1 .. Len(trace) + 1, e \in Analyzer!Switch, SMTT(30)
  <1> DEFINE old(i) == IF i < p THEN i ELSE i - 1
  <1>4. \A i \in DOMAIN trace' : i # p => old(i) \in DOMAIN trace /\ trace'[i] = trace[old(i)]
    <2>1. SUFFICES ASSUME NEW i \in 1 .. Len(trace) + 1, i # p
                   PROVE  old(i) \in DOMAIN trace /\ trace'[i] = trace[old(i)]
      BY <1>3
    <2>2. CASE i < p
      BY <1>2, <1>3, <2>2
    <2>3. CASE i > p
      BY <1>2, <1>3, <2>3
    <2> QED BY <2>1, <2>2, <2>3
  <1>5. trace'[p] = e /\ p \in DOMAIN trace' /\ DOMAIN trace' = 1 .. Len(trace) + 1
    BY <1>2, <1>3
  <1>6. \A i \in DOMAIN trace : trace[i].time \in Nat /\ trace[i] \in Analyzer!Switch
    BY <1>2, RecordFields
  <1>7. e.time \in Nat
    BY RecordFields
  <1>8. ASSUME NEW i \in DOMAIN trace', NEW j \in DOMAIN trace', i <= j
        PROVE  trace'[i].time <= trace'[j].time
    <2>1. CASE i = p /\ j = p
      BY <1>5, <1>7, <2>1
    <2>2. CASE i = p /\ j # p
      <3>1. old(j) \in p .. Len(trace)
        BY <1>2, <1>5, <1>8, <2>2
      <3> QED BY <1>1, <1>4, <1>5, <2>2, <3>1
    <2>3. CASE i # p /\ j = p
      <3>1. old(i) \in 1 .. p - 1
        BY <1>2, <1>5, <1>8, <2>3
      <3> QED BY <1>1, <1>4, <1>5, <2>3, <3>1
    <2>4. CASE i # p /\ j # p
      <3>1. old(i) <= old(j)
        BY <1>5, <1>8, <2>4
      <3>2. trace[old(i)].time <= trace[old(j)].time
        BY <1>4, <2>4, <3>1 DEF TraceInv, SortedInv
      <3> QED BY <1>4, <2>4, <3>2
    <2> QED BY <2>1, <2>2, <2>3, <2>4
  <1>9. ASSUME NEW i \in DOMAIN trace', NEW j \in DOMAIN trace',
               trace'[i].type # "do_exit", trace'[j].type # "do_exit",
               trace'[i].time = trace'[j].time
        PROVE  i = j
    <2>1. ASSUME NEW k \in DOMAIN trace', k # p, trace'[k].type # "do_exit"
          PROVE  trace'[k].time <= now
      <3>1. trace[old(k)] \in Stamped
        BY <1>4, <2>1 DEF Stamped, Range
      <3> QED BY <1>2, <1>4, <2>1, <3>1 DEF TraceInv
    <2>2. i = p <=> j = p
      BY <1>2, <1>5, <1>9, <2>1
    <2>3. CASE i # p /\ j # p
      <3>1. old(i) = old(j)
        BY <1>4, <1>9, <2>3 DEF TraceInv, SortedInv
      <3> QED BY <1>5, <2>3, <3>1
    <2> QED BY <2>2, <2>3
  <1> QED BY <1>8, <1>9 DEF SortedInv

(* What a step that logs e does to the trace.                              *)
LEMMA LogGrows ==
  ASSUME TypeInv, TraceInv, Tick, NEW e \in Analyzer!Switch, Log(e),
         e.time = now + 1, e.type # "do_exit", UNCHANGED softTrace,
         doing' \in {"exiting", "exited"} \/ doing \notin {"exiting", "exited"}
  PROVE  Grows /\ TraceInv' /\ Stamped' = Stamped \cup {e}
  <1>1. /\ now' = now + 1 /\ truth' = Append(truth, Truth) /\ now \in Nat
        /\ trace' # <<>> /\ Range(trace') = Range(trace) \cup {e}
    BY TickTyped, LogTyped, MaxTimeAssumption DEF TypeInv, TypeOK
  <1>2. Stamped' = Stamped \cup {e}
    BY <1>1 DEF Stamped
  <1>3. Len(truth') = now'
    BY <1>1 DEF TypeInv, TypeOK, TraceInv
  <1>4. SortedInv'
    BY LogSorted DEF TypeInv
  <1>5. \A r \in Stamped' : r.time \in 1 .. now'
    BY <1>1, <1>2 DEF TraceInv
  <1>6. \A r \in Range(trace') : r.type = "do_exit" => doing' \in {"exiting", "exited"}
    BY <1>1 DEF TraceInv
  <1> QED BY <1>1, <1>2, <1>3, <1>4, <1>5, <1>6 DEF Grows, TraceInv

(* What a step that logs nothing, or do_exit, does to the trace.           *)
LEMMA NoLogGrows ==
  ASSUME TypeInv, TraceInv, Tick, UNCHANGED <<trace, doing>>,
         softTrace \subseteq softTrace', \A s \in softTrace' \ softTrace : s.etime = now + 1
  PROVE  Grows /\ TraceInv' /\ Stamped' = Stamped
  <1>1. /\ now' = now + 1 /\ truth' = Append(truth, Truth) /\ now \in Nat
    BY TickTyped, MaxTimeAssumption DEF TypeInv, TypeOK
  <1>2. Stamped' = Stamped
    BY DEF Stamped
  <1>3. Len(truth') = now'
    BY <1>1 DEF TypeInv, TypeOK, TraceInv
  <1> QED BY <1>1, <1>2, <1>3 DEF Grows, TraceInv, SortedInv

LEMMA ExitGrows ==
  ASSUME TypeInv, TraceInv, Exit
  PROVE  Grows /\ TraceInv' /\ Stamped' = Stamped
  <1>1. /\ now' = now + 1 /\ truth' = Append(truth, Truth) /\ now \in Nat /\ now < MaxTime
    BY TickTyped, MaxTimeAssumption DEF TypeInv, TypeOK, Exit
  <1>2. PICK stamp \in StaleStamps : Log(ExitRecord(stamp))
    BY DEF Exit, ExitRecord
  <1>3. ExitRecord(stamp) \in Analyzer!Switch /\ ExitRecord(stamp).type = "do_exit"
    BY <1>1, RecordsTyped DEF TypeInv, ExitRecord, Record
  <1>4. Range(trace') = Range(trace) \cup {ExitRecord(stamp)}
    BY <1>2, <1>3, LogTyped DEF TypeInv
  <1>5. Stamped' = Stamped
    BY <1>3, <1>4 DEF Stamped
  <1>6. SortedInv'
    BY <1>2, <1>3, LogSorted DEF TypeInv
  <1>7. Len(truth') = now'
    BY <1>1 DEF TypeInv, TypeOK, TraceInv
  <1>8. doing' = "exiting"
    BY DEF Exit
  <1> QED BY <1>1, <1>5, <1>6, <1>7, <1>8 DEF Grows, TraceInv, Exit

-----------------------------------------------------------------------------
(* What is so up to now stays so; what is so up to now + 1.                *)

LEMMA PastKept ==
  ASSUME TypeOK, TypeOK', TraceInv, SoftInv, Grows, NEW t \in Int, t <= now
  PROVE  /\ \A a \in Int : Still(Stamped', a, t) <=> Still(Stamped, a, t)
         /\ \A a \in Int : WokenIn(Stamped', a, t) <=> WokenIn(Stamped, a, t)
         /\ \A r \in Stamped' : Latest(Stamped', r, t) <=> Latest(Stamped, r, t)
         /\ \A r : Latest(Stamped', r, t) => r \in Stamped
         /\ \A c \in CPUs, b \in Nat : OnFacts(Stamped, softTrace, truth, c, t, b) =>
              OnFacts(Stamped', softTrace', truth', c, t, b)
         /\ \A r \in Stamped : RunnableFacts(Stamped, truth, r, t) =>
              RunnableFacts(Stamped', truth', r, t)
         /\ \A m \in 1 .. t : truth'[m] = truth[m]
  <1> DEFINE R == Stamped  Q == Stamped'  S == softTrace  V == softTrace'  tr == truth  tv == truth'
  <1>1. /\ R \in SUBSET Analyzer!Switch /\ S \in SUBSET Analyzer!Soft /\ now \in Nat
        /\ Q \in SUBSET Analyzer!Switch /\ V \in SUBSET Analyzer!Soft
    BY StampedTyped DEF TypeOK, Stamped, Range
  <1>2. /\ R \subseteq Q /\ \A r \in Q \ R : t < r.time
        /\ S \subseteq V /\ \A s \in V \ S : t < s.etime
    BY <1>1 DEF Grows
  <1>3. \A m \in 1 .. t : tv[m] = tr[m]
    BY <1>1 DEF Grows, TypeOK, TraceInv
  <1>4. \A s \in S : 1 <= s.stime
    BY DEF SoftInv
  <1> HIDE DEF R, Q, S, V, tr, tv
  <1>5. ASSUME NEW a \in Int
        PROVE  (Still(Q, a, t) <=> Still(R, a, t)) /\ (WokenIn(Q, a, t) <=> WokenIn(R, a, t))
    BY <1>1, <1>2, StillKept
  <1>6. ASSUME NEW r \in Q PROVE Latest(Q, r, t) <=> Latest(R, r, t)
    BY <1>1, <1>2, LatestKept
  <1>7. ASSUME NEW r, Latest(Q, r, t) PROVE r \in R
    <2>1. r \in Q
      BY <1>7 DEF Latest
    <2> QED BY <1>6, <1>7, <2>1 DEF Latest
  <1>8. ASSUME NEW c \in CPUs, NEW b \in Nat, OnFacts(R, S, tr, c, t, b)
        PROVE  OnFacts(Q, V, tv, c, t, b)
    BY <1>1, <1>2, <1>3, <1>4, <1>8, OnKept
  <1>9. ASSUME NEW r \in R, RunnableFacts(R, tr, r, t) PROVE RunnableFacts(Q, tv, r, t)
    BY <1>1, <1>2, <1>3, <1>9, RunnableKept
  <1> QED BY <1>3, <1>5, <1>6, <1>7, <1>8, <1>9 DEF R, Q, S, V, tr, tv

LEMMA TruthGrows ==
  ASSUME TypeOK, TraceInv, Grows
  PROVE  now \in Nat /\ truth'[now + 1] = Truth /\ \A m \in 1 .. now : truth'[m] = truth[m]
  BY StampedTyped DEF Grows, TypeOK, TraceInv

(* Nothing of the thread's own was logged.                                 *)
LEMMA NowKept ==
  ASSUME TypeOK, TypeOK', TraceInv, Grows, \A r \in Stamped' \ Stamped : ~Own(r)
  PROVE  /\ \A a \in Int : a <= now + 1 => (Still(Stamped', a, now') <=> Still(Stamped, a, now))
         /\ \A r : Latest(Stamped', r, now') <=> Latest(Stamped, r, now)
  <1> DEFINE R == Stamped  Q == Stamped'
  <1>1. /\ R \in SUBSET Analyzer!Switch /\ now \in Nat /\ now' = now + 1
        /\ Q \in SUBSET Analyzer!Switch
    BY StampedTyped DEF TypeOK, Stamped, Range, Grows
  <1>2. R \subseteq Q /\ \A r \in Q \ R : ~Own(r)
    BY DEF Grows
  <1>3. \A r \in R : r.time \in 1 .. now
    BY DEF TraceInv
  <1> HIDE DEF R, Q
  <1>4. ASSUME NEW a \in Int PROVE Still(Q, a, now') <=> Still(R, a, now)
    BY <1>1, <1>2, <1>3 DEF Still
  <1>5. ASSUME NEW r PROVE Latest(Q, r, now') <=> Latest(R, r, now)
    <2>1. CASE r \in R
      <3>1. r.time \in Int /\ r.time <= now
        BY <1>3, <2>1
      <3>2. Still(Q, r.time + 1, now') <=> Still(R, r.time + 1, now)
        BY <1>4, <3>1
      <3> QED BY <1>1, <1>2, <2>1, <3>1, <3>2 DEF Latest
    <2>2. CASE r \notin R
      BY <1>2, <2>2 DEF Latest
    <2> QED BY <2>1, <2>2
  <1> QED BY <1>4, <1>5 DEF R, Q

(* The thread was switched.                                                *)
LEMMA NowSwitched ==
  ASSUME TypeOK, TypeOK', TraceInv, Grows, NEW e, Stamped' = Stamped \cup {e}, Own(e), e.time = now + 1
  PROVE  /\ \A a \in Int : a <= now + 1 => ~Still(Stamped', a, now')
         /\ \A r : Latest(Stamped', r, now') => r = e
  <1>1. now \in Nat /\ now' = now + 1 /\ e \in Stamped'
    BY StampedTyped DEF Grows
  <1>2. \A r \in Stamped : r.time \in 1 .. now
    BY DEF TraceInv
  <1>3. ASSUME NEW a \in Int, a <= now + 1 PROVE ~Still(Stamped', a, now')
    BY <1>1, <1>3 DEF Still
  <1>4. ASSUME NEW r, Latest(Stamped', r, now'), r # e PROVE FALSE
    <2>1. r \in Stamped /\ r.time \in 1 .. now
      BY <1>2, <1>4 DEF Latest
    <2>2. ~Still(Stamped', r.time + 1, now')
      BY <1>1, <1>3, <2>1
    <2> QED BY <1>4, <2>2 DEF Latest
  <1> QED BY <1>3, <1>4

-----------------------------------------------------------------------------
(* What has been recorded stays true.                                      *)

LEMMA OutKept ==
  ASSUME TypeOK, TypeOK', KernelInv, Grows, \A r \in Stamped' \ Stamped : ~OwnOut(r)
  PROVE  OutInv'
  <1>1. SUFFICES ASSUME NEW q \in Stamped', OwnOut(q)
                 PROVE  /\ OnFacts(Stamped', softTrace', truth', q.cpu, q.time - 1, 0)
                        /\ truth'[q.time] = "running"
    BY DEF OutInv
  <1>2. q \in Stamped /\ q.time \in 1 .. now /\ now \in Nat /\ q.cpu \in CPUs
    BY <1>1, StampedTyped, RecordFields DEF KernelInv, TraceInv
  <1>3. OnFacts(Stamped, softTrace, truth, q.cpu, q.time - 1, 0) /\ truth[q.time] = "running"
    BY <1>1, <1>2 DEF KernelInv, OutInv
  <1>4. q.time - 1 \in Int /\ q.time - 1 <= now /\ q.time \in Int /\ q.time <= now /\ 0 \in Nat
    BY <1>2
  <1>5. OnFacts(Stamped', softTrace', truth', q.cpu, q.time - 1, 0)
    BY <1>2, <1>3, <1>4, PastKept DEF KernelInv
  <1>6. truth'[q.time] = "running"
    BY <1>2, <1>3, TruthGrows DEF KernelInv
  <1> QED BY <1>5, <1>6

LEMMA InKept ==
  ASSUME TypeOK, TypeOK', KernelInv, Grows, \A r \in Stamped' \ Stamped : ~OwnIn(r)
  PROVE  InInv'
  <1>1. SUFFICES ASSUME NEW q \in Stamped', NEW r \in Stamped', OwnIn(q),
                        Latest(Stamped', r, q.time - 1)
                 PROVE  OwnOut(r)
    BY DEF InInv
  <1>2. q \in Stamped /\ q.time \in 1 .. now /\ now \in Nat
    BY <1>1, StampedTyped DEF KernelInv, TraceInv
  <1>3. q.time - 1 \in Int /\ q.time - 1 <= now
    BY <1>2
  <1>4. Latest(Stamped, r, q.time - 1) /\ r \in Stamped
    BY <1>1, <1>3, PastKept DEF KernelInv
  <1> QED BY <1>1, <1>2, <1>4 DEF KernelInv, InInv

(* Off its CPU the thread neither runs nor is displaced.                   *)
LEMMA OffPast ==
  ASSUME TypeOK, TypeOK', KernelInv, Grows
  PROVE  \A r \in Stamped', m \in 1 .. now' :
           Latest(Stamped', r, m - 1) /\ OwnOut(r) => truth'[m] \notin {"running", "displaced"}
  <1>1. SUFFICES ASSUME NEW r \in Stamped', NEW m \in 1 .. now + 1,
                        Latest(Stamped', r, m - 1), OwnOut(r)
                 PROVE  truth'[m] \notin {"running", "displaced"}
    BY DEF Grows
  <1>2. now \in Nat /\ m - 1 \in Int /\ m - 1 <= now
    BY StampedTyped
  <1>3. Latest(Stamped, r, m - 1) /\ r \in Stamped
    BY <1>1, <1>2, PastKept DEF KernelInv
  <1>4. CASE m <= now
    BY <1>1, <1>2, <1>3, <1>4, TruthGrows DEF KernelInv, OffInv
  <1>5. CASE m = now + 1
    <2>1. Latest(Stamped, r, now)
      BY <1>2, <1>3, <1>5
    <2>2. doing \notin OnCpu
      BY <1>1, <1>3, <2>1 DEF KernelInv, OnInv, OnFacts, OwnIn, OwnOut
    <2>3. Truth \notin {"running", "displaced"}
      BY <2>2 DEF Truth, TypeOK, OnCpu, OffCpu
    <2> QED BY <1>5, <2>3, TruthGrows DEF KernelInv
  <1> QED BY <1>2, <1>4, <1>5

-----------------------------------------------------------------------------
(* The steps in which the thread is not switched.                          *)

Aside ==
  /\ \A r \in Stamped' \ Stamped : ~Own(r)
  /\ doing' \in OnCpu <=> doing \in OnCpu
  /\ cpu' = cpu
  /\ doing' = "unborn" => doing = "unborn"
  /\ doing' = "exited" => doing = "exited"

Serves == \E c \in CPUs : SoftirqBegin(c) \/ SoftirqEnd(c)

LEMMA OffAside ==
  ASSUME TypeOK, TypeOK', KernelInv, Grows, Aside
  PROVE  OffInv'
  <1>1. ASSUME doing' \notin OnCpu, NEW r \in Stamped', Latest(Stamped', r, now') PROVE OwnOut(r)
    <2>1. Latest(Stamped, r, now) /\ doing \notin OnCpu
      BY <1>1, NowKept DEF KernelInv, Aside
    <2> QED BY <2>1 DEF KernelInv, OffInv, Latest
  <1>2. ASSUME doing' = "unborn", NEW r \in Stamped' PROVE ~Own(r)
    BY <1>2 DEF KernelInv, OffInv, Aside
  <1>3. ASSUME doing' = "exited" PROVE \E r \in Stamped' : Own(r)
    BY <1>3 DEF KernelInv, OffInv, Aside, Grows
  <1> QED BY <1>1, <1>2, <1>3, OffPast DEF OffInv

LEMMA TruthOnCpu ==
  ASSUME TypeOK, doing \in OnCpu
  PROVE  /\ Truth \in {"running", "displaced"}
         /\ Truth = "displaced" <=> began[cpu] # 0
  BY DEF TypeOK, Truth, OnCpu

LEMMA OnAside ==
  ASSUME TypeOK, TypeOK', KernelInv, Grows, Aside, UNCHANGED <<began, softTrace>> \/ Serves
  PROVE  OnInv'
  <1>1. SUFFICES ASSUME doing \in OnCpu
                 PROVE  /\ OnFacts(Stamped', softTrace', truth', cpu, now', began'[cpu])
                        /\ began'[cpu] # 0 =>
                             \A m \in began'[cpu] + 1 .. now' : truth'[m] = "displaced"
    BY DEF OnInv, Aside
  <1>2. /\ now \in Nat /\ now' = now + 1 /\ truth'[now + 1] = Truth
        /\ \A m \in 1 .. now : truth'[m] = truth[m]
    BY TruthGrows DEF KernelInv, Grows
  <1>3. /\ \A a \in Int : a <= now + 1 => (Still(Stamped', a, now') <=> Still(Stamped, a, now))
        /\ \A r : Latest(Stamped', r, now') <=> Latest(Stamped, r, now)
    BY NowKept DEF KernelInv, Aside
  <1>4. /\ OnFacts(Stamped, softTrace, truth, cpu, now, began[cpu])
        /\ began[cpu] # 0 => \A m \in began[cpu] + 1 .. now : truth[m] = "displaced"
        /\ began[cpu] \in Nat /\ began[cpu] <= now /\ cpu \in CPUs
    BY <1>1, MaxTimeAssumption DEF KernelInv, OnInv, SoftInv, TypeOK
  <1>5. Truth \in {"running", "displaced"} /\ (Truth = "displaced" <=> began[cpu] # 0)
    BY <1>1, TruthOnCpu
  <1>6. /\ \A s \in softTrace : s.stime \in Nat /\ s.etime \in Nat
        /\ \A s \in softTrace : 1 <= s.stime /\ s.stime < s.etime /\ s.etime <= now
        /\ \A s \in softTrace : s.cpu = cpu /\ began[cpu] # 0 => s.etime < began[cpu]
    BY StampedTyped, SoftFields DEF KernelInv, SoftInv
  <1> DEFINE span == [cpu |-> cpu, stime |-> began[cpu], etime |-> now + 1]
             elsewhere ==
               began'[cpu] = began[cpu] /\ \A s \in softTrace' \ softTrace : s.cpu # cpu
             begins == began[cpu] = 0 /\ began'[cpu] = now + 1 /\ softTrace' = softTrace
             ends   == began[cpu] # 0 /\ began'[cpu] = 0 /\ softTrace' = softTrace \cup {span}
  <1>7. elsewhere \/ begins \/ ends
    <2>1. ASSUME NEW c \in CPUs, SoftirqBegin(c) PROVE elsewhere \/ begins
      BY <1>4, <2>1 DEF SoftirqBegin, TypeOK
    <2>2. ASSUME NEW c \in CPUs, SoftirqEnd(c) PROVE elsewhere \/ ends
      BY <1>4, <2>2 DEF SoftirqEnd, TypeOK
    <2> QED BY <2>1, <2>2 DEF Serves
  <1>8. softTrace \subseteq softTrace'
    BY DEF Grows
  <1>9. ASSUME NEW r \in Stamped', Latest(Stamped', r, now') PROVE OwnIn(r) /\ r.cpu = cpu
    BY <1>3, <1>4, <1>9 DEF OnFacts, Latest
  <1>10. ASSUME NEW m \in 1 .. now', Still(Stamped', m, now')
         PROVE  truth'[m] \in {"running", "displaced"}
    <2>1. CASE m = now + 1
      BY <1>2, <1>5, <2>1
    <2>2. CASE m <= now
      <3>1. Still(Stamped, m, now)
        BY <1>2, <1>3, <1>10, <2>2
      <3> QED BY <1>2, <1>4, <2>2, <3>1 DEF OnFacts
    <2> QED BY <1>2, <2>1, <2>2
  <1>11. ASSUME NEW s \in softTrace', s.cpu = cpu, s.etime <= now', Still(Stamped', s.stime, now')
         PROVE  /\ \A m \in s.stime + 1 .. s.etime : truth'[m] = "displaced"
                /\ s.etime < now' => truth'[s.etime + 1] = "running"
    <2>1. CASE s \in softTrace
      <3>1. Still(Stamped, s.stime, now)
        BY <1>2, <1>3, <1>6, <1>11, <2>1
      <3>2. /\ \A m \in s.stime + 1 .. s.etime : truth[m] = "displaced"
            /\ s.etime < now => truth[s.etime + 1] = "running"
        BY <1>4, <1>6, <1>11, <2>1, <3>1 DEF OnFacts
      <3>3. \A m \in s.stime + 1 .. s.etime : m \in 1 .. now
        BY <1>2, <1>6, <2>1
      <3>4. CASE s.etime < now
        <4>1. s.etime + 1 \in 1 .. now
          BY <1>2, <1>6, <2>1, <3>4
        <4> QED BY <1>2, <3>2, <3>3, <3>4, <4>1
      <3>5. CASE s.etime = now
        <4>1. began[cpu] = 0
          BY <1>2, <1>4, <1>6, <1>11, <2>1, <3>5
        <4> QED BY <1>2, <1>5, <3>2, <3>3, <3>5, <4>1
      <3> QED BY <1>2, <1>6, <2>1, <3>4, <3>5
    <2>2. CASE s \notin softTrace
      <3>1. s.stime = began[cpu] /\ s.etime = now + 1 /\ began[cpu] # 0
        BY <1>7, <1>11, <2>2
      <3>2. ASSUME NEW m \in s.stime + 1 .. s.etime PROVE truth'[m] = "displaced"
        <4>1. CASE m = now + 1
          BY <1>2, <1>5, <3>1, <4>1
        <4>2. CASE m <= now
          BY <1>2, <1>4, <3>1, <4>2
        <4> QED BY <1>2, <1>4, <3>1, <4>1, <4>2
      <3> QED BY <1>2, <3>1, <3>2
    <2> QED BY <2>1, <2>2
  <1>12. ASSUME NEW m \in 1 .. now', Still(Stamped', m, now'), truth'[m] = "displaced"
         PROVE  \/ began'[cpu] # 0 /\ began'[cpu] < m
                \/ \E s \in softTrace' : s.cpu = cpu /\ s.stime < m /\ m <= s.etime
    <2>1. \/ began[cpu] # 0 /\ began[cpu] < m
          \/ \E s \in softTrace : s.cpu = cpu /\ s.stime < m /\ m <= s.etime
      <3>1. CASE m = now + 1
        BY <1>2, <1>4, <1>5, <1>12, <3>1
      <3>2. CASE m <= now
        <4>1. Still(Stamped, m, now)
          BY <1>2, <1>3, <1>12, <3>2
        <4> QED BY <1>2, <1>4, <1>12, <3>2, <4>1 DEF OnFacts
      <3> QED BY <1>2, <3>1, <3>2
    <2>2. CASE \E s \in softTrace : s.cpu = cpu /\ s.stime < m /\ m <= s.etime
      BY <1>8, <2>2
    <2>3. CASE began[cpu] # 0 /\ began[cpu] < m
      <3>1. CASE began'[cpu] = began[cpu]
        BY <2>3, <3>1
      <3>2. CASE ends
        <4>1. span \in softTrace' /\ span.cpu = cpu /\ span.stime < m /\ m <= span.etime
          BY <1>2, <2>3, <3>2
        <4> QED BY <4>1
      <3> QED BY <1>7, <2>3, <3>1, <3>2
    <2> QED BY <2>1, <2>2, <2>3
  <1>13. ASSUME began'[cpu] # 0, NEW m \in began'[cpu] + 1 .. now' PROVE truth'[m] = "displaced"
    <2>1. CASE began'[cpu] = now + 1
      BY <1>2, <1>13, <2>1
    <2>2. CASE began'[cpu] = began[cpu]
      <3>1. CASE m = now + 1
        BY <1>2, <1>5, <1>13, <2>2, <3>1
      <3>2. CASE m <= now
        BY <1>2, <1>4, <1>13, <2>2, <3>2
      <3> QED BY <1>2, <1>4, <1>13, <2>2, <3>1, <3>2
    <2> QED BY <1>7, <1>13, <2>1, <2>2
  <1> QED BY <1>9, <1>10, <1>11, <1>12, <1>13 DEF OnFacts

-----------------------------------------------------------------------------
(* The switches of the thread.                                             *)

LEMMA InRecordIs ==
  ASSUME NEW c
  PROVE  /\ OwnIn(InRecord(c)) /\ ~OwnOut(InRecord(c)) /\ ~Wake(InRecord(c)) /\ Own(InRecord(c))
         /\ InRecord(c).time = now + 1 /\ InRecord(c).cpu = c /\ InRecord(c).type = "switch_to"
  BY WakerAssumption DEF InRecord, Record, OwnIn, OwnOut, Own, Wake

LEMMA OutRecordIs ==
  ASSUME NEW s
  PROVE  /\ OwnOut(OutRecord(s)) /\ ~OwnIn(OutRecord(s)) /\ ~Wake(OutRecord(s)) /\ Own(OutRecord(s))
         /\ OutRecord(s).time = now + 1 /\ OutRecord(s).cpu = cpu
         /\ OutRecord(s).prevState = s /\ OutRecord(s).type = "switch_to"
  BY WakerAssumption DEF OutRecord, Record, OwnIn, OwnOut, Own, Wake

LEMMA InGrows ==
  ASSUME TypeInv, TraceInv, NEW c \in CPUs, SwitchIn(c)
  PROVE  Grows /\ TraceInv' /\ Stamped' = Stamped \cup {InRecord(c)}
  <1>1. Log(InRecord(c)) /\ Tick /\ UNCHANGED softTrace /\ doing \notin {"exiting", "exited"}
    BY DEF SwitchIn, InRecord
  <1>2. InRecord(c) \in Analyzer!Switch
    BY <1>1, RecordsTyped, TickTyped DEF TypeInv
  <1> QED BY <1>1, <1>2, InRecordIs, LogGrows

LEMMA OutGrows ==
  ASSUME TypeInv, TraceInv, NEW s \in {0, 1}, SwitchOut(s)
  PROVE  Grows /\ TraceInv' /\ Stamped' = Stamped \cup {OutRecord(s)}
  <1>1. Log(OutRecord(s)) /\ Tick /\ UNCHANGED softTrace
    BY DEF SwitchOut, OutRecord
  <1>2. OutRecord(s) \in Analyzer!Switch
    BY <1>1, RecordsTyped, TickTyped DEF TypeInv
  <1>3. doing' \in {"exiting", "exited"} \/ doing \notin {"exiting", "exited"}
    BY DEF SwitchOut
  <1> QED BY <1>1, <1>2, <1>3, OutRecordIs, LogGrows

LEMMA InStep ==
  ASSUME TypeInv, TypeOK', KernelInv, NEW c \in CPUs, SwitchIn(c)
  PROVE  OnInv' /\ OffInv' /\ OutInv' /\ InInv'
  <1> USE DEF KernelInv, TypeInv
  <1>1. Grows /\ Stamped' = Stamped \cup {InRecord(c)} /\ now' = now + 1 /\ now \in Nat
    BY InGrows, StampedTyped DEF Grows
  <1>2. /\ \A a \in Int : a <= now + 1 => ~Still(Stamped', a, now')
        /\ \A r : Latest(Stamped', r, now') => r = InRecord(c)
    BY <1>1, InRecordIs, NowSwitched
  <1>3. /\ doing' = "running" /\ cpu' = c /\ began[c] = 0 /\ began' = began /\ softTrace' = softTrace
        /\ doing \in {"runnable", "left"}
    BY DEF SwitchIn, MaySwitch
  <1>4. OnInv'
    <2>1. \A r \in Stamped' : Latest(Stamped', r, now') => OwnIn(r) /\ r.cpu = c
      BY <1>2, InRecordIs
    <2>2. \A m \in 1 .. now' : ~Still(Stamped', m, now')
      <3>1. ASSUME NEW m \in 1 .. now' PROVE m \in Int /\ m <= now + 1
        BY <1>1
      <3> QED BY <1>2, <3>1
    <2>3. \A s \in softTrace' : s.etime <= now' => ~Still(Stamped', s.stime, now')
      <3>1. ASSUME NEW s \in softTrace' PROVE s.stime \in Int /\ s.stime <= now + 1
        BY <1>1, <1>3, StampedTyped, SoftFields DEF SoftInv
      <3> QED BY <1>2, <3>1
    <2>4. OnFacts(Stamped', softTrace', truth', c, now', 0)
      BY <2>1, <2>2, <2>3 DEF OnFacts
    <2> QED BY <1>3, <2>4 DEF OnInv
  <1>5. OffInv'
    BY <1>1, <1>3, OffPast DEF OffInv, OnCpu
  <1>6. OutInv'
    BY <1>1, InRecordIs, OutKept
  <1>7. InInv'
    <2>1. SUFFICES ASSUME NEW q \in Stamped', NEW r \in Stamped', OwnIn(q),
                          Latest(Stamped', r, q.time - 1)
                   PROVE  OwnOut(r)
      BY DEF InInv
    <2>2. CASE q \in Stamped
      <3>1. q.time - 1 \in Int /\ q.time - 1 <= now
        BY <1>1, <2>2 DEF TraceInv
      <3>2. Latest(Stamped, r, q.time - 1) /\ r \in Stamped
        BY <1>1, <2>1, <3>1, PastKept
      <3> QED BY <2>1, <2>2, <3>2 DEF InInv
    <2>3. CASE q = InRecord(c)
      <3>1. q.time - 1 = now /\ now \in Int /\ now <= now
        BY <1>1, <2>3, InRecordIs
      <3>2. Latest(Stamped, r, now) /\ r \in Stamped
        BY <1>1, <2>1, <3>1, PastKept
      <3> QED BY <1>3, <3>2 DEF OffInv, OnCpu
    <2> QED BY <1>1, <2>2, <2>3
  <1> QED BY <1>4, <1>5, <1>6, <1>7

LEMMA OutStep ==
  ASSUME TypeInv, TypeOK', KernelInv, NEW s \in {0, 1}, SwitchOut(s)
  PROVE  OnInv' /\ OffInv' /\ OutInv' /\ InInv'
  <1> USE DEF KernelInv, TypeInv
  <1>1. /\ Grows /\ Stamped' = Stamped \cup {OutRecord(s)} /\ now' = now + 1 /\ now \in Nat
        /\ OutRecord(s) \in Stamped'
    BY OutGrows, StampedTyped DEF Grows
  <1>2. \A r : Latest(Stamped', r, now') => r = OutRecord(s)
    BY <1>1, OutRecordIs, NowSwitched
  <1>3. /\ doing' \in {"runnable", "blocked", "left", "exited"} /\ doing \in OnCpu
        /\ began[cpu] = 0 /\ cpu \in CPUs
    BY DEF SwitchOut, MaySwitch, OnCpu, TypeOK
  <1>4. OnInv'
    BY <1>3 DEF OnInv, OnCpu
  <1>5. OffInv'
    BY <1>1, <1>2, <1>3, OutRecordIs, OffPast DEF OffInv, OnCpu
  <1>6. InInv'
    BY <1>1, OutRecordIs, InKept
  <1>7. OutInv'
    <2>1. SUFFICES ASSUME NEW q \in Stamped', OwnOut(q)
                   PROVE  /\ OnFacts(Stamped', softTrace', truth', q.cpu, q.time - 1, 0)
                          /\ truth'[q.time] = "running"
      BY DEF OutInv
    <2>2. CASE q \in Stamped
      <3>1. q.time \in 1 .. now /\ q.cpu \in CPUs
        BY <2>2, StampedTyped, RecordFields DEF TraceInv
      <3>2. OnFacts(Stamped, softTrace, truth, q.cpu, q.time - 1, 0) /\ truth[q.time] = "running"
        BY <2>1, <2>2 DEF OutInv
      <3>3. q.time - 1 \in Int /\ q.time - 1 <= now /\ 0 \in Nat
        BY <1>1, <3>1
      <3>4. OnFacts(Stamped', softTrace', truth', q.cpu, q.time - 1, 0)
        BY <1>1, <3>1, <3>2, <3>3, PastKept
      <3> QED BY <1>1, <3>1, <3>2, <3>4, TruthGrows
    <2>3. CASE q = OutRecord(s)
      <3>1. q.time - 1 = now /\ q.cpu = cpu /\ now \in Int /\ now <= now /\ 0 \in Nat
            /\ q.time = now + 1
        BY <1>1, <2>3, OutRecordIs
      <3>2. OnFacts(Stamped, softTrace, truth, cpu, now, 0)
        BY <1>3 DEF OnInv
      <3>3. OnFacts(Stamped', softTrace', truth', cpu, now, 0)
        BY <1>1, <1>3, <3>1, <3>2, PastKept
      <3>4. Truth = "running"
        BY <1>3, TruthOnCpu
      <3> QED BY <1>1, <3>1, <3>3, <3>4, TruthGrows
    <2> QED BY <1>1, <2>2, <2>3
  <1> QED BY <1>4, <1>5, <1>6, <1>7

-----------------------------------------------------------------------------
(* Softirqs.                                                               *)

LEMMA SoftKept ==
  ASSUME TypeInv, KernelInv, TypeOK', Grows, UNCHANGED <<began, softTrace>>,
         \A r \in Stamped' \ Stamped : r.type = "switch_to" => began[r.cpu] = 0
  PROVE  SoftInv'
  <1> USE DEF KernelInv, TypeInv
  <1>1. now \in Nat /\ now' = now + 1 /\ began' = began /\ softTrace' = softTrace
    BY StampedTyped DEF Grows
  <1>2. /\ \A s \in softTrace : s.stime \in Nat /\ s.etime \in Nat /\ s.cpu \in CPUs
        /\ \A c \in CPUs : began[c] \in Nat
    BY StampedTyped, SoftFields, MaxTimeAssumption DEF TypeOK
  <1>3. \A r \in Stamped' : r \in Stamped \/ r.time = now + 1
    BY DEF Grows
  <1>4. /\ \A s \in softTrace' : 1 <= s.stime /\ s.stime < s.etime /\ s.etime <= now'
        /\ \A c \in CPUs : began'[c] <= now'
    BY <1>1, <1>2 DEF SoftInv
  <1>5. ASSUME NEW s \in softTrace, NEW r \in Stamped', r.type = "switch_to", r.cpu = s.cpu
        PROVE  r.time < s.stime \/ s.etime < r.time
    BY <1>1, <1>2, <1>3, <1>5 DEF SoftInv
  <1>6. ASSUME NEW c \in CPUs, began[c] # 0, NEW r \in Stamped', r.type = "switch_to", r.cpu = c
        PROVE  r.time < began[c]
    BY <1>6 DEF SoftInv
  <1> QED BY <1>1, <1>4, <1>5, <1>6 DEF SoftInv

LEMMA BeginSoft ==
  ASSUME TypeInv, KernelInv, TypeOK', NEW c \in CPUs, SoftirqBegin(c)
  PROVE  SoftInv' /\ Grows /\ TraceInv' /\ Stamped' = Stamped
  <1> USE DEF KernelInv, TypeInv
  <1>1. Grows /\ TraceInv' /\ Stamped' = Stamped
    BY NoLogGrows DEF SoftirqBegin
  <1>2. /\ now \in Nat /\ now' = now + 1 /\ softTrace' = softTrace /\ began[c] = 0
        /\ began'[c] = now + 1 /\ \A d \in CPUs : d # c => began'[d] = began[d]
    BY StampedTyped, <1>1 DEF Grows, SoftirqBegin, TypeOK
  <1>3. /\ \A s \in softTrace : s.stime \in Nat /\ s.etime \in Nat /\ s.cpu \in CPUs
        /\ \A d \in CPUs : began[d] \in Nat
        /\ \A r \in Stamped : r.time \in 1 .. now
    BY StampedTyped, SoftFields, MaxTimeAssumption DEF TypeOK, TraceInv
  <1>4. SoftInv'
    BY <1>1, <1>2, <1>3 DEF SoftInv
  <1> QED BY <1>1, <1>4

LEMMA EndSoft ==
  ASSUME TypeInv, KernelInv, TypeOK', NEW c \in CPUs, SoftirqEnd(c)
  PROVE  SoftInv' /\ Grows /\ TraceInv' /\ Stamped' = Stamped
  <1> USE DEF KernelInv, TypeInv
  <1> DEFINE span == [cpu |-> c, stime |-> began[c], etime |-> now + 1]
  <1>1. softTrace' = softTrace \cup {span} /\ began' = [began EXCEPT ![c] = 0] /\ began[c] # 0
    BY DEF SoftirqEnd
  <1>2. span.cpu = c /\ span.stime = began[c] /\ span.etime = now + 1
    OBVIOUS
  <1> HIDE DEF span
  <1>3. Grows /\ TraceInv' /\ Stamped' = Stamped
    <2>1. softTrace \subseteq softTrace' /\ \A s \in softTrace' \ softTrace : s.etime = now + 1
      BY <1>1, <1>2
    <2> QED BY <2>1, NoLogGrows DEF SoftirqEnd
  <1>4. /\ now \in Nat /\ now' = now + 1
        /\ began'[c] = 0 /\ \A d \in CPUs : d # c => began'[d] = began[d]
    BY StampedTyped, <1>1, <1>3 DEF Grows, TypeOK
  <1>5. /\ \A s \in softTrace : s.stime \in Nat /\ s.etime \in Nat /\ s.cpu \in CPUs
        /\ \A d \in CPUs : began[d] \in Nat
        /\ \A r \in Stamped : r.time \in 1 .. now
    BY StampedTyped, SoftFields, MaxTimeAssumption DEF TypeOK, TraceInv
  <1>6. /\ \A s \in softTrace' : 1 <= s.stime /\ s.stime < s.etime /\ s.etime <= now'
        /\ \A d \in CPUs : began'[d] <= now'
    BY <1>1, <1>2, <1>4, <1>5 DEF SoftInv
  <1>7. ASSUME NEW s \in softTrace', NEW r \in Stamped, r.type = "switch_to", r.cpu = s.cpu
        PROVE  r.time < s.stime \/ s.etime < r.time
    BY <1>1, <1>2, <1>5, <1>7 DEF SoftInv
  <1>8. ASSUME NEW d \in CPUs, began'[d] # 0, NEW r \in Stamped, r.type = "switch_to", r.cpu = d
        PROVE  r.time < began'[d]
    BY <1>4, <1>8 DEF SoftInv
  <1>9. ASSUME NEW r \in softTrace', NEW s \in softTrace', r.cpu = s.cpu
        PROVE  r = s \/ r.etime < s.stime \/ s.etime < r.stime
    BY <1>1, <1>2, <1>5, <1>9 DEF SoftInv
  <1>10. ASSUME NEW s \in softTrace', began'[s.cpu] # 0 PROVE s.etime < began'[s.cpu]
    BY <1>1, <1>2, <1>4, <1>5, <1>10 DEF SoftInv
  <1> QED BY <1>3, <1>6, <1>7, <1>8, <1>9, <1>10 DEF SoftInv

-----------------------------------------------------------------------------
(* Every step of the kernel.                                               *)

LEMMA InitKernel == Init => KernelInv
  <1>1. ASSUME Init PROVE KernelInv
    <2>1. Stamped = {} /\ Range(trace) = {} /\ DOMAIN trace = {} /\ Len(truth) = 0 /\ now = 0
      BY <1>1 DEF Init, Stamped, Range
    <2>2. TraceInv /\ OffInv /\ OutInv /\ InInv
      BY <1>1, <2>1 DEF Init, TraceInv, SortedInv, OffInv, OutInv, InInv, Latest
    <2>3. SoftInv
      BY <1>1, <2>1 DEF Init, SoftInv
    <2>4. OnInv
      BY <1>1, <2>1 DEF Init, OnInv, OnFacts, Latest
    <2> QED BY <2>2, <2>3, <2>4 DEF KernelInv
  <1> QED BY <1>1

(* The other records: what Aside asks of them.                             *)
LEMMA PlainRecords ==
  /\ ~Own(NewRecord) /\ ~Wake(NewRecord) /\ NewRecord.type = "wake_up_new_task"
  /\ NewRecord.time = now + 1
  /\ \A c : /\ ~Own(OtherRecord(c)) /\ ~Wake(OtherRecord(c)) /\ OtherRecord(c).cpu = c
            /\ OtherRecord(c).time = now + 1 /\ OtherRecord(c).type = "switch_to"
  /\ \A ctx : /\ ~Own(WakeRecord(ctx)) /\ Wake(WakeRecord(ctx))
              /\ WakeRecord(ctx).time = now + 1 /\ WakeRecord(ctx).type = "try_to_wake_up"
              /\ WakeRecord(ctx).ctx = ctx /\ WakeRecord(ctx).prev = Waker
  BY WakerAssumption, PidAssumption DEF NewRecord, OtherRecord, WakeRecord, Record, Own, OwnIn, OwnOut, Wake

LEMMA AsideStep ==
  ASSUME TypeInv, TypeOK', KernelInv, Grows, TraceInv', SoftInv', Aside,
         UNCHANGED <<began, softTrace>> \/ Serves
  PROVE  KernelInv'
  <1>1. TypeOK /\ \A r \in Stamped' \ Stamped : ~OwnOut(r) /\ ~OwnIn(r)
    BY DEF Aside, Own, TypeInv
  <1>2. OnInv' /\ OffInv' /\ OutInv' /\ InInv'
    BY <1>1, OnAside, OffAside, OutKept, InKept
  <1> QED BY <1>2 DEF KernelInv

(* Wake-ups, and what they log.                                            *)
WakeStep(ctx) == WakeUp(ctx) \/ NeedlessWakeUp(ctx) \/ MisleadingWakeUp(ctx)

LEMMA WakeGrows ==
  ASSUME TypeInv, TraceInv, NEW ctx \in Contexts, WakeStep(ctx)
  PROVE  /\ Grows /\ TraceInv' /\ Stamped' = Stamped \cup {WakeRecord(ctx)}
         /\ UNCHANGED <<cpu, began, softTrace>>
         /\ doing' \in {"runnable", "running", "leaving", "blocked", "left"}
         /\ doing' \in OnCpu <=> doing \in OnCpu
  <1>1. /\ Log(WakeRecord(ctx)) /\ Tick /\ UNCHANGED <<cpu, began, softTrace>>
        /\ doing \in {"runnable", "running", "blocked", "left"}
        /\ doing' \in {"runnable", "running", "leaving", "blocked", "left"}
        /\ doing' \in OnCpu <=> doing \in OnCpu
    BY DEF WakeStep, WakeUp, NeedlessWakeUp, MisleadingWakeUp, LogWakeUp, WakeRecord, OnCpu
  <1>2. WakeRecord(ctx) \in Analyzer!Switch
    BY <1>1, RecordsTyped, TickTyped DEF TypeInv
  <1> QED BY <1>1, <1>2, PlainRecords, LogGrows

LEMMA StepKernel ==
  ASSUME TypeInv, KernelInv, KernelStep
  PROVE  KernelInv' /\ Grows
  <1> USE DEF KernelInv
  <1>1. TypeOK /\ TypeOK'
    BY KernelTyped DEF TypeInv
  <1>2. CASE Create
    <2>1. /\ Log(NewRecord) /\ Tick /\ UNCHANGED <<cpu, began, softTrace>>
          /\ doing = "unborn" /\ doing' = "runnable"
      BY <1>2 DEF Create, NewRecord
    <2>2. NewRecord \in Analyzer!Switch
      BY <1>1, <2>1, RecordsTyped, TickTyped
    <2>3. Grows /\ TraceInv' /\ Stamped' = Stamped \cup {NewRecord}
      BY <2>1, <2>2, PlainRecords, LogGrows
    <2>4. SoftInv' /\ Aside
      BY <1>1, <2>1, <2>3, PlainRecords, SoftKept DEF Aside, OnCpu
    <2> QED BY <1>1, <2>1, <2>3, <2>4, AsideStep
  <1>3. CASE Exit
    <2>1. Grows /\ TraceInv' /\ Stamped' = Stamped
      BY <1>3, ExitGrows
    <2>2. UNCHANGED <<cpu, began, softTrace>> /\ doing = "running" /\ doing' = "exiting"
      BY <1>3 DEF Exit
    <2>3. SoftInv' /\ Aside
      BY <1>1, <2>1, <2>2, SoftKept DEF Aside, OnCpu
    <2> QED BY <1>1, <2>1, <2>2, <2>3, AsideStep
  <1>4. ASSUME NEW s \in {0, 1}, SwitchOut(s) PROVE KernelInv' /\ Grows
    <2>1. Grows /\ TraceInv' /\ Stamped' = Stamped \cup {OutRecord(s)}
      BY <1>4, OutGrows
    <2>2. UNCHANGED <<began, softTrace>> /\ began[cpu] = 0
      BY <1>4 DEF SwitchOut, MaySwitch
    <2>3. SoftInv'
      BY <1>1, <2>1, <2>2, OutRecordIs, SoftKept
    <2> QED BY <1>1, <1>4, <2>1, <2>3, OutStep
  <1>5. ASSUME NEW ctx \in Contexts, WakeStep(ctx) PROVE KernelInv' /\ Grows
    <2>1. /\ Grows /\ TraceInv' /\ Stamped' = Stamped \cup {WakeRecord(ctx)}
          /\ UNCHANGED <<cpu, began, softTrace>>
          /\ doing' \in {"runnable", "running", "leaving", "blocked", "left"}
          /\ doing' \in OnCpu <=> doing \in OnCpu
      BY <1>5, WakeGrows
    <2>2. SoftInv' /\ Aside
      BY <1>1, <2>1, PlainRecords, SoftKept DEF Aside
    <2> QED BY <1>1, <2>1, <2>2, AsideStep
  <1>6. ASSUME NEW c \in CPUs, SwitchIn(c) PROVE KernelInv' /\ Grows
    <2>1. Grows /\ TraceInv' /\ Stamped' = Stamped \cup {InRecord(c)}
      BY <1>6, InGrows
    <2>2. UNCHANGED <<began, softTrace>> /\ began[c] = 0
      BY <1>6 DEF SwitchIn, MaySwitch
    <2>3. SoftInv'
      BY <1>1, <2>1, <2>2, InRecordIs, SoftKept
    <2> QED BY <1>1, <1>6, <2>1, <2>3, InStep
  <1>7. ASSUME NEW c \in CPUs, OtherSwitch(c) PROVE KernelInv' /\ Grows
    <2>1. /\ Log(OtherRecord(c)) /\ Tick /\ UNCHANGED <<doing, cpu, began, softTrace>>
          /\ began[c] = 0
      BY <1>7 DEF OtherSwitch, OtherRecord, MaySwitch
    <2>2. OtherRecord(c) \in Analyzer!Switch
      BY <1>1, <2>1, RecordsTyped, TickTyped
    <2>3. Grows /\ TraceInv' /\ Stamped' = Stamped \cup {OtherRecord(c)}
      BY <2>1, <2>2, PlainRecords, LogGrows
    <2>4. SoftInv' /\ Aside
      BY <1>1, <2>1, <2>3, PlainRecords, SoftKept DEF Aside
    <2> QED BY <1>1, <2>1, <2>3, <2>4, AsideStep
  <1>8. ASSUME NEW c \in CPUs, SoftirqBegin(c) PROVE KernelInv' /\ Grows
    <2>1. SoftInv' /\ Grows /\ TraceInv' /\ Stamped' = Stamped
      BY <1>1, <1>8, BeginSoft
    <2>2. Aside /\ Serves
      BY <1>8, <2>1 DEF Aside, Serves, SoftirqBegin
    <2> QED BY <1>1, <2>1, <2>2, AsideStep
  <1>9. ASSUME NEW c \in CPUs, SoftirqEnd(c) PROVE KernelInv' /\ Grows
    <2>1. SoftInv' /\ Grows /\ TraceInv' /\ Stamped' = Stamped
      BY <1>1, <1>9, EndSoft
    <2>2. Aside /\ Serves
      BY <1>9, <2>1 DEF Aside, Serves, SoftirqEnd
    <2> QED BY <1>1, <2>1, <2>2, AsideStep
  <1> QED BY <1>2, <1>3, <1>4, <1>5, <1>6, <1>7, <1>8, <1>9 DEF KernelStep, WakeStep

-----------------------------------------------------------------------------
(* Wake-ups.                                                               *)

NoRaces == WakeUpRaces = {}

LEMMA WokenGrows ==
  ASSUME TypeOK, TypeOK', KernelInv, Grows, NEW r \in Stamped
  PROVE  /\ WokenIn(Stamped, r.time, now) => WokenIn(Stamped', r.time, now')
         /\ (\A w \in Stamped' \ Stamped : ~Wake(w)) =>
              (WokenIn(Stamped', r.time, now') => WokenIn(Stamped, r.time, now))
  <1>1. /\ \A w \in Stamped : w.time \in 1 .. now
        /\ now \in Nat /\ now' = now + 1 /\ Stamped \subseteq Stamped'
    BY StampedTyped DEF KernelInv, TraceInv, Grows
  <1> QED BY <1>1 DEF WokenIn

LEMMA RunnableGrows ==
  ASSUME TypeOK, TypeOK', KernelInv, Grows, NEW r \in Stamped, Truth = "runnable",
         RunnableFacts(Stamped, truth, r, now)
  PROVE  RunnableFacts(Stamped', truth', r, now')
  <1>1. /\ now \in Nat /\ now' = now + 1 /\ r.time \in 1 .. now
        /\ truth'[now + 1] = "runnable" /\ \A m \in 1 .. now : truth'[m] = truth[m]
    BY TruthGrows DEF KernelInv, TraceInv, Grows
  <1>2. ASSUME r.prevState = 0, NEW m \in r.time + 1 .. now' PROVE truth'[m] = "runnable"
    BY <1>1, <1>2 DEF RunnableFacts
  <1>3. ASSUME r.prevState = 1, NEW m \in r.time + 1 .. now',
               WokenIn(Stamped', r.time, m - 1) \/ ~WokenIn(Stamped', r.time, now')
        PROVE  truth'[m] = "runnable"
    <2>1. CASE m = now + 1
      BY <1>1, <2>1
    <2>2. CASE m <= now
      <3>1. m - 1 \in Int /\ m - 1 <= now /\ r.time \in Int /\ m \in r.time + 1 .. now
        BY <1>1, <2>2
      <3>2. WokenIn(Stamped', r.time, m - 1) => WokenIn(Stamped, r.time, m - 1)
        BY <3>1, PastKept DEF KernelInv
      <3>3. WokenIn(Stamped, r.time, m - 1) \/ ~WokenIn(Stamped, r.time, now)
        BY <1>3, <3>2, WokenGrows
      <3>4. truth[m] = "runnable"
        BY <1>3, <3>1, <3>3 DEF RunnableFacts
      <3> QED BY <1>1, <3>1, <3>4
    <2> QED BY <1>1, <2>1, <2>2
  <1> QED BY <1>2, <1>3 DEF RunnableFacts

LEMMA BlockedGrows ==
  ASSUME TypeOK, KernelInv, Grows, NEW r \in Stamped, Truth = "blocked",
         BlockedFacts(truth, r, now)
  PROVE  BlockedFacts(truth', r, now')
  <1>1. /\ now \in Nat /\ now' = now + 1 /\ r.time \in 1 .. now
        /\ truth'[now + 1] = "blocked" /\ \A m \in 1 .. now : truth'[m] = truth[m]
    BY TruthGrows DEF KernelInv, TraceInv, Grows
  <1> QED BY <1>1 DEF BlockedFacts

LEMMA InWakeKept ==
  ASSUME TypeOK, TypeOK', KernelInv, WakeInv, Grows, NEW q \in Stamped, NEW r \in Stamped',
         OwnIn(q), Latest(Stamped', r, q.time - 1)
  PROVE  RunnableFacts(Stamped', truth', r, q.time - 1) /\ truth'[q.time] = "runnable"
  <1>1. q.time - 1 \in Int /\ q.time - 1 <= now /\ q.time \in 1 .. now
    BY StampedTyped DEF KernelInv, TraceInv
  <1>2. Latest(Stamped, r, q.time - 1) /\ r \in Stamped
    BY <1>1, PastKept DEF KernelInv
  <1>3. RunnableFacts(Stamped, truth, r, q.time - 1) /\ truth[q.time] = "runnable"
    BY <1>2 DEF WakeInv, InWakeInv
  <1>4. RunnableFacts(Stamped', truth', r, q.time - 1)
    BY <1>1, <1>2, <1>3, PastKept DEF KernelInv
  <1> QED BY <1>1, <1>3, <1>4, TruthGrows DEF KernelInv

LEMMA WakerKept ==
  ASSUME TypeOK, TypeOK', KernelInv, WakeInv, Grows, woken \subseteq woken',
         NEW q \in Stamped, NEW r \in Stamped', Wake(q), Latest(Stamped', r, q.time - 1),
         OwnOut(r), r.prevState = 1, ~WokenIn(Stamped', r.time, q.time - 1)
  PROVE  BlockedFacts(truth', r, q.time) /\ <<q.time, Analyzer!WaitedFor(q)>> \in woken'
  <1>1. q.time - 1 \in Int /\ q.time - 1 <= now /\ q.time \in 1 .. now /\ now \in Nat
    BY StampedTyped DEF KernelInv, TraceInv
  <1>2. Latest(Stamped, r, q.time - 1) /\ r \in Stamped
    BY <1>1, PastKept DEF KernelInv
  <1>3. r.time \in 1 .. now
    BY <1>2 DEF KernelInv, TraceInv
  <1>4. ~WokenIn(Stamped, r.time, q.time - 1)
    BY <1>1, <1>3, PastKept DEF KernelInv
  <1>5. BlockedFacts(truth, r, q.time) /\ <<q.time, Analyzer!WaitedFor(q)>> \in woken
    BY <1>2, <1>4 DEF WakeInv, WakerInv
  <1>6. BlockedFacts(truth', r, q.time)
    BY <1>1, <1>3, <1>5, TruthGrows DEF KernelInv, BlockedFacts
  <1> QED BY <1>5, <1>6

LEMMA NoWakeStep ==
  ASSUME TypeOK, TypeOK', KernelInv, WakeInv, Grows, UNCHANGED woken,
         \A r \in Stamped' \ Stamped : ~Wake(r)
  PROVE  /\ WakerInv'
         /\ (\A r \in Stamped' \ Stamped : ~OwnIn(r)) => InWakeInv'
         /\ (\A r \in Stamped' \ Stamped : ~Own(r)) /\ doing' = doing => NowWakeInv'
  <1>1. WakerInv'
    BY WakerKept DEF WakerInv
  <1>2. ASSUME \A r \in Stamped' \ Stamped : ~OwnIn(r) PROVE InWakeInv'
    BY <1>2, InWakeKept DEF InWakeInv
  <1>3. ASSUME \A r \in Stamped' \ Stamped : ~Own(r), doing' = doing PROVE NowWakeInv'
    <2>1. SUFFICES ASSUME NEW r \in Stamped', Latest(Stamped', r, now')
                   PROVE  NowFacts(r)'
      BY DEF NowWakeInv
    <2>2. r \in Stamped /\ NowFacts(r)
      <3>1. Latest(Stamped, r, now)
        BY <1>3, <2>1, NowKept DEF KernelInv
      <3> QED BY <3>1 DEF WakeInv, NowWakeInv, Latest
    <2>3. WokenIn(Stamped', r.time, now') <=> WokenIn(Stamped, r.time, now)
      BY <2>2, WokenGrows
    <2>4. doing \in {"runnable", "left"} => RunnableFacts(Stamped', truth', r, now')
      <3>1. doing \in {"runnable", "left"} => Truth = "runnable"
        BY DEF Truth, OnCpu
      <3> QED BY <2>2, <3>1, RunnableGrows DEF NowFacts
    <2>5. doing = "blocked" => BlockedFacts(truth', r, now')
      <3>1. doing = "blocked" => Truth = "blocked"
        BY DEF Truth, OnCpu
      <3> QED BY <2>2, <3>1, BlockedGrows DEF NowFacts
    <2> QED BY <1>3, <2>2, <2>3, <2>4, <2>5 DEF NowFacts
  <1> QED BY <1>1, <1>2, <1>3

(* A wake-up that finds the thread on its CPU, runnable or blocked.        *)
LEMMA WakeStepKept ==
  ASSUME NoRaces, TypeInv, TypeOK', KernelInv, WakeInv, NEW ctx \in Contexts, WakeStep(ctx)
  PROVE  WakeInv'
  <1> USE DEF TypeInv
  <1>1. /\ Grows /\ Stamped' = Stamped \cup {WakeRecord(ctx)}
        /\ now \in Nat /\ now' = now + 1 /\ WakeRecord(ctx) \in Stamped'
    BY WakeGrows, StampedTyped DEF KernelInv, Grows
  <1>2. /\ Wake(WakeRecord(ctx)) /\ ~Own(WakeRecord(ctx)) /\ WakeRecord(ctx).time = now + 1
        /\ WakeRecord(ctx).ctx = ctx /\ WakeRecord(ctx).prev = Waker
    BY PlainRecords
  <1>3. woken \subseteq woken'
    BY DEF WakeStep, WakeUp, NeedlessWakeUp, MisleadingWakeUp
  <1>4. \/ doing = "blocked" /\ doing' = "runnable" /\ <<now + 1, By(ctx)>> \in woken'
        \/ doing = "runnable" /\ doing' = "runnable"
        \/ doing \in OnCpu /\ doing' \in OnCpu
    BY DEF WakeStep, WakeUp, NeedlessWakeUp, MisleadingWakeUp, NoRaces, OnCpu
  <1>5. InWakeInv'
    BY <1>1, <1>2, InWakeKept DEF InWakeInv, Own
  <1>6. ASSUME NEW r \in Stamped, Latest(Stamped, r, now) PROVE NowFacts(r)
    BY <1>6 DEF WakeInv, NowWakeInv
  <1>7. ASSUME NEW r \in Stamped', Latest(Stamped', r, now),
               OwnOut(r), r.prevState = 1, ~WokenIn(Stamped', r.time, now)
        PROVE  BlockedFacts(truth', r, now') /\ doing = "blocked"
    <2>1. Latest(Stamped, r, now) /\ r \in Stamped /\ r.time \in Int
      <3>1. now \in Int /\ now <= now
        BY <1>1
      <3>2. Latest(Stamped, r, now) /\ r \in Stamped
        BY <1>1, <1>7, <3>1, PastKept DEF KernelInv
      <3> QED BY <3>2, StampedTyped, RecordFields
    <2>2. ~WokenIn(Stamped, r.time, now)
      <3>1. now \in Int /\ now <= now
        BY <1>1
      <3> QED BY <1>1, <1>7, <2>1, <3>1, PastKept DEF KernelInv
    <2>3. doing \notin OnCpu
      BY <1>7, <2>1 DEF KernelInv, OnInv, OnFacts, OwnIn, OwnOut
    <2>4. doing = "blocked"
      BY <1>4, <1>6, <1>7, <2>1, <2>2, <2>3 DEF NowFacts
    <2>5. Truth = "blocked"
      BY <2>4 DEF Truth, OnCpu
    <2> QED BY <1>1, <1>6, <2>1, <2>4, <2>5, BlockedGrows DEF NowFacts
  <1>8. WakerInv'
    <2>1. SUFFICES ASSUME NEW q \in Stamped', NEW r \in Stamped',
                          Wake(q), Latest(Stamped', r, q.time - 1), OwnOut(r), r.prevState = 1,
                          ~WokenIn(Stamped', r.time, q.time - 1)
                   PROVE  BlockedFacts(truth', r, q.time) /\ <<q.time, Analyzer!WaitedFor(q)>> \in woken'
      BY DEF WakerInv
    <2>2. CASE q \in Stamped
      BY <1>1, <1>3, <2>1, <2>2, WakerKept
    <2>3. CASE q = WakeRecord(ctx)
      <3>1. q.time - 1 = now /\ q.time = now'
        BY <1>1, <1>2, <2>3
      <3>2. BlockedFacts(truth', r, now') /\ doing = "blocked"
        BY <1>7, <2>1, <3>1
      <3>3. Analyzer!WaitedFor(q) = By(ctx)
        BY <1>2, <2>3 DEF Analyzer!WaitedFor, By
      <3>4. <<now + 1, By(ctx)>> \in woken'
        BY <1>4, <3>2 DEF OnCpu
      <3> QED BY <1>1, <3>1, <3>2, <3>3, <3>4
    <2> QED BY <1>1, <2>2, <2>3
  <1>9. NowWakeInv'
    <2>1. SUFFICES ASSUME NEW r \in Stamped', Latest(Stamped', r, now')
                   PROVE  NowFacts(r)'
      BY DEF NowWakeInv
    <2>2. Latest(Stamped, r, now) /\ r \in Stamped /\ NowFacts(r) /\ r.time \in 1 .. now
      <3>1. Latest(Stamped, r, now)
        BY <1>1, <1>2, <2>1, NowKept DEF KernelInv
      <3> QED BY <1>6, <3>1 DEF Latest, KernelInv, TraceInv
    <2>3. WokenIn(Stamped', r.time, now')
      BY <1>1, <1>2, <2>2 DEF WokenIn
    <2>4. CASE doing = "runnable" /\ doing' = "runnable"
      <3>1. Truth = "runnable"
        BY <2>4 DEF Truth, OnCpu
      <3>2. RunnableFacts(Stamped', truth', r, now')
        BY <1>1, <2>2, <2>4, <3>1, RunnableGrows DEF NowFacts
      <3> QED BY <2>3, <2>4, <3>2 DEF NowFacts
    <2>5. CASE doing = "blocked" /\ doing' = "runnable"
      <3>1. r.prevState = 1 /\ ~WokenIn(Stamped, r.time, now)
        BY <2>2, <2>5 DEF NowFacts
      <3>2. ASSUME NEW m \in r.time + 1 .. now' PROVE ~WokenIn(Stamped', r.time, m - 1)
        <4>1. m - 1 \in Int /\ m - 1 <= now /\ r.time \in Int
          BY <1>1, <2>2
        <4>2. WokenIn(Stamped', r.time, m - 1) => WokenIn(Stamped, r.time, m - 1)
          BY <1>1, <4>1, PastKept DEF KernelInv
        <4>3. WokenIn(Stamped, r.time, m - 1) => WokenIn(Stamped, r.time, now)
          BY <1>1, <4>1 DEF WokenIn, KernelInv, TraceInv
        <4> QED BY <3>1, <4>2, <4>3
      <3>3. RunnableFacts(Stamped', truth', r, now')
        BY <2>3, <3>1, <3>2 DEF RunnableFacts
      <3> QED BY <2>3, <2>5, <3>3 DEF NowFacts
    <2>6. CASE doing' \in OnCpu
      BY <2>6 DEF NowFacts, OnCpu
    <2> QED BY <1>4, <2>4, <2>5, <2>6
  <1> QED BY <1>5, <1>8, <1>9 DEF WakeInv

LEMMA InWakeStep ==
  ASSUME TypeInv, TypeOK', KernelInv, WakeInv, NEW c \in CPUs, SwitchIn(c)
  PROVE  WakeInv'
  <1> USE DEF TypeInv
  <1>1. /\ Grows /\ Stamped' = Stamped \cup {InRecord(c)} /\ now \in Nat /\ UNCHANGED woken
        /\ doing' = "running" /\ doing \in {"runnable", "left"}
    BY InGrows, StampedTyped DEF KernelInv, SwitchIn
  <1>2. WakerInv'
    BY <1>1, InRecordIs, NoWakeStep
  <1>3. NowWakeInv'
    BY <1>1 DEF NowWakeInv, NowFacts
  <1>4. InWakeInv'
    <2>1. SUFFICES ASSUME NEW q \in Stamped', NEW r \in Stamped', OwnIn(q),
                          Latest(Stamped', r, q.time - 1)
                   PROVE  RunnableFacts(Stamped', truth', r, q.time - 1) /\ truth'[q.time] = "runnable"
      BY DEF InWakeInv
    <2>2. CASE q \in Stamped
      BY <1>1, <2>1, <2>2, InWakeKept
    <2>3. CASE q = InRecord(c)
      <3>1. q.time - 1 = now /\ q.time = now + 1 /\ now \in Int /\ now <= now
        BY <1>1, <2>3, InRecordIs
      <3>2. Latest(Stamped, r, now) /\ r \in Stamped
        BY <1>1, <2>1, <3>1, PastKept DEF KernelInv
      <3>3. RunnableFacts(Stamped, truth, r, now)
        BY <1>1, <3>2 DEF WakeInv, NowWakeInv, NowFacts
      <3>4. RunnableFacts(Stamped', truth', r, now)
        BY <1>1, <3>1, <3>2, <3>3, PastKept DEF KernelInv
      <3>5. Truth = "runnable"
        BY <1>1 DEF Truth, OnCpu
      <3> QED BY <1>1, <3>1, <3>4, <3>5, TruthGrows DEF KernelInv
    <2> QED BY <1>1, <2>2, <2>3
  <1> QED BY <1>2, <1>3, <1>4 DEF WakeInv

LEMMA OutWakeStep ==
  ASSUME TypeInv, TypeOK', KernelInv, WakeInv, NEW s \in {0, 1}, SwitchOut(s)
  PROVE  WakeInv'
  <1> USE DEF TypeInv
  <1>1. /\ Grows /\ Stamped' = Stamped \cup {OutRecord(s)} /\ now \in Nat /\ UNCHANGED woken
        /\ now' = now + 1
        /\ \/ doing' = "runnable" /\ s = 0
           \/ doing' \in {"blocked", "left"} /\ s = 1
           \/ doing' = "exited"
    BY OutGrows, StampedTyped DEF KernelInv, SwitchOut, Grows
  <1>2. WakerInv' /\ InWakeInv'
    BY <1>1, OutRecordIs, NoWakeStep
  <1>3. NowWakeInv'
    <2>1. SUFFICES ASSUME NEW r \in Stamped', Latest(Stamped', r, now')
                   PROVE  NowFacts(r)'
      BY DEF NowWakeInv
    <2>2. r = OutRecord(s)
      BY <1>1, <2>1, OutRecordIs, NowSwitched DEF KernelInv
    <2>3. r.time = now' /\ r.prevState = s /\ now' \in Nat
      BY <1>1, <2>2, OutRecordIs
    <2>4. \A w \in Stamped' : w.time \in Nat
      BY StampedTyped, RecordFields DEF TypeOK, Stamped, Range
    <2>5. ~WokenIn(Stamped', r.time, now')
      BY <2>3, <2>4 DEF WokenIn
    <2>6. r.time + 1 .. now' = {}
      <3>1. \A a \in Nat : a + 1 .. a = {}
        OBVIOUS
      <3>2. now' + 1 .. now' = {}
        BY <2>3, <3>1
      <3> QED BY <2>3, <3>2, Zenon
    <2> QED BY <1>1, <2>3, <2>5, <2>6 DEF NowFacts, RunnableFacts, BlockedFacts
  <1> QED BY <1>2, <1>3 DEF WakeInv

LEMMA StepWake ==
  ASSUME NoRaces, TypeInv, KernelInv, WakeInv, KernelStep
  PROVE  WakeInv'
  <1> USE DEF TypeInv
  <1>1. TypeOK' /\ KernelInv' /\ Grows
    BY KernelTyped, StepKernel
  <1>2. CASE Create
    <2>1. /\ Log(NewRecord) /\ Tick /\ UNCHANGED <<softTrace, woken>>
          /\ doing = "unborn" /\ doing' = "runnable"
      BY <1>2 DEF Create, NewRecord
    <2>2. NewRecord \in Analyzer!Switch
      BY <1>1, <2>1, RecordsTyped, TickTyped
    <2>3. Stamped' = Stamped \cup {NewRecord}
      BY <2>1, <2>2, PlainRecords, LogGrows DEF KernelInv
    <2>4. WakerInv' /\ InWakeInv'
      BY <1>1, <2>1, <2>3, PlainRecords, NoWakeStep DEF Own
    <2>5. NowWakeInv'
      BY <2>1, <2>3, PlainRecords DEF NowWakeInv, Latest, KernelInv, OffInv
    <2> QED BY <2>4, <2>5 DEF WakeInv
  <1>3. CASE Exit
    <2>1. Stamped' = Stamped /\ doing' = "exiting" /\ UNCHANGED woken
      BY <1>3, ExitGrows DEF KernelInv, Exit
    <2>2. WakerInv' /\ InWakeInv'
      BY <1>1, <2>1, NoWakeStep
    <2>3. NowWakeInv'
      BY <2>1 DEF NowWakeInv, NowFacts
    <2> QED BY <2>2, <2>3 DEF WakeInv
  <1>4. ASSUME NEW s \in {0, 1}, SwitchOut(s) PROVE WakeInv'
    BY <1>1, <1>4, OutWakeStep
  <1>5. ASSUME NEW ctx \in Contexts, WakeStep(ctx) PROVE WakeInv'
    BY <1>1, <1>5, WakeStepKept
  <1>6. ASSUME NEW c \in CPUs, SwitchIn(c) PROVE WakeInv'
    BY <1>1, <1>6, InWakeStep
  <1>7. ASSUME NEW c \in CPUs, OtherSwitch(c) PROVE WakeInv'
    <2>1. Log(OtherRecord(c)) /\ Tick /\ UNCHANGED <<doing, softTrace, woken>>
      BY <1>7 DEF OtherSwitch, OtherRecord
    <2>2. OtherRecord(c) \in Analyzer!Switch
      BY <1>1, <2>1, RecordsTyped, TickTyped
    <2>3. Stamped' = Stamped \cup {OtherRecord(c)}
      BY <2>1, <2>2, PlainRecords, LogGrows DEF KernelInv
    <2> QED BY <1>1, <2>1, <2>3, PlainRecords, NoWakeStep DEF Own, WakeInv
  <1>8. ASSUME NEW c \in CPUs, SoftirqBegin(c) \/ SoftirqEnd(c) PROVE WakeInv'
    <2>1. Stamped' = Stamped /\ UNCHANGED <<doing, woken>>
      BY <1>8 DEF SoftirqBegin, SoftirqEnd, Stamped
    <2> QED BY <1>1, <2>1, NoWakeStep DEF WakeInv
  <1> QED BY <1>2, <1>3, <1>4, <1>5, <1>6, <1>7, <1>8 DEF KernelStep, WakeStep

LEMMA InitWake == Init => WakeInv
  BY DEF Init, WakeInv, NowWakeInv, InWakeInv, WakerInv, Stamped, Range

LEMMA AnalyzerKeeps ==
  ASSUME UNCHANGED kernelVars
  PROVE  (KernelInv => KernelInv') /\ (WakeInv => WakeInv')
  <1> USE DEF kernelVars
  <1>1. Stamped' = Stamped
    BY DEF Stamped
  <1>2. (TraceInv => TraceInv') /\ (SoftInv => SoftInv')
    BY <1>1 DEF TraceInv, SortedInv, SoftInv
  <1>3. (OnInv => OnInv') /\ (OffInv => OffInv')
    BY <1>1 DEF OnInv, OffInv
  <1>4. (OutInv => OutInv') /\ (InInv => InInv')
    BY <1>1 DEF OutInv, InInv
  <1>5. (NowWakeInv => NowWakeInv') /\ (InWakeInv => InWakeInv') /\ (WakerInv => WakerInv')
    BY <1>1 DEF NowWakeInv, NowFacts, InWakeInv, WakerInv
  <1> QED BY <1>2, <1>3, <1>4, <1>5 DEF KernelInv, WakeInv

LEMMA AnalyzerOnly ==
  ASSUME Load \/ Analyze \/ UNCHANGED vars
  PROVE  UNCHANGED kernelVars
  BY DEF Load, Analyze, vars

(* Each switch of the thread in the trace, and each record of a softirq,   *)
(* says what the thread was doing since its switch before.                 *)
THEOREM KernelInductive == Spec => []KernelInv
  <1>1. TypeInv /\ KernelInv /\ [Next]_vars => KernelInv'
    BY StepKernel, AnalyzerKeeps, AnalyzerOnly, NextIs
  <1> QED BY InitKernel, TypeInductive, <1>1, PTL DEF Spec

(* So does each wake-up, when none misleads: the first one after a switch   *)
(* out that put the thread to sleep ended that sleep.                      *)
THEOREM WakesInductive ==
  ASSUME NoRaces
  PROVE  Spec => []WakeInv
  <1>1. NoRaces /\ TypeInv /\ KernelInv /\ WakeInv /\ [Next]_vars => WakeInv'
    BY StepWake, AnalyzerKeeps, AnalyzerOnly, NextIs
  <1>2. NoRaces
    OBVIOUS
  <1> QED BY InitWake, TypeInductive, KernelInductive, <1>1, <1>2, PTL DEF Spec

-----------------------------------------------------------------------------
(* What the analyzer has read.                                             *)

ReadIn == {r \in {swl[i] : i \in 1 .. n - 1} : r.type # "do_exit"}

LastRead(r) == r \in ReadIn /\ Own(r) /\ \A q \in ReadIn : Own(q) => q.time <= r.time

(* The time BreakIntoSegments begins with: the exit or the end.            *)
First == Analyzer!GetPrevState(swl).time

UnknownPlace == ps.time = First /\ DOMAIN segs = {} /\ \A q \in ReadIn : ~Own(q)

RunningPlace == \E r \in ReadIn : LastRead(r) /\ r.time = ps.time /\ OwnIn(r)

RunnablePlace ==
  \E r \in ReadIn :
    /\ LastRead(r) /\ OwnOut(r)
    /\ \/ r.time = ps.time /\ r.prevState = 0
       \/ /\ r.prevState = 1 /\ r.time < ps.time
          /\ \E w \in ReadIn : Wake(w) /\ w.time = ps.time

BlockedPlace ==
  \E r \in ReadIn :
    /\ LastRead(r) /\ OwnOut(r) /\ r.time = ps.time /\ r.prevState = 1
    /\ \A w \in ReadIn : Wake(w) => w.time < r.time

(* The state of the thread, as the analyzer knows it, and its last change. *)
PlaceInv ==
  pc = "break" =>
    /\ ps.state = "-1" => UnknownPlace
    /\ ps.state # "-1" => First \in DOMAIN segs
    /\ ps.state = "RUNNING" => RunningPlace
    /\ ps.state = "RUNNABLE" => RunnablePlace
    /\ ps.state = "BLOCKED" => BlockedPlace

LEMMA ReadFacts ==
  ASSUME TypeInv, KernelInv, pc = "break", n <= Len(swl)
  PROVE  /\ ReadIn \subseteq Stamped
         /\ swl[n] \in Analyzer!Switch
         /\ swl[n].type # "do_exit" =>
              /\ swl[n] \in Stamped
              /\ \A q \in ReadIn : q.time < swl[n].time
              /\ \A q \in Stamped : q.time < swl[n].time => q \in ReadIn
  <1>1. swl = trace /\ swl \in Seq(Analyzer!Switch) /\ n \in Nat \ {0} /\ swl[n] \in Analyzer!Switch
    BY BreakFacts DEF TypeInv, LoadedInv
  <1>2. n \in DOMAIN swl /\ \A i \in 1 .. n - 1 : i \in DOMAIN swl
    BY <1>1
  <1>3. ReadIn \subseteq Stamped
    BY <1>1, <1>2 DEF ReadIn, Stamped, Range
  <1>4. \A i \in DOMAIN swl : swl[i].time \in Nat
    BY <1>1, RecordFields
  <1>5. ASSUME swl[n].type # "do_exit"
        PROVE  /\ swl[n] \in Stamped
               /\ \A q \in ReadIn : q.time < swl[n].time
               /\ \A q \in Stamped : q.time < swl[n].time => q \in ReadIn
    <2>1. swl[n] \in Stamped
      BY <1>1, <1>2, <1>5 DEF Stamped, Range
    <2>2. ASSUME NEW q \in ReadIn PROVE q.time < swl[n].time
      <3>1. PICK i \in 1 .. n - 1 : q = swl[i] /\ swl[i].type # "do_exit"
        BY DEF ReadIn
      <3>2. swl[i].time <= swl[n].time /\ swl[i].time # swl[n].time
        BY <1>1, <1>2, <1>5, <3>1 DEF KernelInv, TraceInv, SortedInv
      <3> QED BY <1>2, <1>4, <3>1, <3>2
    <2>3. ASSUME NEW q \in Stamped, q.time < swl[n].time PROVE q \in ReadIn
      <3>1. PICK i \in DOMAIN swl : q = swl[i] /\ swl[i].type # "do_exit"
        BY <1>1 DEF Stamped, Range
      <3>2. ~(n <= i)
        <4>1. n <= i => swl[n].time <= swl[i].time
          BY <1>1, <1>2 DEF KernelInv, TraceInv, SortedInv
        <4> QED BY <1>2, <1>4, <2>3, <3>1, <4>1
      <3>3. i \in 1 .. n - 1
        BY <1>1, <3>2
      <3> QED BY <3>1, <3>3 DEF ReadIn
    <2> QED BY <2>1, <2>2, <2>3
  <1> QED BY <1>1, <1>3, <1>5

LEMMA ReadOn ==
  ASSUME TypeInv, KernelInv, Analyzer!Round, UNCHANGED kernelVars
  PROVE  /\ ReadIn' = ReadIn \cup {r \in {swl[n]} : r.type # "do_exit"}
         /\ Stamped' = Stamped /\ pc = "break" /\ n <= Len(swl) /\ swl' = swl /\ First' = First
         /\ pc' = "break"
  <1>1. pc = "break" /\ n <= Len(swl) /\ swl' = swl /\ n' = n + 1 /\ n \in Nat \ {0} /\ pc' = "break"
    BY BreakFacts DEF Analyzer!Round
  <1>2. 1 .. n' - 1 = (1 .. n - 1) \cup {n}
    BY <1>1
  <1>3. ReadIn' = ReadIn \cup {r \in {swl[n]} : r.type # "do_exit"}
    BY <1>1, <1>2 DEF ReadIn
  <1>4. Stamped' = Stamped
    BY DEF Stamped, kernelVars
  <1> QED BY <1>1, <1>3, <1>4 DEF First, Analyzer!GetPrevState, Analyzer!Exits, Analyzer!ExitTime,
                              Analyzer!TraceEtime, Analyzer!Unknown

(* The last switch that was read is the last one before the next record.   *)
LEMMA LastIsLatest ==
  ASSUME TypeInv, KernelInv, pc = "break", n <= Len(swl), swl[n].type # "do_exit",
         NEW r \in ReadIn, LastRead(r)
  PROVE  Latest(Stamped, r, swl[n].time - 1) /\ r \in Stamped /\ r.time < swl[n].time
  <1>1. /\ r \in Stamped /\ r.time < swl[n].time
        /\ \A q \in Stamped : q.time < swl[n].time => q \in ReadIn
        /\ swl[n].time \in Nat /\ \A q \in Stamped : q.time \in Nat
    BY ReadFacts, StampedTyped, RecordFields DEF TypeInv
  <1>2. Still(Stamped, r.time + 1, swl[n].time - 1)
    BY <1>1 DEF Still, LastRead
  <1> QED BY <1>1, <1>2 DEF Latest, LastRead

LEMMA NoneWoken ==
  ASSUME TypeInv, KernelInv, pc = "break", n <= Len(swl), swl[n].type # "do_exit",
         NEW r \in ReadIn, \A w \in ReadIn : Wake(w) => w.time < r.time
  PROVE  ~WokenIn(Stamped, r.time, swl[n].time - 1)
  <1>1. /\ \A q \in Stamped : q.time < swl[n].time => q \in ReadIn
        /\ swl[n].time \in Nat /\ \A q \in Stamped : q.time \in Nat /\ r \in Stamped
    BY ReadFacts, StampedTyped, RecordFields DEF TypeInv
  <1> QED BY <1>1 DEF WokenIn

-----------------------------------------------------------------------------
(* The place the analyzer has come to.                                     *)

(* A switch in follows a switch out, and the other way round.              *)
LEMMA SwitchPlaces ==
  ASSUME TypeInv, KernelInv, PlaceInv, pc = "break", n <= Len(swl)
  PROVE  /\ OwnOut(swl[n]) => ps.state \in {"-1", "RUNNING"}
         /\ OwnIn(swl[n]) => ps.state \in {"-1", "RUNNABLE", "BLOCKED"}
  <1>1. ps.state \in {"-1", "RUNNING", "RUNNABLE", "BLOCKED"}
    BY BreakFacts DEF Analyzer!States
  <1>2. ASSUME OwnOut(swl[n]), ps.state \in {"RUNNABLE", "BLOCKED"} PROVE FALSE
    <2>1. PICK r \in ReadIn : LastRead(r) /\ OwnOut(r)
      BY <1>2 DEF PlaceInv, RunnablePlace, BlockedPlace
    <2>2. swl[n].type # "do_exit"
      BY <1>2 DEF OwnOut
    <2>3. Latest(Stamped, r, swl[n].time - 1) /\ r \in Stamped /\ swl[n] \in Stamped
      BY <2>1, <2>2, LastIsLatest, ReadFacts
    <2>4. OwnIn(r)
      BY <1>2, <2>3 DEF KernelInv, OutInv, OnFacts
    <2> QED BY <2>1, <2>4 DEF OwnIn, OwnOut
  <1>3. ASSUME OwnIn(swl[n]), ps.state = "RUNNING" PROVE FALSE
    <2>1. PICK r \in ReadIn : LastRead(r) /\ OwnIn(r)
      BY <1>3 DEF PlaceInv, RunningPlace
    <2>2. swl[n].type # "do_exit"
      BY <1>3 DEF OwnIn
    <2>3. Latest(Stamped, r, swl[n].time - 1) /\ r \in Stamped /\ swl[n] \in Stamped
      BY <2>1, <2>2, LastIsLatest, ReadFacts
    <2>4. OwnOut(r)
      BY <1>3, <2>3 DEF KernelInv, InInv
    <2> QED BY <2>1, <2>4 DEF OwnIn, OwnOut
  <1> QED BY <1>1, <1>2, <1>3

(* What the actions of the loop do, in one place.                          *)
LEMMA RoundIs ==
  ASSUME pc = "break", n <= Len(swl)
  PROVE  /\ Analyzer!SwitchOut <=>
              /\ Analyzer!Round /\ OwnOut(swl[n]) /\ Analyzer!Ran(swl[n])
              /\ ps' = [time |-> swl[n].time,
                        state |-> IF swl[n].prevState = 0 THEN "RUNNABLE" ELSE "BLOCKED"]
         /\ Analyzer!SwitchIn <=>
              /\ Analyzer!Round /\ OwnIn(swl[n]) /\ ps' = [time |-> swl[n].time, state |-> "RUNNING"]
              /\ segs' = Analyzer!Put(segs,
                           Analyzer!Seg("RUNNABLE", ps.time, swl[n].time, Analyzer!NONE))
         /\ Analyzer!WakeUp <=>
              /\ Analyzer!Round /\ Wake(swl[n]) /\ ps.state = "BLOCKED"
              /\ ps' = [time |-> swl[n].time, state |-> "RUNNABLE"]
              /\ segs' = Analyzer!Put(segs, Analyzer!Seg("BLOCKED", ps.time, swl[n].time,
                                                         Analyzer!WaitedFor(swl[n])))
         /\ Analyzer!Skip =>
              /\ Analyzer!Round /\ UNCHANGED <<ps, segs>> /\ ~Own(swl[n])
              /\ ~(Wake(swl[n]) /\ ps.state = "BLOCKED")
  <1>1. Analyzer!SwitchOut <=>
              /\ Analyzer!Round /\ OwnOut(swl[n]) /\ Analyzer!Ran(swl[n])
              /\ ps' = [time |-> swl[n].time,
                        state |-> IF swl[n].prevState = 0 THEN "RUNNABLE" ELSE "BLOCKED"]
    BY DEF Analyzer!SwitchOut, OwnOut, Analyzer!Becomes
  <1>2. Analyzer!SwitchIn <=>
              /\ Analyzer!Round /\ OwnIn(swl[n]) /\ ps' = [time |-> swl[n].time, state |-> "RUNNING"]
              /\ segs' = Analyzer!Put(segs,
                           Analyzer!Seg("RUNNABLE", ps.time, swl[n].time, Analyzer!NONE))
    BY DEF Analyzer!SwitchIn, OwnIn, Analyzer!Becomes
  <1>3. Analyzer!WakeUp <=>
              /\ Analyzer!Round /\ Wake(swl[n]) /\ ps.state = "BLOCKED"
              /\ ps' = [time |-> swl[n].time, state |-> "RUNNABLE"]
              /\ segs' = Analyzer!Put(segs, Analyzer!Seg("BLOCKED", ps.time, swl[n].time,
                                                         Analyzer!WaitedFor(swl[n])))
    BY DEF Analyzer!WakeUp, Wake, Analyzer!Wakes, Analyzer!Becomes
  <1>4. Analyzer!Skip =>
              /\ Analyzer!Round /\ UNCHANGED <<ps, segs>> /\ ~Own(swl[n])
              /\ ~(Wake(swl[n]) /\ ps.state = "BLOCKED")
    BY DEF Analyzer!Skip, Wake, Analyzer!Wakes, Own, OwnIn, OwnOut
  <1> QED BY <1>1, <1>2, <1>3, <1>4

LEMMA LoadPlaced ==
  ASSUME TypeInv, Load
  PROVE  PlaceInv'
  <1>1. pc = "load" /\ n' = 1 /\ segs' = segs /\ DOMAIN segs = {} /\ swl' = trace
    BY DEF Load, Analyzer!Load, TypeInv, LoadedInv
  <1>2. ReadIn' = {}
    BY <1>1 DEF ReadIn
  <1>3. ASSUME pc' = "break" PROVE ps'.state = "-1" /\ ps'.time = First'
    <2>1. trace # <<>> /\ ps' = Analyzer!GetPrevState(trace)
      BY <1>3 DEF Load, Analyzer!Load
    <2>2. ps'.state = "-1"
      BY <2>1, PrevStateTyped DEF TypeInv, TypeOK
    <2>3. First' = Analyzer!GetPrevState(trace).time
      BY <1>1 DEF First, Analyzer!GetPrevState, Analyzer!Exits, Analyzer!ExitTime,
             Analyzer!TraceEtime, Analyzer!Unknown
    <2> QED BY <2>1, <2>2, <2>3
  <1> QED BY <1>1, <1>2, <1>3 DEF PlaceInv, UnknownPlace

(* What a round takes for granted and leaves behind.                       *)
RoundOf(sw) ==
  /\ UNCHANGED kernelVars
  /\ pc = "break" /\ pc' = "break" /\ n <= Len(swl) /\ n \in Nat \ {0} /\ sw = swl[n]
  /\ swl' = swl /\ First' = First /\ Stamped' = Stamped
  /\ ReadIn' = ReadIn \cup {r \in {sw} : r.type # "do_exit"}
  /\ sw \in Analyzer!Switch /\ sw.time \in Nat /\ ps.time \in Nat
  /\ ps.state \in {"-1", "RUNNING", "RUNNABLE", "BLOCKED"}
  /\ sw.type # "do_exit" => sw \in Stamped /\ \A q \in ReadIn : q.time < sw.time

(* What it does, by the record.                                            *)
OutRound(sw) ==
  /\ OwnOut(sw) /\ Analyzer!Ran(sw)
  /\ ps' = [time |-> sw.time, state |-> IF sw.prevState = 0 THEN "RUNNABLE" ELSE "BLOCKED"]

InRound(sw) ==
  /\ OwnIn(sw) /\ ps' = [time |-> sw.time, state |-> "RUNNING"]
  /\ segs' = Analyzer!Put(segs, Analyzer!Seg("RUNNABLE", ps.time, sw.time, Analyzer!NONE))

WakeRound(sw) ==
  /\ Wake(sw) /\ ps.state = "BLOCKED"
  /\ ps' = [time |-> sw.time, state |-> "RUNNABLE"]
  /\ segs' = Analyzer!Put(segs,
               Analyzer!Seg("BLOCKED", ps.time, sw.time, Analyzer!WaitedFor(sw)))

SkipRound(sw) ==
  UNCHANGED <<ps, segs>> /\ ~Own(sw) /\ ~(Wake(sw) /\ ps.state = "BLOCKED")

LEMMA RoundFacts ==
  ASSUME TypeInv, KernelInv, Analyze, ~Analyzer!Finish
  PROVE  \E sw : RoundOf(sw) /\ (OutRound(sw) \/ InRound(sw) \/ WakeRound(sw) \/ SkipRound(sw))
  <1>1. UNCHANGED kernelVars /\ Analyzer!Step
    BY DEF Analyze
  <1>2. /\ Analyzer!Round
        /\ \/ Analyzer!SwitchOut \/ Analyzer!SwitchIn \/ Analyzer!WakeUp \/ Analyzer!Skip
    BY <1>1 DEF Analyzer!Step, Analyzer!SwitchOut, Analyzer!SwitchIn, Analyzer!WakeUp,
           Analyzer!Skip
  <1>3. /\ pc = "break" /\ n <= Len(swl) /\ First' = First /\ pc' = "break" /\ swl' = swl
        /\ ReadIn' = ReadIn \cup {r \in {swl[n]} : r.type # "do_exit"} /\ Stamped' = Stamped
    BY <1>1, <1>2, ReadOn
  <1>4. swl[n] \in Analyzer!Switch /\ ps.time \in Nat /\ n \in Nat \ {0}
    BY <1>3, BreakFacts
  <1>5. swl[n].time \in Nat
    BY <1>4, RecordFields
  <1>6. swl[n].type # "do_exit" => swl[n] \in Stamped /\ \A q \in ReadIn : q.time < swl[n].time
    BY <1>3, ReadFacts
  <1>7. ps.state \in {"-1", "RUNNING", "RUNNABLE", "BLOCKED"}
    BY <1>3, BreakFacts DEF Analyzer!States
  <1>8. OutRound(swl[n]) \/ InRound(swl[n]) \/ WakeRound(swl[n]) \/ SkipRound(swl[n])
    BY <1>2, <1>3, RoundIs DEF OutRound, InRound, WakeRound, SkipRound
  <1>9. PICK sw : sw = swl[n]
    OBVIOUS
  <1>10. RoundOf(sw)
    BY <1>1, <1>3, <1>4, <1>5, <1>6, <1>7, <1>9 DEF RoundOf
  <1> QED BY <1>8, <1>9, <1>10

LEMMA DomainGrows ==
  ASSUME NEW sw, OutRound(sw) \/ InRound(sw) \/ WakeRound(sw)
  PROVE  DOMAIN segs \subseteq DOMAIN segs' /\ ps.time \in DOMAIN segs'
  <1>1. CASE OutRound(sw)
    <2>1. Analyzer!Ran(sw)
      BY <1>1 DEF OutRound
    <2> QED BY <2>1, RanIs DEF SplitAround, Analyzer!Put, Analyzer!Seg
  <1>2. CASE InRound(sw) \/ WakeRound(sw)
    BY <1>2 DEF InRound, WakeRound, Analyzer!Put, Analyzer!Seg
  <1> QED BY <1>1, <1>2

LEMMA StepPlaced ==
  ASSUME TypeInv, KernelInv, PlaceInv, Analyze
  PROVE  PlaceInv'
  <1>1. CASE Analyzer!Finish
    BY <1>1 DEF Analyzer!Finish, PlaceInv
  <1>2. CASE ~Analyzer!Finish
    <2>1. PICK sw : RoundOf(sw) /\ (OutRound(sw) \/ InRound(sw) \/ WakeRound(sw) \/ SkipRound(sw))
      BY <1>2, RoundFacts
    <2>2. \A q \in ReadIn' : q \in ReadIn \/ (q = sw /\ q.type # "do_exit")
      BY <2>1 DEF RoundOf
    <2>3. \A q \in ReadIn : q \in ReadIn' /\ q.time \in Nat
      <3>1. ReadIn \subseteq Stamped
        BY <2>1, ReadFacts DEF RoundOf
      <3> QED BY <2>1, <3>1, StampedTyped, RecordFields DEF TypeInv, RoundOf
    <2>4. First' = First /\ (ps.state # "-1" => First \in DOMAIN segs) /\ sw.time \in Nat
      BY <2>1 DEF RoundOf, PlaceInv
    <2>5. ~SkipRound(sw) => First' \in DOMAIN segs'
      <3>1. ~SkipRound(sw) => DOMAIN segs \subseteq DOMAIN segs' /\ ps.time \in DOMAIN segs'
        BY <2>1, DomainGrows
      <3>2. ps.state = "-1" => ps.time = First
        BY <2>1 DEF RoundOf, PlaceInv, UnknownPlace
      <3> QED BY <2>4, <3>1, <3>2
    <2>6. ASSUME Own(sw) PROVE sw \in ReadIn' /\ LastRead(sw)'
      <3>1. sw.type # "do_exit"
        BY <2>6 DEF Own, OwnIn, OwnOut
      <3>2. sw \in ReadIn' /\ \A q \in ReadIn' : q.time <= sw.time
        BY <2>1, <2>2, <2>3, <2>4, <3>1 DEF RoundOf
      <3> QED BY <2>6, <3>2 DEF LastRead, Own, OwnIn, OwnOut
    <2>7. ASSUME ~Own(sw), NEW r \in ReadIn, LastRead(r) PROVE r \in ReadIn' /\ LastRead(r)'
      BY <2>2, <2>3, <2>7 DEF LastRead, Own, OwnIn, OwnOut
    <2>8. CASE OutRound(sw)
      <3>1. /\ OwnOut(sw) /\ sw \in ReadIn' /\ LastRead(sw)' /\ First' \in DOMAIN segs'
            /\ ps' = [time |-> sw.time, state |-> IF sw.prevState = 0 THEN "RUNNABLE" ELSE "BLOCKED"]
        BY <2>5, <2>6, <2>8 DEF OutRound, SkipRound, Own
      <3>2. \A w \in ReadIn' : Wake(w) => w.time < sw.time
        BY <2>1, <2>2, <3>1 DEF RoundOf, Wake, OwnOut
      <3>3. sw.prevState \in {0, 1}
        BY <2>1, RecordFields DEF RoundOf
      <3>4. CASE sw.prevState = 0
        <4>1. RunnablePlace'
          BY <3>1, <3>4 DEF RunnablePlace, OwnOut
        <4> QED BY <3>1, <3>4, <4>1 DEF PlaceInv
      <3>5. CASE sw.prevState = 1
        <4>1. BlockedPlace'
          BY <3>1, <3>2, <3>5 DEF BlockedPlace, OwnOut, Wake
        <4> QED BY <3>1, <3>5, <4>1 DEF PlaceInv
      <3> QED BY <3>3, <3>4, <3>5
    <2>9. CASE InRound(sw)
      <3>1. /\ OwnIn(sw) /\ sw \in ReadIn' /\ LastRead(sw)' /\ First' \in DOMAIN segs'
            /\ ps' = [time |-> sw.time, state |-> "RUNNING"]
        BY <2>5, <2>6, <2>9 DEF InRound, SkipRound, Own
      <3>2. RunningPlace'
        BY <3>1 DEF RunningPlace, OwnIn
      <3> QED BY <3>1, <3>2 DEF PlaceInv
    <2>10. CASE WakeRound(sw)
      <3>1. /\ Wake(sw) /\ ps.state = "BLOCKED" /\ First' \in DOMAIN segs' /\ ~Own(sw)
            /\ ps' = [time |-> sw.time, state |-> "RUNNABLE"]
        BY <2>5, <2>10 DEF WakeRound, SkipRound, Own, OwnIn, OwnOut, Wake
      <3>2. PICK r \in ReadIn : LastRead(r) /\ OwnOut(r) /\ r.prevState = 1
        BY <2>1, <3>1 DEF RoundOf, PlaceInv, BlockedPlace
      <3>3. r \in ReadIn' /\ LastRead(r)' /\ r.time < sw.time /\ sw \in ReadIn'
        BY <2>1, <2>7, <3>1, <3>2 DEF RoundOf, Wake
      <3>4. RunnablePlace'
        BY <3>1, <3>2, <3>3 DEF RunnablePlace, OwnOut, Wake
      <3> QED BY <3>1, <3>4 DEF PlaceInv
    <2>11. CASE SkipRound(sw)
      <3>1. UNCHANGED <<ps, segs>> /\ ~Own(sw) /\ ~(Wake(sw) /\ ps.state = "BLOCKED") /\ pc = "break"
        BY <2>1, <2>11 DEF SkipRound, RoundOf
      <3>2. UnknownPlace => UnknownPlace'
        BY <2>2, <2>4, <3>1 DEF UnknownPlace, Own, OwnIn, OwnOut
      <3>3. RunningPlace => RunningPlace'
        BY <2>7, <3>1 DEF RunningPlace, OwnIn
      <3>4. RunnablePlace => RunnablePlace'
        BY <2>3, <2>7, <3>1 DEF RunnablePlace, OwnOut, Wake
      <3>5. ASSUME BlockedPlace, ps.state = "BLOCKED" PROVE BlockedPlace'
        <4>1. PICK r \in ReadIn : /\ LastRead(r) /\ OwnOut(r) /\ r.time = ps.time /\ r.prevState = 1
                                  /\ \A w \in ReadIn : Wake(w) => w.time < r.time
          BY <3>5 DEF BlockedPlace
        <4>2. \A w \in ReadIn' : Wake(w) => w.time < r.time
          BY <2>2, <3>1, <3>5, <4>1
        <4>3. r \in ReadIn' /\ LastRead(r)'
          BY <2>7, <3>1, <4>1
        <4> QED BY <3>1, <4>1, <4>2, <4>3 DEF BlockedPlace, OwnOut, Wake
      <3> QED BY <2>4, <3>1, <3>2, <3>3, <3>4, <3>5 DEF PlaceInv
    <2> QED BY <2>1, <2>8, <2>9, <2>10, <2>11
  <1> QED BY <1>1, <1>2

LEMMA InitPlaced == Init => PlaceInv
  BY DEF Init, Analyzer!Init, PlaceInv

(* Wherever it has got to in the trace, the analyzer holds the thread for  *)
(* what the last record it took notice of says, and since when.            *)
THEOREM PlaceInductive == Spec => []PlaceInv
  <1>1. ASSUME TypeInv, PlaceInv, KernelStep PROVE PlaceInv'
    <2>1. pc' # "break"
      BY <1>1 DEF KernelStep, Create, Exit, SwitchOut, WakeUp, NeedlessWakeUp, MisleadingWakeUp,
             SwitchIn, OtherSwitch, SoftirqBegin, SoftirqEnd, Tick, analyzerVars
    <2> QED BY <2>1 DEF PlaceInv
  <1>2. ASSUME PlaceInv, UNCHANGED vars PROVE PlaceInv'
    BY <1>2 DEF vars, analyzerVars, PlaceInv, UnknownPlace, RunningPlace, RunnablePlace, BlockedPlace,
           LastRead, ReadIn, First, OwnIn, OwnOut, Own, Wake, Analyzer!GetPrevState, Analyzer!Exits,
           Analyzer!ExitTime, Analyzer!TraceEtime, Analyzer!Unknown
  <1>3. TypeInv /\ KernelInv /\ PlaceInv /\ [Next]_vars => PlaceInv'
    BY <1>1, <1>2, LoadPlaced, StepPlaced, NextIs
  <1> QED BY InitPlaced, TypeInductive, KernelInductive, <1>3, PTL DEF Spec

-----------------------------------------------------------------------------
(* When the analyzer gives up.                                             *)

CrashInv ==
  pc = "crashed" => trace = <<>> \/ (doing = "exiting" /\ \A r \in Stamped : ~Own(r))

LEMMA FloorIs ==
  ASSUME NEW map, DOMAIN map \subseteq Nat, NEW t \in Nat, t \in DOMAIN map
  PROVE  Analyzer!Floor(map, t) = {t}
  BY DEF Analyzer!Floor

LEMMA ReadAll ==
  ASSUME TypeInv, pc = "break", n > Len(swl)
  PROVE  ReadIn = Stamped
  <1>1. swl = trace /\ swl \in Seq(Analyzer!Switch) /\ n \in Nat \ {0} /\ n = Len(swl) + 1
    BY BreakFacts DEF TypeInv, LoadedInv
  <1>2. DOMAIN swl = 1 .. n - 1
    BY <1>1
  <1> QED BY <1>1, <1>2 DEF ReadIn, Stamped, Range

LEMMA FinishCrashes ==
  ASSUME TypeInv, KernelInv, PlaceInv, Analyzer!Finish, pc' = "crashed"
  PROVE  doing = "exiting" /\ \A r \in Stamped : ~Own(r)
  <1>1. /\ pc = "break" /\ n > Len(swl) /\ Analyzer!Exits(swl) # {}
        /\ Analyzer!Floor(segs, Analyzer!ExitTime(swl)) = {}
    BY DEF Analyzer!Finish
  <1>2. swl \in Seq(Analyzer!Switch) /\ swl # <<>> /\ SegTypes(segs) /\ swl = trace
    BY <1>1, BreakFacts DEF TypeInv, LoadedInv
  <1>3. First = Analyzer!ExitTime(swl) /\ First \in Nat
    BY <1>1, <1>2, PrevStateTyped DEF First
  <1>4. First \notin DOMAIN segs
    BY <1>1, <1>2, <1>3, FloorIs, SMTT(30) DEF SegTypes
  <1>5. \A r \in Stamped : ~Own(r)
    BY <1>1, <1>4, ReadAll DEF PlaceInv, UnknownPlace
  <1>6. doing \in {"exiting", "exited"}
    <2>1. PICK m \in DOMAIN swl : swl[m].type = "do_exit"
      BY <1>1 DEF Analyzer!Exits
    <2>2. swl[m] \in Range(trace)
      BY <1>2 DEF Range
    <2> QED BY <2>1, <2>2 DEF KernelInv, TraceInv
  <1>7. doing # "exited"
    BY <1>5 DEF KernelInv, OffInv
  <1> QED BY <1>5, <1>6, <1>7

LEMMA StepCrash ==
  ASSUME TypeInv, KernelInv, PlaceInv, CrashInv, [Next]_vars
  PROVE  CrashInv'
  <1>1. ASSUME KernelStep PROVE pc' = "load"
    BY <1>1 DEF KernelStep, Create, Exit, SwitchOut, WakeUp, NeedlessWakeUp, MisleadingWakeUp,
           SwitchIn, OtherSwitch, SoftirqBegin, SoftirqEnd, Tick, analyzerVars
  <1>2. CASE Load
    BY <1>2 DEF Load, Analyzer!Load, CrashInv, kernelVars
  <1>3. CASE Analyze
    <2>1. Stamped' = Stamped /\ doing' = doing /\ trace' = trace
      BY <1>3 DEF Analyze, kernelVars, Stamped
    <2>2. CASE Analyzer!Finish
      BY <2>1, <2>2, FinishCrashes DEF CrashInv, Own, OwnIn, OwnOut
    <2>3. CASE ~Analyzer!Finish
      BY <1>3, <2>3, RoundFacts DEF RoundOf, CrashInv
    <2> QED BY <2>2, <2>3
  <1>4. CASE UNCHANGED vars
    BY <1>4 DEF vars, kernelVars, analyzerVars, CrashInv, Stamped, Own, OwnIn, OwnOut
  <1> QED BY <1>1, <1>2, <1>3, <1>4, NextIs DEF CrashInv

(* The analyzer only gives up on an empty trace, which has no first event, *)
(* and on the trace of a thread that exits and had not been switched: its  *)
(* list of segments, into which the exit would be put, is empty.           *)
THEOREM CrashesAreKnown == Spec => []CrashesKnown
  <1>1. Init => CrashInv
    BY DEF Init, Analyzer!Init, CrashInv
  <1>2. TypeInv /\ CrashInv => CrashesKnown
    <2>1. ASSUME TypeInv, pc = "crashed", \A r \in Stamped : ~Own(r) PROVE OwnSwitches = {}
      <3>1. swl = trace
        BY <2>1 DEF TypeInv, LoadedInv
      <3>2. \A m \in DOMAIN swl : swl[m].type # "do_exit" => swl[m] \in Stamped
        BY <3>1 DEF Stamped, Range
      <3> QED BY <2>1, <3>2 DEF OwnSwitches, Own, OwnIn, OwnOut
    <2> QED BY <2>1 DEF CrashInv, CrashesKnown
  <1>3. TypeInv /\ KernelInv /\ PlaceInv /\ CrashInv /\ [Next]_vars => CrashInv'
    BY StepCrash
  <1> QED BY <1>1, <1>2, <1>3, TypeInductive, KernelInductive, PlaceInductive, PTL DEF Spec

-----------------------------------------------------------------------------
(* What segments tell.                                                     *)

Resumed(m) ==
  \E a, b \in 1 .. m - 1 :
    /\ a < b /\ truth[a] = "displaced" /\ truth[b] = "running"
    /\ \A c \in a .. m : truth[c] \in {"running", "displaced"}

(* A segment that holds a moment the thread was displaced in, the first     *)
(* time since it was switched in, is a RUNNABLE one.                       *)
Tells(seg) ==
  \A m \in Moments :
    seg.stime < m /\ m <= seg.etime /\ truth[m] = "displaced" /\ ~Resumed(m)
    => seg.state = "RUNNABLE"

TrueSeg(seg) ==
  /\ \A m \in Moments : seg.stime < m /\ m <= seg.etime => seg.state \in MayBeTold(truth[m])
  /\ seg.state = "BLOCKED" => <<seg.etime, seg.waitFor>> \in woken

Honest(seg) == Tells(seg) /\ (NoRaces => TrueSeg(seg))

(* The segment that starts where BreakIntoSegments began says nothing, and *)
(* is cut to nothing in the end.                                           *)
HonestInv ==
  /\ pc = "break" => \A k \in DOMAIN segs : k = First \/ Honest(segs[k])
  /\ pc = "done" => \A k \in DOMAIN segs : segs[k].etime <= k \/ Honest(segs[k])

LEMMA MayBe ==
  /\ \A w \in {"running", "displaced"} : "RUNNING" \in MayBeTold(w)
  /\ \A w \in {"runnable", "displaced"} : "RUNNABLE" \in MayBeTold(w)
  /\ "BLOCKED" \in MayBeTold("blocked")
  BY DEF MayBeTold

(* A switch in ends a wait for the CPU.                                    *)
LEMMA InHonest ==
  ASSUME TypeInv, KernelInv, NoRaces => WakeInv, PlaceInv,
         NEW sw, RoundOf(sw), OwnIn(sw), ps.time # First
  PROVE  Honest(Analyzer!Seg("RUNNABLE", ps.time, sw.time, Analyzer!NONE))
  <1> DEFINE P == ps.time  T == sw.time
             seg == Analyzer!Seg("RUNNABLE", P, T, Analyzer!NONE)
  <1>1. /\ pc = "break" /\ n <= Len(swl) /\ sw = swl[n] /\ sw \in Stamped
        /\ P \in Nat /\ T \in Nat /\ sw.type # "do_exit"
    BY DEF RoundOf, OwnIn
  <1>2. seg.state = "RUNNABLE" /\ seg.stime = P /\ seg.etime = T
    BY DEF Analyzer!Seg
  <1> HIDE DEF seg
  <1>3. ps.state \in {"RUNNABLE", "BLOCKED"}
    BY <1>1, SwitchPlaces DEF RoundOf, PlaceInv, UnknownPlace
  <1>4. ASSUME NoRaces, NEW m \in P + 1 .. T PROVE truth[m] = "runnable"
    <2>1. PICK r \in ReadIn :
            /\ LastRead(r)
            /\ \/ r.time = P /\ r.prevState = 0
               \/ /\ r.prevState = 1 /\ r.time < P
                  /\ \E w \in ReadIn : Wake(w) /\ w.time = P
               \/ /\ r.time = P /\ r.prevState = 1
                  /\ \A w \in ReadIn : Wake(w) => w.time < r.time
      BY <1>1, <1>3 DEF PlaceInv, RunnablePlace, BlockedPlace
    <2>2. Latest(Stamped, r, T - 1) /\ r \in Stamped /\ r.time \in Nat
      BY <1>1, <2>1, LastIsLatest, StampedTyped, RecordFields DEF TypeInv
    <2>3. RunnableFacts(Stamped, truth, r, T - 1) /\ truth[T] = "runnable"
      BY <1>1, <1>4, <2>2 DEF WakeInv, InWakeInv
    <2>4. CASE m = T
      BY <2>3, <2>4
    <2>5. CASE m # T
      <3>1. m \in r.time + 1 .. T - 1
        BY <1>1, <2>1, <2>2, <2>5
      <3>2. CASE r.prevState = 0
        BY <2>3, <3>1, <3>2 DEF RunnableFacts
      <3>3. CASE /\ r.prevState = 1 /\ r.time < P
                 /\ \E w \in ReadIn : Wake(w) /\ w.time = P
        <4>1. PICK w \in Stamped : Wake(w) /\ w.time = P
          BY <1>1, <3>3, ReadFacts
        <4>2. WokenIn(Stamped, r.time, m - 1)
          BY <1>1, <3>3, <4>1 DEF WokenIn
        <4> QED BY <2>3, <3>1, <3>3, <4>2 DEF RunnableFacts
      <3>4. CASE r.prevState = 1 /\ \A w \in ReadIn : Wake(w) => w.time < r.time
        <4>1. ~WokenIn(Stamped, r.time, T - 1)
          BY <1>1, <3>4, NoneWoken
        <4> QED BY <2>3, <3>1, <3>4, <4>1 DEF RunnableFacts
      <3> QED BY <2>1, <3>2, <3>3, <3>4
    <2> QED BY <2>4, <2>5
  <1>5. Tells(seg)
    BY <1>2 DEF Tells
  <1>6. ASSUME NoRaces PROVE TrueSeg(seg)
    <2>1. now \in Nat
      BY StampedTyped DEF TypeInv
    <2>2. ASSUME NEW m \in Moments, P < m, m <= T PROVE "RUNNABLE" \in MayBeTold(truth[m])
      <3>1. truth[m] = "runnable"
        BY <1>1, <1>4, <1>6, <2>1, <2>2 DEF Moments
      <3> QED BY <3>1, MayBe
    <2> QED BY <1>2, <2>2 DEF TrueSeg
  <1> QED BY <1>5, <1>6 DEF Honest, seg

(* A wake-up ends the thread's sleep.                                      *)
LEMMA WakeHonest ==
  ASSUME TypeInv, KernelInv, NoRaces => WakeInv, PlaceInv,
         NEW sw, RoundOf(sw), Wake(sw), ps.state = "BLOCKED"
  PROVE  Honest(Analyzer!Seg("BLOCKED", ps.time, sw.time, Analyzer!WaitedFor(sw)))
  <1> DEFINE P == ps.time  T == sw.time
             seg == Analyzer!Seg("BLOCKED", P, T, Analyzer!WaitedFor(sw))
  <1>1. /\ pc = "break" /\ n <= Len(swl) /\ sw = swl[n] /\ sw \in Stamped
        /\ P \in Nat /\ T \in Nat /\ sw.type # "do_exit" /\ now \in Nat
    BY StampedTyped DEF RoundOf, Wake, TypeInv
  <1>2. /\ seg.state = "BLOCKED" /\ seg.stime = P /\ seg.etime = T
        /\ seg.waitFor = Analyzer!WaitedFor(sw)
    BY DEF Analyzer!Seg
  <1> HIDE DEF seg
  <1>3. PICK r \in ReadIn : /\ LastRead(r) /\ OwnOut(r) /\ r.time = P /\ r.prevState = 1
                            /\ \A w \in ReadIn : Wake(w) => w.time < r.time
    BY <1>1 DEF PlaceInv, BlockedPlace
  <1>4. /\ Latest(Stamped, r, T - 1) /\ r \in Stamped /\ ~WokenIn(Stamped, P, T - 1)
    BY <1>1, <1>3, LastIsLatest, NoneWoken
  <1>5. Tells(seg)
    <2>1. ASSUME NEW m \in Moments, P < m, m <= T PROVE truth[m] # "displaced"
      <3>1. Latest(Stamped, r, m - 1)
        <4>1. \A q \in Stamped : q.time \in Nat
          BY StampedTyped, RecordFields DEF TypeInv
        <4> QED BY <1>1, <1>3, <1>4, <2>1, <4>1 DEF Latest, Still, Moments
      <3> QED BY <1>3, <1>4, <2>1, <3>1 DEF KernelInv, OffInv, Moments
    <2> QED BY <1>2, <2>1 DEF Tells
  <1>6. ASSUME NoRaces PROVE TrueSeg(seg)
    <2>1. BlockedFacts(truth, r, T) /\ <<T, Analyzer!WaitedFor(sw)>> \in woken
      BY <1>1, <1>3, <1>4, <1>6 DEF WakeInv, WakerInv
    <2>2. ASSUME NEW m \in Moments, P < m, m <= T PROVE "BLOCKED" \in MayBeTold(truth[m])
      <3>1. truth[m] = "blocked"
        BY <1>1, <1>3, <2>1, <2>2 DEF Moments, BlockedFacts
      <3> QED BY <3>1, MayBe
    <2> QED BY <1>2, <2>1, <2>2 DEF TrueSeg
  <1> QED BY <1>5, <1>6 DEF Honest, seg

(* Between the last change the analyzer knows of and a switch out the      *)
(* thread was not switched, and a softirq that ended then on its CPU began *)
(* then too.                                                               *)
LEMMA OutFacts ==
  ASSUME TypeInv, KernelInv, PlaceInv, NEW sw, RoundOf(sw), OwnOut(sw)
  PROVE  /\ OnFacts(Stamped, softTrace, truth, sw.cpu, sw.time - 1, 0)
         /\ truth[sw.time] = "running" /\ sw.time \in Nat /\ ps.time \in Nat
         /\ ps.time # First => ps.time < sw.time
         /\ \A a \in Int : ps.time < a => Still(Stamped, a, sw.time - 1)
         /\ \A s \in softTrace : s.cpu = sw.cpu /\ ps.time <= s.etime =>
              Still(Stamped, s.stime, sw.time - 1) /\ (ps.time # First => ps.time < s.stime)
  <1> DEFINE P == ps.time  T == sw.time
  <1>1. /\ pc = "break" /\ n <= Len(swl) /\ sw = swl[n] /\ sw \in Stamped
        /\ P \in Nat /\ T \in Nat /\ sw.type # "do_exit" /\ swl[n].type # "do_exit"
    BY DEF RoundOf, OwnOut
  <1>2. OnFacts(Stamped, softTrace, truth, sw.cpu, T - 1, 0) /\ truth[T] = "running"
    BY <1>1 DEF KernelInv, OutInv
  <1>3. /\ \A q \in Stamped : q.time \in Nat /\ (q.time < T => q \in ReadIn)
        /\ \A s \in softTrace : s.stime \in Nat /\ s.etime \in Nat
    BY <1>1, ReadFacts, StampedTyped, RecordFields, SoftFields DEF TypeInv
  <1>4. CASE ps.state = "-1"
    <2>1. P = First /\ \A q \in ReadIn : ~Own(q)
      BY <1>1, <1>4 DEF PlaceInv, UnknownPlace
    <2>2. \A a \in Int : Still(Stamped, a, T - 1)
      BY <1>1, <1>3, <2>1 DEF Still
    <2> QED BY <1>1, <1>2, <1>3, <2>1, <2>2
  <1>5. CASE ps.state = "RUNNING"
    <2>1. PICK r \in ReadIn : LastRead(r) /\ r.time = P /\ OwnIn(r)
      BY <1>1, <1>5 DEF PlaceInv, RunningPlace
    <2>2. Latest(Stamped, r, T - 1) /\ r \in Stamped /\ P < T
      BY <1>1, <2>1, LastIsLatest
    <2>3. r.cpu = sw.cpu
      BY <1>2, <2>2 DEF OnFacts
    <2>4. \A a \in Int : P < a => Still(Stamped, a, T - 1)
      BY <1>1, <1>3, <2>1, <2>2 DEF Latest, Still
    <2>5. ASSUME NEW s \in softTrace, s.cpu = sw.cpu, P <= s.etime
          PROVE  P < s.stime
      <3>1. P < s.stime \/ s.etime < P
        BY <2>1, <2>2, <2>3, <2>5 DEF KernelInv, SoftInv, OwnIn
      <3> QED BY <1>1, <1>3, <2>5, <3>1
    <2> QED BY <1>1, <1>2, <1>3, <2>2, <2>4, <2>5
  <1> QED BY <1>1, <1>4, <1>5, SwitchPlaces

(* When it was displaced then, a softirq that is over displaced it.        *)
LEMMA Displacer ==
  ASSUME TypeInv, KernelInv, PlaceInv, NEW sw, RoundOf(sw), OwnOut(sw),
         NEW m \in Moments, ps.time < m, m <= sw.time, truth[m] = "displaced"
  PROVE  \E s \in softTrace : /\ s.cpu = sw.cpu /\ s.stime < m /\ m <= s.etime /\ s.etime < sw.time
                              /\ ps.time <= s.etime
  <1> DEFINE P == ps.time  T == sw.time
  <1>1. now \in Nat /\ m \in 1 .. now
    BY StampedTyped DEF TypeInv, Moments
  <1>2. /\ OnFacts(Stamped, softTrace, truth, sw.cpu, T - 1, 0)
        /\ truth[T] = "running" /\ T \in Nat /\ P \in Nat
        /\ \A a \in Int : P < a => Still(Stamped, a, T - 1)
    BY OutFacts
  <1>3. m \in 1 .. T - 1 /\ Still(Stamped, m, T - 1)
    BY <1>1, <1>2
  <1>4. PICK s \in softTrace : s.cpu = sw.cpu /\ s.stime < m /\ m <= s.etime
    BY <1>2, <1>3 DEF OnFacts
  <1>5. s.stime \in Nat /\ s.etime \in Nat
    BY SoftFields, StampedTyped DEF TypeInv
  <1>6. T < s.stime \/ s.etime < T
    BY <1>4 DEF RoundOf, OwnOut, KernelInv, SoftInv
  <1> QED BY <1>2, <1>3, <1>4, <1>5, <1>6

(* What Ran finds.                                                         *)
LEMMA InsideIs ==
  ASSUME TypeInv, NEW sw, RoundOf(sw), NEW s
  PROVE  s \in Inside(sw) <=>
           /\ s \in softTrace /\ s.cpu = sw.cpu /\ ps.time <= s.etime
           /\ s.stime < sw.time /\ s.etime < sw.time
           /\ \A r \in softTrace : r.cpu = sw.cpu /\ ps.time <= r.etime => s.etime <= r.etime
  <1>1. softs = softTrace
    BY DEF TypeInv, LoadedInv, RoundOf
  <1>2. \A r \in softTrace : r.etime >= ps.time <=> ps.time <= r.etime
    BY SoftFields, StampedTyped DEF TypeInv, RoundOf
  <1> QED BY <1>1, <1>2 DEF Inside, Analyzer!GetCeilingSoft

LEMMA InsideExists ==
  ASSUME TypeInv, KernelInv, NEW sw, RoundOf(sw),
         NEW s \in softTrace, s.cpu = sw.cpu, s.etime < sw.time, ps.time <= s.etime
  PROVE  Inside(sw) # {}
  <1> DEFINE after == {r \in softTrace : r.cpu = sw.cpu /\ ps.time <= r.etime}
             ends  == {r.etime : r \in after}
  <1>1. \A r \in softTrace : r.stime \in Nat /\ r.etime \in Nat
    BY SoftFields, StampedTyped DEF TypeInv
  <1>2. ends \in SUBSET Nat /\ s.etime \in ends
    BY <1>1
  <1>3. PICK e \in ends : \A d \in ends : e <= d
    BY <1>2, LeastExists
  <1>4. PICK r \in after : r.etime = e
    OBVIOUS
  <1>5. r.stime < r.etime
    BY <1>4 DEF KernelInv, SoftInv
  <1>6. r.etime <= s.etime /\ \A q \in after : r.etime <= q.etime
    BY <1>2, <1>3, <1>4
  <1>7. r.etime < sw.time /\ r.stime < sw.time /\ sw.time \in Nat
    BY <1>1, <1>4, <1>5, <1>6 DEF RoundOf
  <1>8. r \in Inside(sw)
    BY <1>4, <1>6, <1>7, InsideIs
  <1> QED BY <1>8

(* While the thread was on a CPU, RUNNING is true of it.                   *)
LEMMA OnIsTrue ==
  ASSUME TypeInv, KernelInv, PlaceInv, NEW sw, RoundOf(sw), OwnOut(sw),
         NEW b \in Nat, ps.time <= b, NEW e \in Nat, e <= sw.time
  PROVE  TrueSeg(Analyzer!Seg("RUNNING", b, e, Analyzer!NONE))
  <1> DEFINE T == sw.time
             seg == Analyzer!Seg("RUNNING", b, e, Analyzer!NONE)
  <1>1. seg.state = "RUNNING" /\ seg.stime = b /\ seg.etime = e
    BY DEF Analyzer!Seg
  <1> HIDE DEF seg
  <1>2. /\ OnFacts(Stamped, softTrace, truth, sw.cpu, T - 1, 0)
        /\ truth[T] = "running" /\ T \in Nat /\ ps.time \in Nat
        /\ \A a \in Int : ps.time < a => Still(Stamped, a, T - 1)
    BY OutFacts
  <1>3. ASSUME NEW m \in Moments, b < m, m <= e PROVE "RUNNING" \in MayBeTold(truth[m])
    <2>1. m \in Nat /\ 1 <= m
      BY StampedTyped DEF TypeInv, Moments
    <2>2. CASE m = T
      BY <1>2, <2>2, MayBe
    <2>3. CASE m # T
      <3>1. m \in 1 .. T - 1 /\ Still(Stamped, m, T - 1)
        BY <1>2, <1>3, <2>1, <2>3
      <3>2. truth[m] \in {"running", "displaced"}
        BY <1>2, <3>1 DEF OnFacts
      <3> QED BY <3>2, MayBe
    <2> QED BY <2>2, <2>3
  <1> QED BY <1>1, <1>3 DEF TrueSeg, seg

(* No softirq ended on the CPU in the whole time.                          *)
LEMMA WholeHonest ==
  ASSUME TypeInv, KernelInv, PlaceInv, NEW sw, RoundOf(sw), OwnOut(sw), Inside(sw) = {}
  PROVE  Honest(Analyzer!Seg("RUNNING", ps.time, sw.time, Analyzer!NONE))
  <1> DEFINE seg == Analyzer!Seg("RUNNING", ps.time, sw.time, Analyzer!NONE)
  <1>1. ps.time \in Nat /\ sw.time \in Nat /\ seg.stime = ps.time /\ seg.etime = sw.time
    BY DEF RoundOf, Analyzer!Seg
  <1>2. TrueSeg(seg)
    BY <1>1, OnIsTrue
  <1> HIDE DEF seg
  <1>3. ASSUME NEW m \in Moments, ps.time < m, m <= sw.time, truth[m] = "displaced" PROVE FALSE
    BY <1>3, Displacer, InsideExists
  <1>4. Tells(seg)
    BY <1>1, <1>3 DEF Tells
  <1> QED BY <1>2, <1>4 DEF Honest, seg

(* The time before the softirq: nothing displaced the thread yet.          *)
LEMMA BeforeHonest ==
  ASSUME TypeInv, KernelInv, PlaceInv, NEW sw, RoundOf(sw), OwnOut(sw),
         NEW s \in Inside(sw)
  PROVE  Honest(Analyzer!Seg("RUNNING", ps.time, s.stime, Analyzer!NONE))
  <1> DEFINE seg == Analyzer!Seg("RUNNING", ps.time, s.stime, Analyzer!NONE)
  <1>1. /\ s \in softTrace /\ s.cpu = sw.cpu /\ ps.time <= s.etime
        /\ s.stime < sw.time /\ s.etime < sw.time
        /\ \A r \in softTrace : r.cpu = sw.cpu /\ ps.time <= r.etime => s.etime <= r.etime
    BY InsideIs
  <1>2. \A r \in softTrace : r.stime \in Nat /\ r.etime \in Nat
    BY SoftFields, StampedTyped DEF TypeInv
  <1>3. /\ ps.time \in Nat /\ sw.time \in Nat /\ s.stime \in Nat
        /\ seg.stime = ps.time /\ seg.etime = s.stime
    BY <1>1, <1>2 DEF RoundOf, Analyzer!Seg
  <1>4. TrueSeg(seg)
    BY <1>1, <1>3, OnIsTrue
  <1> HIDE DEF seg
  <1>5. ASSUME NEW m \in Moments, ps.time < m, m <= s.stime, truth[m] = "displaced" PROVE FALSE
    <2>1. m \in Nat
      BY StampedTyped DEF TypeInv, Moments
    <2>2. PICK r \in softTrace : /\ r.cpu = sw.cpu /\ r.stime < m /\ m <= r.etime
                                 /\ ps.time <= r.etime
      BY <1>1, <1>3, <1>5, <2>1, Displacer
    <2>3. r # s /\ s.etime <= r.etime /\ s.stime < s.etime
      BY <1>1, <1>2, <1>5, <2>1, <2>2 DEF KernelInv, SoftInv
    <2>4. r.etime < s.stime \/ s.etime < r.stime
      BY <1>1, <2>2, <2>3 DEF KernelInv, SoftInv
    <2> QED BY <1>1, <1>2, <1>5, <2>1, <2>2, <2>3, <2>4
  <1>6. Tells(seg)
    BY <1>3, <1>5 DEF Tells
  <1> QED BY <1>4, <1>6 DEF Honest, seg

(* The softirq itself.                                                     *)
LEMMA SoftHonest ==
  ASSUME TypeInv, KernelInv, PlaceInv, NEW sw, RoundOf(sw), OwnOut(sw),
         NEW s \in Inside(sw)
  PROVE  Honest(Analyzer!Seg("RUNNABLE", s.stime, s.etime, Analyzer!NONE))
  <1> DEFINE seg == Analyzer!Seg("RUNNABLE", s.stime, s.etime, Analyzer!NONE)
  <1>1. seg.state = "RUNNABLE" /\ seg.stime = s.stime /\ seg.etime = s.etime
    BY DEF Analyzer!Seg
  <1> HIDE DEF seg
  <1>2. s \in softTrace /\ s.cpu = sw.cpu /\ ps.time <= s.etime /\ s.etime < sw.time
    BY InsideIs
  <1>3. s.stime \in Nat /\ s.etime \in Nat /\ now \in Nat
    BY <1>2, SoftFields, StampedTyped DEF TypeInv
  <1>4. \A m \in s.stime + 1 .. s.etime : truth[m] = "displaced"
    <2>1. /\ OnFacts(Stamped, softTrace, truth, sw.cpu, sw.time - 1, 0) /\ sw.time \in Nat
          /\ Still(Stamped, s.stime, sw.time - 1)
      BY <1>2, OutFacts
    <2>2. s.etime <= sw.time - 1
      BY <1>2, <1>3, <2>1
    <2> QED BY <1>2, <2>1, <2>2 DEF OnFacts
  <1>5. Tells(seg)
    BY <1>1 DEF Tells
  <1>6. TrueSeg(seg)
    <2>1. ASSUME NEW m \in Moments, s.stime < m, m <= s.etime PROVE "RUNNABLE" \in MayBeTold(truth[m])
      <3>1. truth[m] = "displaced"
        BY <1>3, <1>4, <2>1 DEF Moments
      <3> QED BY <3>1, MayBe
    <2> QED BY <1>1, <2>1 DEF TrueSeg
  <1> QED BY <1>5, <1>6 DEF Honest, seg

(* The time after the softirq: what displaces the thread now is not the    *)
(* first to do so.                                                         *)
LEMMA AfterHonest ==
  ASSUME TypeInv, KernelInv, PlaceInv, NEW sw, RoundOf(sw), OwnOut(sw),
         NEW s \in Inside(sw)
  PROVE  Honest(Analyzer!Seg("RUNNING", s.etime, sw.time, Analyzer!NONE))
  <1> DEFINE seg == Analyzer!Seg("RUNNING", s.etime, sw.time, Analyzer!NONE)
             T == sw.time
  <1>1. s \in softTrace /\ s.cpu = sw.cpu /\ ps.time <= s.etime /\ s.etime < T
    BY InsideIs
  <1>2. /\ s.stime \in Nat /\ s.etime \in Nat /\ now \in Nat /\ ps.time \in Nat /\ T \in Nat
        /\ s.stime < s.etime
    BY <1>1, SoftFields, StampedTyped DEF TypeInv, RoundOf, KernelInv, SoftInv
  <1>3. seg.stime = s.etime /\ seg.etime = T
    BY DEF Analyzer!Seg
  <1>4. TrueSeg(seg)
    BY <1>1, <1>2, OnIsTrue
  <1> HIDE DEF seg
  <1>5. /\ OnFacts(Stamped, softTrace, truth, sw.cpu, T - 1, 0) /\ truth[T] = "running"
        /\ Still(Stamped, s.stime, T - 1)
        /\ \A a \in Int : ps.time < a => Still(Stamped, a, T - 1)
    BY <1>1, OutFacts
  <1>6. /\ truth[s.etime] = "displaced"
        /\ s.etime < T - 1 => truth[s.etime + 1] = "running"
    <2>1. s.etime <= T - 1 /\ s.etime \in s.stime + 1 .. s.etime
      BY <1>1, <1>2
    <2> QED BY <1>1, <1>5, <2>1 DEF OnFacts
  <1>7. ASSUME NEW m \in Moments, s.etime < m, m <= T, truth[m] = "displaced" PROVE Resumed(m)
    <2>1. m \in Nat /\ m < T
      BY <1>2, <1>5, <1>7 DEF Moments
    <2>2. truth[s.etime + 1] = "running" /\ s.etime + 1 < m /\ s.etime \in 1 .. m - 1
      <3>1. s.etime < T - 1
        BY <1>2, <1>7, <2>1
      <3>2. s.etime + 1 # m
        BY <1>6, <1>7, <3>1
      <3> QED BY <1>2, <1>6, <1>7, <2>1, <3>1, <3>2
    <2>3. ASSUME NEW c \in s.etime .. m PROVE truth[c] \in {"running", "displaced"}
      <3>1. CASE c = s.etime
        BY <1>6, <3>1
      <3>2. CASE c # s.etime
        <4>1. c \in 1 .. T - 1 /\ ps.time < c
          BY <1>1, <1>2, <2>1, <3>2
        <4> QED BY <1>5, <4>1 DEF OnFacts
      <3> QED BY <3>1, <3>2
    <2>4. s.etime + 1 \in 1 .. m - 1 /\ s.etime < s.etime + 1
      BY <1>2, <2>1, <2>2
    <2> QED BY <1>6, <2>2, <2>3, <2>4 DEF Resumed
  <1>8. Tells(seg)
    BY <1>3, <1>7 DEF Tells
  <1> QED BY <1>4, <1>8 DEF Honest, seg

(* What a switch out adds to the segments.                                 *)
LEMMA OutHonest ==
  ASSUME TypeInv, KernelInv, PlaceInv, NEW sw, RoundOf(sw), OutRound(sw),
         NEW k \in DOMAIN segs', k # First
  PROVE  Honest(segs'[k]) \/ (k \in DOMAIN segs /\ segs'[k] = segs[k])
  <1> DEFINE P == ps.time  T == sw.time
  <1>1. OwnOut(sw) /\ Analyzer!Ran(sw)
    BY DEF OutRound
  <1>2. CASE /\ Inside(sw) = {}
             /\ segs' = Analyzer!Put(segs, Analyzer!Seg("RUNNING", P, T, Analyzer!NONE))
    <2> DEFINE seg == Analyzer!Seg("RUNNING", P, T, Analyzer!NONE)
    <2>1. Honest(seg) /\ seg.stime = P
      BY <1>1, <1>2, WholeHonest DEF Analyzer!Seg
    <2> HIDE DEF seg
    <2>2. segs' = Analyzer!Put(segs, seg)
      BY <1>2 DEF seg
    <2> QED BY <2>1, <2>2 DEF Analyzer!Put
  <1>3. CASE \E s \in Inside(sw) : SplitAround(s, segs', P, T)
    <2>1. PICK s \in Inside(sw) : SplitAround(s, segs', P, T)
      BY <1>3
    <2>2. s.stime # s.etime
      <3>1. s \in softTrace
        BY InsideIs
      <3> QED BY <3>1, SoftFields, StampedTyped DEF TypeInv, KernelInv, SoftInv
    <2>3. CASE k = s.etime
      BY <1>1, <2>1, <2>3, AfterHonest DEF SplitAround
    <2>4. CASE k = s.stime
      BY <1>1, <2>1, <2>2, <2>4, SoftHonest DEF SplitAround
    <2>5. CASE k = P /\ k \notin {s.stime, s.etime}
      BY <1>1, <2>1, <2>5, BeforeHonest DEF SplitAround
    <2>6. CASE k \notin {P, s.stime, s.etime}
      BY <2>1, <2>6 DEF SplitAround
    <2> QED BY <2>3, <2>4, <2>5, <2>6
  <1> QED BY <1>1, <1>2, <1>3, RanIs

LEMMA RoundHonest ==
  ASSUME TypeInv, KernelInv, NoRaces => WakeInv, PlaceInv, NEW sw, RoundOf(sw),
         OutRound(sw) \/ InRound(sw) \/ WakeRound(sw) \/ SkipRound(sw),
         NEW k \in DOMAIN segs', k # First
  PROVE  Honest(segs'[k]) \/ (k \in DOMAIN segs /\ segs'[k] = segs[k])
  <1>1. CASE OutRound(sw)
    BY <1>1, OutHonest
  <1>2. CASE InRound(sw)
    <2> DEFINE seg == Analyzer!Seg("RUNNABLE", ps.time, sw.time, Analyzer!NONE)
    <2>1. ps.time # First => Honest(seg)
      BY <1>2, InHonest DEF InRound
    <2>2. seg.stime = ps.time /\ segs' = Analyzer!Put(segs, seg)
      BY <1>2 DEF InRound, Analyzer!Seg
    <2> HIDE DEF seg
    <2> QED BY <2>1, <2>2 DEF Analyzer!Put
  <1>3. CASE WakeRound(sw)
    <2> DEFINE seg == Analyzer!Seg("BLOCKED", ps.time, sw.time, Analyzer!WaitedFor(sw))
    <2>1. Honest(seg)
      BY <1>3, WakeHonest DEF WakeRound
    <2>2. seg.stime = ps.time /\ segs' = Analyzer!Put(segs, seg)
      BY <1>3 DEF WakeRound, Analyzer!Seg
    <2> HIDE DEF seg
    <2> QED BY <2>1, <2>2 DEF Analyzer!Put
  <1>4. CASE SkipRound(sw)
    BY <1>4 DEF SkipRound
  <1> QED BY <1>1, <1>2, <1>3, <1>4

(* The segment that starts at First is cut to nothing; the others stay.     *)
LEMMA FinishIs ==
  ASSUME TypeInv, PlaceInv, Analyzer!Finish, pc' = "done"
  PROVE  /\ pc = "break" /\ n > Len(swl) /\ swl' = swl /\ DOMAIN segs' = DOMAIN segs \cup {First}
         /\ segs'[First].etime <= First
         /\ \A k \in DOMAIN segs : k # First => segs'[k] = segs[k]
  <1>1. pc = "break" /\ n > Len(swl) /\ swl' = swl
    BY DEF Analyzer!Finish
  <1>2. swl \in Seq(Analyzer!Switch) /\ swl # <<>> /\ SegTypes(segs)
    BY <1>1, BreakFacts
  <1>3. /\ First \in Nat
        /\ Analyzer!Exits(swl) # {} => First = Analyzer!ExitTime(swl)
        /\ Analyzer!Exits(swl) = {} => First = Analyzer!TraceEtime(swl)
    BY <1>2, PrevStateTyped DEF First
  <1>4. ASSUME Analyzer!Exits(swl) # {},
               NEW k \in Analyzer!Floor(segs, Analyzer!ExitTime(swl)),
               segs' = [segs EXCEPT ![k].etime = Analyzer!ExitTime(swl)]
        PROVE  /\ DOMAIN segs' = DOMAIN segs \cup {First}
               /\ segs'[First].etime <= First
               /\ \A j \in DOMAIN segs : j # First => segs'[j] = segs[j]
    <2>1. k \in DOMAIN segs /\ First = Analyzer!ExitTime(swl)
      BY <1>3, <1>4 DEF Analyzer!Floor
    <2>2. First \in DOMAIN segs
      BY <1>1, <2>1 DEF PlaceInv, UnknownPlace
    <2>3. k = First
      BY <1>2, <1>3, <1>4, <2>1, <2>2, FloorIs DEF SegTypes
    <2>4. segs[First] \in Analyzer!Segment
      BY <1>2, <2>2 DEF SegTypes
    <2> DEFINE cut == [segs[First] EXCEPT !.etime = First]
    <2>5. segs' = [segs EXCEPT ![First] = cut]
      BY <1>4, <2>1, <2>3
    <2>6. cut.etime = First
      BY <2>4 DEF Analyzer!Segment
    <2> HIDE DEF cut
    <2>7. segs'[First] = cut /\ DOMAIN segs' = DOMAIN segs
      BY <2>2, <2>5
    <2>8. \A j \in DOMAIN segs : j # First => segs'[j] = segs[j]
      BY <2>5
    <2> QED BY <1>3, <2>2, <2>6, <2>7, <2>8
  <1>5. ASSUME Analyzer!Exits(swl) = {},
               segs' = Analyzer!Put(segs, Analyzer!Seg("BLOCKED", Analyzer!GetPrevState(swl).time,
                                          Analyzer!TraceEtime(swl), -Analyzer!UNKNOWN))
        PROVE  /\ DOMAIN segs' = DOMAIN segs \cup {First}
               /\ segs'[First].etime <= First
               /\ \A j \in DOMAIN segs : j # First => segs'[j] = segs[j]
    <2> DEFINE seg == Analyzer!Seg("BLOCKED", Analyzer!GetPrevState(swl).time,
                                   Analyzer!TraceEtime(swl), -Analyzer!UNKNOWN)
    <2>1. seg.stime = First /\ seg.etime = First /\ segs' = Analyzer!Put(segs, seg)
      BY <1>3, <1>5 DEF Analyzer!Seg, First
    <2> HIDE DEF seg
    <2> QED BY <1>3, <2>1 DEF Analyzer!Put
  <1> QED BY <1>1, <1>4, <1>5 DEF Analyzer!Finish

LEMMA HonestKept ==
  ASSUME UNCHANGED kernelVars
  PROVE  \A seg : Honest(seg)' <=> Honest(seg)
  BY DEF kernelVars, Honest, Tells, TrueSeg, Resumed, Moments, NoRaces

LEMMA StepHonest ==
  ASSUME TypeInv, KernelInv, NoRaces => WakeInv, PlaceInv, HonestInv, [Next]_vars
  PROVE  HonestInv'
  <1>1. ASSUME KernelStep PROVE HonestInv'
    BY <1>1 DEF KernelStep, Create, Exit, SwitchOut, WakeUp, NeedlessWakeUp, MisleadingWakeUp,
           SwitchIn, OtherSwitch, SoftirqBegin, SoftirqEnd, Tick, analyzerVars, HonestInv
  <1>2. CASE Load
    <2>1. pc' \in {"break", "crashed"} /\ DOMAIN segs' = {}
      BY <1>2 DEF Load, Analyzer!Load, TypeInv, LoadedInv
    <2> QED BY <2>1 DEF HonestInv
  <1>3. CASE Analyze
    <2>1. \A seg : Honest(seg)' <=> Honest(seg)
      BY <1>3, HonestKept DEF Analyze
    <2>2. CASE Analyzer!Finish
      <3>1. CASE pc' = "done"
        <4>1. /\ pc = "break" /\ DOMAIN segs' = DOMAIN segs \cup {First} /\ segs'[First].etime <= First
              /\ \A k \in DOMAIN segs : k # First => segs'[k] = segs[k]
          BY <2>2, <3>1, FinishIs
        <4>2. ASSUME NEW k \in DOMAIN segs', ~(segs'[k].etime <= k)
              PROVE  \E seg : seg = segs'[k] /\ Honest(seg)
          BY <4>1, <4>2 DEF HonestInv
        <4>3. ASSUME NEW k \in DOMAIN segs' PROVE segs'[k].etime <= k \/ Honest(segs[k])'
          <5>1. ASSUME NEW seg, seg = segs'[k], Honest(seg) PROVE Honest(segs[k])'
            BY <2>1, <5>1 DEF Honest, Tells, TrueSeg
          <5> QED BY <4>2, <5>1
        <4> QED BY <3>1, <4>3 DEF HonestInv
      <3>2. CASE pc' = "crashed"
        BY <3>2 DEF HonestInv
      <3> QED BY <2>2, <3>1, <3>2 DEF Analyzer!Finish
    <2>3. CASE ~Analyzer!Finish
      <3>1. PICK sw : RoundOf(sw) /\ (OutRound(sw) \/ InRound(sw) \/ WakeRound(sw) \/ SkipRound(sw))
        BY <1>3, <2>3, RoundFacts
      <3>2. pc = "break" /\ pc' = "break" /\ First' = First
        BY <3>1 DEF RoundOf
      <3>3. ASSUME NEW k \in DOMAIN segs', k # First PROVE \E seg : seg = segs'[k] /\ Honest(seg)
        <4>1. Honest(segs'[k]) \/ (k \in DOMAIN segs /\ segs'[k] = segs[k])
          BY <3>1, <3>3, RoundHonest
        <4>2. k \in DOMAIN segs => Honest(segs[k])
          BY <3>2, <3>3 DEF HonestInv
        <4> QED BY <4>1, <4>2
      <3>4. ASSUME NEW k \in DOMAIN segs', k # First PROVE Honest(segs[k])'
        <4>1. PICK seg : seg = segs'[k] /\ Honest(seg)
          BY <3>3, <3>4
        <4> QED BY <2>1, <4>1 DEF Honest, Tells, TrueSeg
      <3> QED BY <3>2, <3>4 DEF HonestInv
    <2> QED BY <2>2, <2>3
  <1>4. CASE UNCHANGED vars
    <2>1. pc' = pc /\ segs' = segs /\ First' = First /\ \A seg : Honest(seg)' <=> Honest(seg)
      <3>1. pc' = pc /\ segs' = segs /\ swl' = swl /\ UNCHANGED kernelVars
        BY <1>4 DEF vars, analyzerVars
      <3>2. First' = First
        BY ONLY <3>1 DEF First, Analyzer!GetPrevState, Analyzer!Exits, Analyzer!ExitTime,
                         Analyzer!TraceEtime, Analyzer!Unknown
      <3> QED BY <3>1, <3>2, HonestKept
    <2>2. \A k \in DOMAIN segs : Honest(segs[k]) => Honest(segs[k])'
      BY <2>1 DEF Honest, Tells, TrueSeg
    <2> QED BY <2>1, <2>2 DEF HonestInv
  <1> QED BY <1>1, <1>2, <1>3, <1>4, NextIs

(* At every time of the reading each segment but the one that starts at    *)
(* First tells what a segment should.                                      *)
THEOREM HonestInductive == Spec => []HonestInv
  <1>1. Spec => [](NoRaces => WakeInv)
    <2>1. CASE NoRaces
      <3>1. WakeInv => (NoRaces => WakeInv)
        OBVIOUS
      <3> QED BY <2>1, <3>1, WakesInductive, PTL
    <2>2. CASE ~NoRaces
      <3>1. NoRaces => WakeInv
        BY <2>2
      <3> QED BY <3>1, PTL
    <2> QED BY <2>1, <2>2
  <1>2. Init => HonestInv
    BY DEF Init, Analyzer!Init, HonestInv
  <1>3. TypeInv /\ KernelInv /\ (NoRaces => WakeInv) /\ PlaceInv /\ HonestInv /\ [Next]_vars => HonestInv'
    BY StepHonest
  <1> QED BY <1>1, <1>2, <1>3, TypeInductive, KernelInductive, PlaceInductive, PTL DEF Spec

(* A segment that is at a moment is kept under a time before it.           *)
LEMMA AtIs ==
  ASSUME TypeInv, HonestInv, pc = "done", NEW m \in Moments, NEW seg \in At(m)
  PROVE  Honest(seg) /\ seg.stime < m /\ m <= seg.etime
  <1>1. PICK k \in DOMAIN segs : seg = segs[k] /\ k < m /\ m <= segs[k].etime
    BY DEF At
  <1>2. k \in Nat /\ segs[k] \in Analyzer!Segment /\ segs[k].stime = k
    BY DEF TypeInv, TypeOK, Analyzer!TypeOK
  <1>3. segs[k].etime \in Nat /\ m \in Nat
    BY <1>2, StampedTyped DEF Analyzer!Segment, TypeInv, Moments
  <1> QED BY <1>1, <1>2, <1>3 DEF HonestInv

(* The first softirq that displaces a thread between being switched in and *)
(* out is told: GetCeilingSoft finds the first one that ends after the     *)
(* thread was switched in, and no softirq is on a CPU while it switches.   *)
THEOREM FirstSoftirqIsTold == Spec => []FirstSoftirqTold
  <1>1. TypeInv /\ HonestInv => FirstSoftirqTold
    <2>1. SUFFICES ASSUME TypeInv, HonestInv, pc = "done", NEW m \in Moments, NEW seg \in At(m),
                          truth[m] = "displaced", ~Resumed(m)
                   PROVE  seg.state = "RUNNABLE"
      BY DEF FirstSoftirqTold, Resumed
    <2> QED BY <2>1, AtIs DEF Honest, Tells
  <1> QED BY <1>1, TypeInductive, HonestInductive, PTL

(* BreakIntoSegments tells nothing of a thread that it was not doing, as    *)
(* long as no wake-up misleads it, whatever softirqs ran and wherever the  *)
(* record of do_exit went.                                                 *)
THEOREM SegmentsTellTheTruth ==
  ASSUME NoRaces
  PROVE  Spec => []SegmentsAreTrue
  <1>1. NoRaces /\ TypeInv /\ HonestInv => SegmentsAreTrue
    <2>1. SUFFICES ASSUME NoRaces, TypeInv, HonestInv, pc = "done", NEW m \in Moments, NEW seg \in At(m)
                   PROVE  seg.state \in MayBeTold(truth[m])
      BY DEF SegmentsAreTrue
    <2> QED BY <2>1, AtIs DEF Honest, TrueSeg
  <1>2. NoRaces
    OBVIOUS
  <1> QED BY <1>1, <1>2, TypeInductive, HonestInductive, PTL

(* Each wait that is told ended when the thread was woken, and is put down *)
(* to the thread or the kind of interrupt that woke it.                    *)
THEOREM WaitsAreTheWakers ==
  ASSUME NoRaces
  PROVE  Spec => []WaitsNameWakers
  <1>1. NoRaces /\ TypeInv /\ HonestInv => WaitsNameWakers
    <2>1. SUFFICES ASSUME NoRaces, TypeInv, HonestInv, pc = "done", NEW t \in DOMAIN segs,
                          segs[t].state = "BLOCKED", t < segs[t].etime
                   PROVE  <<segs[t].etime, segs[t].waitFor>> \in woken
      BY DEF WaitsNameWakers
    <2>2. t \in Nat /\ segs[t].etime \in Nat
      BY <2>1 DEF TypeInv, TypeOK, Analyzer!TypeOK, Analyzer!Segment
    <2> QED BY <2>1, <2>2 DEF HonestInv, Honest, TrueSeg
  <1>2. NoRaces
    OBVIOUS
  <1> QED BY <1>1, <1>2, TypeInductive, HonestInductive, PTL

-----------------------------------------------------------------------------
(* Segments that follow one another.                                       *)

(* The segments kept under K are not empty, do not overlap and end at e at *)
(* the latest.                                                             *)
Laid(map, K, e) ==
  /\ \A k \in K : k < map[k].etime /\ map[k].etime <= e
  /\ \A j, k \in K : j < k => map[j].etime <= k

Covers(map, K, a, b) ==
  \A m \in Nat : a < m /\ m <= b => \E k \in K : k < m /\ m <= map[k].etime

LEMMA OneMore ==
  ASSUME NEW map, NEW K \in SUBSET Nat, NEW p \in Nat, NEW b \in Nat, NEW e \in Nat,
         \A k \in K : map[k].etime \in Nat,
         Laid(map, K, p), p <= b, b < e, map[b].etime = e
  PROVE  /\ Laid(map, K \cup {b}, e) /\ K \cup {b} \in SUBSET Nat
         /\ \A k \in K \cup {b} : map[k].etime \in Nat
         /\ \A a \in Nat : Covers(map, K, a, p) /\ b = p => Covers(map, K \cup {b}, a, e)
  <1>1. \A k \in K : k \in Nat /\ k < map[k].etime /\ map[k].etime <= p
    BY DEF Laid
  <1>2. \A k \in K \cup {b} : k < map[k].etime /\ map[k].etime <= e
    BY <1>1
  <1>3. ASSUME NEW j \in K \cup {b}, NEW k \in K \cup {b}, j < k PROVE map[j].etime <= k
    <2>1. CASE j \in K /\ k \in K
      BY <1>3, <2>1 DEF Laid
    <2>2. CASE j \in K /\ k = b
      BY <1>1, <2>2
    <2>3. CASE j = b /\ k \in K
      BY <1>1, <1>3, <2>3
    <2> QED BY <1>3, <2>1, <2>2, <2>3
  <1>4. ASSUME NEW a \in Nat, Covers(map, K, a, p), b = p PROVE Covers(map, K \cup {b}, a, e)
    <2>1. SUFFICES ASSUME NEW m \in Nat, a < m, m <= e
                   PROVE  \E k \in K \cup {b} : k < m /\ m <= map[k].etime
      BY DEF Covers
    <2>2. CASE m <= p
      BY <1>4, <2>1, <2>2 DEF Covers
    <2>3. CASE p < m
      BY <1>4, <2>1, <2>3
    <2> QED BY <2>2, <2>3
  <1>5. \A k \in K \cup {b} : map[k].etime \in Nat
    OBVIOUS
  <1> QED BY <1>2, <1>3, <1>4, <1>5 DEF Laid

LEMMA LaidKept ==
  ASSUME NEW map, NEW new, NEW K, \A k \in K : new[k] = map[k], NEW e
  PROVE  /\ Laid(map, K, e) => Laid(new, K, e)
         /\ \A a, b : Covers(map, K, a, b) => Covers(new, K, a, b)
  BY DEF Laid, Covers

(* The stamps that do_exit records may have lie outside the trace.         *)
StaleOutside == StaleStamps \cap (1 .. MaxTime) = {}

(* do_exit records are the thread's own.                                   *)
ExitInv ==
  \A r \in Range(trace) : r.type = "do_exit" => r.prev = Pid /\ r.time \in StaleStamps

(* BreakIntoSegments begins before or after all there is.                  *)
FirstApart == First = 0 \/ \A r \in Stamped : r.time <= First

Real == DOMAIN segs \ {First}

PartInv ==
  /\ pc = "break" =>
       /\ Laid(segs, Real, ps.time)
       /\ \A a \in ReadIn : Own(a) => a.time <= ps.time /\ Covers(segs, Real, a.time, ps.time)
  /\ pc = "done" =>
       /\ First \in DOMAIN segs => segs[First].etime <= First
       /\ \E e \in Nat : Laid(segs, Real, e)
       /\ \A a, b \in Stamped : Own(a) /\ Own(b) => Covers(segs, Real, a.time, b.time)

LEMMA StepExit ==
  ASSUME TypeInv, ExitInv, KernelStep
  PROVE  ExitInv'
  <1> USE DEF TypeInv
  <1>1. Tick
    BY DEF KernelStep, Create, Exit, SwitchOut, WakeUp, NeedlessWakeUp, MisleadingWakeUp,
           SwitchIn, OtherSwitch, SoftirqBegin, SoftirqEnd
  <1>2. now < MaxTime
    BY <1>1, TickTyped
  <1>3. ASSUME NEW e \in Analyzer!Switch, Log(e),
               e.type = "do_exit" => e.prev = Pid /\ e.time \in StaleStamps
        PROVE  ExitInv'
    <2>1. Range(trace') = Range(trace) \cup {e}
      BY <1>3, LogTyped
    <2> QED BY <1>3, <2>1 DEF ExitInv
  <1>4. CASE Create
    BY <1>2, <1>3, <1>4, RecordsTyped DEF Create, NewRecord, Record
  <1>5. CASE Exit
    <2>1. PICK stamp \in StaleStamps : Log(ExitRecord(stamp))
      BY <1>5 DEF Exit, ExitRecord
    <2>2. ExitRecord(stamp).prev = Pid /\ ExitRecord(stamp).time = stamp
      BY DEF ExitRecord, Record
    <2> QED BY <1>2, <1>3, <2>1, <2>2, RecordsTyped
  <1>6. ASSUME NEW s \in {0, 1}, SwitchOut(s) PROVE ExitInv'
    BY <1>2, <1>3, <1>6, RecordsTyped DEF SwitchOut, OutRecord, Record
  <1>7. ASSUME NEW ctx \in Contexts, WakeUp(ctx) \/ NeedlessWakeUp(ctx) \/ MisleadingWakeUp(ctx)
        PROVE  ExitInv'
    BY <1>2, <1>3, <1>7, RecordsTyped
       DEF WakeUp, NeedlessWakeUp, MisleadingWakeUp, LogWakeUp, WakeRecord, Record
  <1>8. ASSUME NEW c \in CPUs, SwitchIn(c) PROVE ExitInv'
    BY <1>2, <1>3, <1>8, RecordsTyped DEF SwitchIn, InRecord, Record
  <1>9. ASSUME NEW c \in CPUs, OtherSwitch(c) PROVE ExitInv'
    BY <1>2, <1>3, <1>9, RecordsTyped DEF OtherSwitch, OtherRecord, Record
  <1>10. ASSUME NEW c \in CPUs, SoftirqBegin(c) \/ SoftirqEnd(c) PROVE ExitInv'
    BY <1>10 DEF SoftirqBegin, SoftirqEnd, ExitInv
  <1> QED BY <1>4, <1>5, <1>6, <1>7, <1>8, <1>9, <1>10 DEF KernelStep

LEMMA FirstIsApart ==
  ASSUME StaleOutside, TypeInv, KernelInv, ExitInv, pc = "break"
  PROVE  FirstApart /\ First \in Nat
  <1>1. swl \in Seq(Analyzer!Switch) /\ swl # <<>> /\ swl = trace
    BY BreakFacts DEF TypeInv, LoadedInv
  <1>2. /\ First \in Nat
        /\ Analyzer!Exits(swl) # {} => First = Analyzer!ExitTime(swl)
        /\ Analyzer!Exits(swl) = {} => First = Analyzer!TraceEtime(swl)
    BY <1>1, PrevStateTyped DEF First
  <1>3. \A r \in Stamped : r.time \in 1 .. now
    BY DEF KernelInv, TraceInv
  <1>4. CASE Analyzer!Exits(swl) # {}
    <2> DEFINE last == CHOOSE m \in Analyzer!Exits(swl) : \A l \in Analyzer!Exits(swl) : l <= m
    <2>1. last \in Analyzer!Exits(swl)
      <3>1. Analyzer!Exits(swl) \in SUBSET (1 .. Len(swl)) /\ Len(swl) \in Nat
        BY <1>1 DEF Analyzer!Exits
      <3>2. \E m \in Analyzer!Exits(swl) : \A l \in Analyzer!Exits(swl) : l <= m
        BY <1>4, <3>1, LastExists
      <3> QED BY <3>2
    <2>2. First = swl[last].time
      BY <1>2, <1>4 DEF Analyzer!ExitTime
    <2> HIDE DEF last
    <2>3. First \in StaleStamps
      BY <1>1, <2>1, <2>2 DEF Analyzer!Exits, ExitInv, Range
    <2>4. First \notin 1 .. MaxTime /\ now <= MaxTime /\ now \in Nat
      BY <2>3, StampedTyped DEF StaleOutside, TypeInv, TypeOK
    <2>5. First = 0 \/ First > MaxTime
      BY <1>2, <2>4, MaxTimeAssumption
    <2> QED BY <1>2, <1>3, <2>4, <2>5, MaxTimeAssumption DEF FirstApart
  <1>5. CASE Analyzer!Exits(swl) = {}
    <2>1. First = swl[Len(swl)].time /\ Len(swl) \in DOMAIN swl /\ \A i \in DOMAIN swl : i <= Len(swl)
      BY <1>1, <1>2, <1>5 DEF Analyzer!TraceEtime
    <2>2. \A i \in DOMAIN swl : swl[i].time <= First
      BY <1>1, <2>1 DEF KernelInv, TraceInv, SortedInv
    <2> QED BY <1>1, <1>2, <2>2 DEF FirstApart, Stamped, Range
  <1> QED BY <1>4, <1>5

(* The last change lies between the start of the trace and the next record.*)
LEMMA PlaceTime ==
  ASSUME TypeInv, KernelInv, PlaceInv, FirstApart, NEW sw, RoundOf(sw), sw.type # "do_exit"
  PROVE  /\ ps.state # "-1" => 1 <= ps.time /\ ps.time < sw.time /\ ps.time # First
         /\ \A t \in Nat : 1 <= t /\ t < sw.time => t # First
  <1>1. pc = "break" /\ n <= Len(swl) /\ sw \in Stamped /\ sw = swl[n] /\ sw.time \in Nat
    BY DEF RoundOf
  <1>2. \A t \in Nat : 1 <= t /\ t < sw.time => t # First
    BY <1>1 DEF FirstApart
  <1>3. ASSUME ps.state # "-1" PROVE 1 <= ps.time /\ ps.time < sw.time /\ ps.time \in Nat
    <2>1. PICK q \in ReadIn : q.time = ps.time
      BY <1>1, <1>3 DEF RoundOf, PlaceInv, RunningPlace, RunnablePlace, BlockedPlace
    <2>2. q \in Stamped /\ q.time < sw.time
      BY <1>1, <2>1, ReadFacts
    <2> QED BY <2>1, <2>2 DEF KernelInv, TraceInv
  <1> QED BY <1>1, <1>2, <1>3

(* What is laid so far ends before the last change.                        *)
LEMMA RealKept ==
  ASSUME TypeInv, PlaceInv, PartInv, NEW sw, RoundOf(sw)
  PROVE  /\ Real \in SUBSET Nat /\ Laid(segs, Real, ps.time)
         /\ \A k \in Real : segs[k].etime \in Nat /\ k < ps.time
         /\ ps.state = "-1" => Real = {}
  <1>1. SegTypes(segs) /\ pc = "break" /\ ps.time \in Nat
    BY BreakFacts DEF RoundOf
  <1>2. \A k \in Real : k \in Nat /\ segs[k].etime \in Nat
    BY <1>1 DEF SegTypes, Real, Analyzer!Segment
  <1>3. Laid(segs, Real, ps.time)
    BY <1>1 DEF PartInv
  <1>4. \A k \in Real : k < ps.time
    BY <1>1, <1>2, <1>3 DEF Laid
  <1>5. ps.state = "-1" => Real = {}
    BY <1>1 DEF PlaceInv, UnknownPlace, Real
  <1> QED BY <1>2, <1>3, <1>4, <1>5

(* A round that adds one segment, up to the record.                        *)
LEMMA OneLaid ==
  ASSUME TypeInv, KernelInv, PlaceInv, PartInv, FirstApart,
         NEW sw, RoundOf(sw), sw.type # "do_exit",
         NEW seg, segs' = Analyzer!Put(segs, seg), seg.stime = ps.time, seg.etime = sw.time
  PROVE  /\ Laid(segs', Real', sw.time)
         /\ ps.state # "-1" => \A a \in Nat :
              Covers(segs, Real, a, ps.time) => Covers(segs', Real', a, sw.time)
  <1>1. /\ DOMAIN segs' = DOMAIN segs \cup {ps.time} /\ segs'[ps.time] = seg
        /\ \A k \in DOMAIN segs : k # ps.time => segs'[k] = segs[k]
    BY DEF Analyzer!Put
  <1>2. ps.time \in Nat /\ sw.time \in Nat /\ First' = First
    BY DEF RoundOf
  <1>3. /\ Real \in SUBSET Nat /\ Laid(segs, Real, ps.time)
        /\ \A k \in Real : segs[k].etime \in Nat /\ k < ps.time
        /\ ps.state = "-1" => Real = {}
    BY RealKept
  <1>4. CASE ps.state = "-1"
    <2>1. ps.time = First
      BY <1>4 DEF PlaceInv, UnknownPlace, RoundOf
    <2>2. Real' = {}
      BY <1>1, <1>2, <1>3, <1>4, <2>1 DEF Real
    <2> QED BY <1>4, <2>2 DEF Laid
  <1>5. CASE ps.state # "-1"
    <2>1. ps.time < sw.time /\ ps.time # First
      BY <1>5, PlaceTime
    <2>2. Real' = Real \cup {ps.time}
      BY <1>1, <1>2, <2>1 DEF Real
    <2>3. \A k \in Real : segs'[k] = segs[k]
      BY <1>1, <1>2, <1>3 DEF Real
    <2>4. /\ Laid(segs', Real, ps.time) /\ \A k \in Real : segs'[k].etime \in Nat
          /\ \A a, b : Covers(segs, Real, a, b) => Covers(segs', Real, a, b)
      BY <1>3, <2>3, LaidKept
    <2>5. segs'[ps.time].etime = sw.time
      BY <1>1
    <2>6. /\ Laid(segs', Real \cup {ps.time}, sw.time)
          /\ \A a \in Nat : Covers(segs', Real, a, ps.time) => Covers(segs', Real \cup {ps.time}, a, sw.time)
      BY <1>2, <1>3, <2>1, <2>4, <2>5, OneMore
    <2> QED BY <2>2, <2>4, <2>6
  <1> QED BY <1>4, <1>5

LEMMA TwoMore ==
  ASSUME NEW map, NEW K \in SUBSET Nat, NEW p \in Nat, NEW b \in Nat, NEW c \in Nat, NEW e \in Nat,
         \A k \in K : map[k].etime \in Nat,
         Laid(map, K, p), p <= b, b < c, c < e, map[b].etime = c, map[c].etime = e
  PROVE  /\ Laid(map, K \cup {b, c}, e) /\ K \cup {b, c} \in SUBSET Nat
         /\ \A k \in K \cup {b, c} : map[k].etime \in Nat
         /\ \A a \in Nat : Covers(map, K, a, p) /\ b = p => Covers(map, K \cup {b, c}, a, e)
  <1> DEFINE L == K \cup {b}  M == L \cup {c}
  <1>1. /\ Laid(map, L, c) /\ L \in SUBSET Nat /\ \A k \in L : map[k].etime \in Nat
        /\ \A a \in Nat : Covers(map, K, a, p) /\ b = p => Covers(map, L, a, c)
    BY OneMore
  <1> HIDE DEF L
  <1>2. /\ Laid(map, M, e) /\ M \in SUBSET Nat /\ \A k \in M : map[k].etime \in Nat
        /\ \A a \in Nat : Covers(map, L, a, c) => Covers(map, M, a, e)
    BY <1>1, OneMore
  <1>3. M = K \cup {b, c}
    BY DEF L
  <1> HIDE DEF M
  <1> QED BY <1>1, <1>2, <1>3

(* A round that adds three.                                                *)
LEMMA ThreeLaid ==
  ASSUME TypeInv, KernelInv, PlaceInv, PartInv, FirstApart,
         NEW sw, RoundOf(sw), OwnOut(sw),
         NEW s \in Inside(sw), SplitAround(s, segs', ps.time, sw.time)
  PROVE  /\ Laid(segs', Real', sw.time)
         /\ ps.state # "-1" => \A a \in Nat :
              Covers(segs, Real, a, ps.time) => Covers(segs', Real', a, sw.time)
  <1>1. ps.time \in Nat /\ sw.time \in Nat /\ First' = First /\ sw.type # "do_exit"
    BY DEF RoundOf, OwnOut
  <1>2. s \in softTrace /\ s.cpu = sw.cpu /\ ps.time <= s.etime /\ s.etime < sw.time
    BY InsideIs
  <1>3. s.stime \in Nat /\ s.etime \in Nat /\ 1 <= s.stime /\ s.stime < s.etime
    BY <1>2, SoftFields, StampedTyped DEF TypeInv, KernelInv, SoftInv
  <1>4. PICK p \in Nat, b \in Nat, c \in Nat, e \in Nat :
          p = ps.time /\ b = s.stime /\ c = s.etime /\ e = sw.time
    BY <1>1, <1>3
  <1>5. 1 <= b /\ b < c /\ c < e
    BY <1>2, <1>3, <1>4
  <1>6. b # First /\ c # First
    BY <1>1, <1>4, <1>5, PlaceTime
  <1>7. p < b
    <2>1. CASE p # First
      BY <1>2, <1>4, <2>1, OutFacts
    <2>2. CASE p = First
      <3>1. First = 0 \/ e <= First
        BY <1>1, <1>4 DEF FirstApart, RoundOf
      <3> QED BY <1>2, <1>4, <1>5, <2>2, <3>1
    <2> QED BY <2>1, <2>2
  <1>8. /\ DOMAIN segs' = DOMAIN segs \cup {p, b, c}
        /\ \A k \in DOMAIN segs : k \notin {p, b, c} => segs'[k] = segs[k]
        /\ segs'[c].etime = e /\ segs'[b].etime = c /\ segs'[p].etime = b
    BY <1>4, <1>5, <1>7 DEF SplitAround, Analyzer!Seg
  <1>9. /\ Real \in SUBSET Nat /\ Laid(segs, Real, p)
        /\ \A k \in Real : segs[k].etime \in Nat /\ k < p
        /\ ps.state = "-1" => Real = {}
    BY <1>4, RealKept
  <1>10. \A k \in Real : segs'[k] = segs[k]
    BY <1>5, <1>7, <1>8, <1>9 DEF Real
  <1>11. /\ Laid(segs', Real, p) /\ \A k \in Real : segs'[k].etime \in Nat
         /\ \A x, y : Covers(segs, Real, x, y) => Covers(segs', Real, x, y)
    BY <1>9, <1>10, LaidKept
  <1>12. CASE ps.state = "-1"
    <2>1. p = First /\ Real = {}
      BY <1>4, <1>9, <1>12 DEF PlaceInv, UnknownPlace, RoundOf
    <2>2. Real' = Real \cup {b, c}
      BY <1>1, <1>5, <1>6, <1>7, <1>8, <2>1 DEF Real
    <2>3. Laid(segs', Real \cup {b, c}, e)
      <3>1. PICK map, L : map = segs' /\ L = Real
        OBVIOUS
      <3>2. L \in SUBSET Nat /\ Laid(map, L, p) /\ \A k \in L : map[k].etime \in Nat
        BY <1>9, <1>11, <3>1
      <3>3. /\ p <= b /\ b < c /\ c < e /\ map[b].etime = c /\ map[c].etime = e
            /\ p \in Nat /\ b \in Nat /\ c \in Nat /\ e \in Nat
        BY <1>5, <1>7, <1>8, <3>1
      <3>4. Laid(map, L \cup {b, c}, e)
        BY ONLY <3>2, <3>3, TwoMore
      <3> QED BY <3>1, <3>4
    <2> QED BY <1>4, <1>12, <2>2, <2>3
  <1>13. CASE ps.state # "-1"
    <2>1. p # First
      BY <1>1, <1>4, <1>13, PlaceTime
    <2> DEFINE K == Real \cup {p}
    <2>2. /\ Laid(segs', K, b) /\ K \in SUBSET Nat /\ \A k \in K : segs'[k].etime \in Nat
          /\ \A x \in Nat : Covers(segs', Real, x, p) => Covers(segs', K, x, b)
      <3>1. PICK map, L : map = segs' /\ L = Real
        OBVIOUS
      <3>2. L \in SUBSET Nat /\ Laid(map, L, p) /\ \A k \in L : map[k].etime \in Nat
        BY <1>9, <1>11, <3>1
      <3>3. p <= p /\ p < b /\ map[p].etime = b
        BY <1>7, <1>8, <3>1
      <3>4. /\ Laid(map, L \cup {p}, b) /\ L \cup {p} \in SUBSET Nat
            /\ \A k \in L \cup {p} : map[k].etime \in Nat
            /\ \A x \in Nat : Covers(map, L, x, p) => Covers(map, L \cup {p}, x, b)
        BY ONLY <3>2, <3>3, OneMore, p \in Nat, b \in Nat
      <3> QED BY <3>1, <3>4
    <2>3. K \cup {b, c} = Real'
      BY <1>1, <1>6, <1>8, <2>1 DEF Real
    <2> HIDE DEF K
    <2>4. /\ Laid(segs', K \cup {b, c}, e)
          /\ \A x \in Nat : Covers(segs', K, x, b) => Covers(segs', K \cup {b, c}, x, e)
      <3>1. PICK map, L : map = segs' /\ L = K
        OBVIOUS
      <3>2. L \in SUBSET Nat /\ Laid(map, L, b) /\ \A k \in L : map[k].etime \in Nat
        BY <2>2, <3>1
      <3>3. /\ Laid(map, L \cup {b, c}, e)
            /\ \A x \in Nat : Covers(map, L, x, b) => Covers(map, L \cup {b, c}, x, e)
        BY <1>5, <1>8, <3>1, <3>2, TwoMore, SMTT(30)
      <3> QED BY <3>1, <3>3
    <2> QED BY <1>4, <1>11, <2>2, <2>3, <2>4
  <1> QED BY <1>12, <1>13

LEMMA RoundLaid ==
  ASSUME TypeInv, KernelInv, PlaceInv, PartInv, FirstApart, NEW sw, RoundOf(sw),
         OutRound(sw) \/ InRound(sw) \/ WakeRound(sw)
  PROVE  /\ ps'.time = sw.time /\ Laid(segs', Real', sw.time)
         /\ ps.state # "-1" => \A a \in Nat :
              Covers(segs, Real, a, ps.time) => Covers(segs', Real', a, sw.time)
  <1>1. ps'.time = sw.time /\ sw.type # "do_exit"
    BY DEF OutRound, InRound, WakeRound, OwnIn, OwnOut, Wake
  <1>2. ASSUME NEW state, NEW w, segs' = Analyzer!Put(segs, Analyzer!Seg(state, ps.time, sw.time, w))
        PROVE  /\ Laid(segs', Real', sw.time)
               /\ ps.state # "-1" => \A a \in Nat :
                    Covers(segs, Real, a, ps.time) => Covers(segs', Real', a, sw.time)
    <2> DEFINE seg == Analyzer!Seg(state, ps.time, sw.time, w)
    <2>1. seg.stime = ps.time /\ seg.etime = sw.time /\ segs' = Analyzer!Put(segs, seg)
      BY <1>2 DEF Analyzer!Seg
    <2> HIDE DEF seg
    <2> QED BY <1>1, <2>1, OneLaid
  <1>3. CASE OutRound(sw)
    <2>1. OwnOut(sw) /\ Analyzer!Ran(sw)
      BY <1>3 DEF OutRound
    <2> QED BY <1>1, <1>2, <2>1, RanIs, ThreeLaid
  <1>4. CASE InRound(sw) \/ WakeRound(sw)
    BY <1>1, <1>2, <1>4 DEF InRound, WakeRound
  <1> QED BY <1>1, <1>3, <1>4

LEMMA RoundParted ==
  ASSUME TypeInv, KernelInv, PlaceInv, PartInv, FirstApart, NEW sw, RoundOf(sw),
         OutRound(sw) \/ InRound(sw) \/ WakeRound(sw) \/ SkipRound(sw)
  PROVE  PartInv'
  <1>1. /\ pc = "break" /\ pc' = "break" /\ First' = First /\ sw.time \in Nat /\ ps.time \in Nat
        /\ ReadIn' = ReadIn \cup {r \in {sw} : r.type # "do_exit"}
        /\ Laid(segs, Real, ps.time)
        /\ \A a \in ReadIn : Own(a) => a.time <= ps.time /\ Covers(segs, Real, a.time, ps.time)
    BY DEF RoundOf, PartInv
  <1>2. SUFFICES ASSUME TRUE
                 PROVE  /\ Laid(segs', Real', ps'.time)
                        /\ \A a \in ReadIn' : Own(a) =>
                             a.time <= ps'.time /\ Covers(segs', Real', a.time, ps'.time)
    BY <1>1 DEF PartInv, Own, OwnIn, OwnOut
  <1>3. CASE SkipRound(sw)
    <2>1. UNCHANGED <<ps, segs>> /\ ~Own(sw) /\ Real' = Real
      BY <1>1, <1>3 DEF SkipRound, Real
    <2> QED BY <1>1, <2>1
  <1>4. CASE OutRound(sw) \/ InRound(sw) \/ WakeRound(sw)
    <2>1. /\ ps'.time = sw.time /\ Laid(segs', Real', sw.time)
          /\ ps.state # "-1" => \A a \in Nat :
               Covers(segs, Real, a, ps.time) => Covers(segs', Real', a, sw.time)
      BY <1>4, RoundLaid
    <2>2. ASSUME NEW a \in ReadIn', Own(a)
          PROVE  a.time <= sw.time /\ Covers(segs', Real', a.time, sw.time)
      <3>1. CASE a = sw
        BY <1>1, <3>1 DEF Covers
      <3>2. CASE a # sw
        <4>1. a \in ReadIn
          BY <1>1, <2>2, <3>2
        <4>2. a \in Stamped /\ a.time \in Nat
          BY <1>1, <4>1, ReadFacts, StampedTyped, RecordFields DEF TypeInv, RoundOf
        <4>3. ps.state # "-1"
          BY <1>1, <2>2, <4>1 DEF PlaceInv, UnknownPlace
        <4>4. Covers(segs', Real', a.time, sw.time)
          BY <1>1, <2>1, <2>2, <4>1, <4>2, <4>3
        <4>5. sw.type # "do_exit"
          BY <1>4 DEF OutRound, InRound, WakeRound, OwnIn, OwnOut, Wake
        <4>6. a.time < sw.time
          BY <4>1, <4>5 DEF RoundOf
        <4> QED BY <1>1, <4>2, <4>4, <4>6
      <3> QED BY <3>1, <3>2
    <2> QED BY <2>1, <2>2
  <1> QED BY <1>3, <1>4

LEMMA FinishParted ==
  ASSUME TypeInv, KernelInv, PlaceInv, PartInv, Analyze, Analyzer!Finish, FirstApart
  PROVE  PartInv'
  <1>1. SUFFICES ASSUME pc' = "done"
                 PROVE  /\ First' \in DOMAIN segs' => segs'[First'].etime <= First'
                        /\ \E e \in Nat : Laid(segs', Real', e)
                        /\ \A a, b \in Stamped' : Own(a) /\ Own(b) =>
                             Covers(segs', Real', a.time, b.time)
    BY DEF Analyzer!Finish, PartInv, Own, OwnIn, OwnOut
  <1>2. /\ pc = "break" /\ n > Len(swl) /\ swl' = swl /\ DOMAIN segs' = DOMAIN segs \cup {First}
        /\ segs'[First].etime <= First
        /\ \A k \in DOMAIN segs : k # First => segs'[k] = segs[k]
    BY <1>1, FinishIs
  <1>3. First' = First /\ Stamped' = Stamped /\ ReadIn = Stamped
    <2>1. First' = First
      <3>1. swl' = swl
        BY <1>2
      <3> QED BY ONLY <3>1 DEF First, Analyzer!GetPrevState, Analyzer!Exits, Analyzer!ExitTime,
                               Analyzer!TraceEtime, Analyzer!Unknown
    <2>2. Stamped' = Stamped
      BY DEF Analyze, kernelVars, Stamped
    <2>3. ReadIn = Stamped
      BY <1>2, ReadAll
    <2> QED BY <2>1, <2>2, <2>3
  <1>4. Real' = Real /\ \A k \in Real : segs'[k] = segs[k]
    BY <1>2, <1>3 DEF Real
  <1>5. Laid(segs', Real, ps.time) /\ \A a, b : Covers(segs, Real, a, b) => Covers(segs', Real, a, b)
    BY <1>2, <1>4, LaidKept DEF PartInv
  <1>6. ps.time \in Nat
    BY <1>2, BreakFacts
  <1>7. ASSUME NEW a \in Stamped, NEW b \in Stamped, Own(a), Own(b)
        PROVE  Covers(segs', Real, a.time, b.time)
    <2>1. b.time <= ps.time /\ Covers(segs', Real, a.time, ps.time) /\ b.time \in Nat
      BY <1>2, <1>3, <1>5, <1>7, StampedTyped, RecordFields DEF PartInv, TypeInv
    <2> QED BY <1>6, <2>1 DEF Covers
  <1> QED BY <1>2, <1>3, <1>4, <1>5, <1>6, <1>7

LEMMA StepParted ==
  ASSUME StaleOutside, TypeInv, KernelInv, ExitInv, PlaceInv, PartInv, [Next]_vars
  PROVE  PartInv'
  <1>1. ASSUME KernelStep PROVE PartInv'
    BY <1>1 DEF KernelStep, Create, Exit, SwitchOut, WakeUp, NeedlessWakeUp, MisleadingWakeUp,
           SwitchIn, OtherSwitch, SoftirqBegin, SoftirqEnd, Tick, analyzerVars, PartInv
  <1>2. CASE Load
    <2>1. pc' \in {"break", "crashed"} /\ DOMAIN segs' = {} /\ ReadIn' = {}
      BY <1>2 DEF Load, Analyzer!Load, TypeInv, LoadedInv, ReadIn
    <2>2. Real' = {}
      BY <2>1 DEF Real
    <2> QED BY <2>1, <2>2 DEF PartInv, Laid
  <1>3. CASE Analyze
    <2>1. pc = "break" => FirstApart
      BY FirstIsApart
    <2>2. CASE Analyzer!Finish
      BY <1>3, <2>1, <2>2, FinishParted DEF Analyzer!Finish
    <2>3. CASE ~Analyzer!Finish
      <3>1. PICK sw : RoundOf(sw) /\ (OutRound(sw) \/ InRound(sw) \/ WakeRound(sw) \/ SkipRound(sw))
        BY <1>3, <2>3, RoundFacts
      <3> QED BY <2>1, <3>1, RoundParted DEF RoundOf
    <2> QED BY <2>2, <2>3
  <1>4. CASE UNCHANGED vars
    <2>1. First' = First /\ ReadIn' = ReadIn /\ Stamped' = Stamped /\ Real' = Real
      BY <1>4 DEF vars, kernelVars, analyzerVars, First, ReadIn, Stamped, Real,
             Analyzer!GetPrevState, Analyzer!Exits, Analyzer!ExitTime, Analyzer!TraceEtime,
             Analyzer!Unknown
    <2> QED BY <1>4, <2>1 DEF vars, analyzerVars, PartInv, Own, OwnIn, OwnOut
  <1> QED BY <1>1, <1>2, <1>3, <1>4, NextIs

(* Once BreakIntoSegments is done no moment is in two segments, and each    *)
(* moment between two switches of the thread is in one: what the segment   *)
(* of a softirq or the cut at the exit replaces was empty.                 *)
THEOREM SegmentsArePartition ==
  ASSUME StaleOutside
  PROVE  Spec => []SegmentsPartition
  <1>1. Init => ExitInv /\ PartInv
    BY DEF Init, Analyzer!Init, ExitInv, PartInv, Range
  <1>2. TypeInv /\ ExitInv /\ [Next]_vars => ExitInv'
    <2>1. ASSUME ExitInv, UNCHANGED kernelVars PROVE ExitInv'
      BY <2>1 DEF ExitInv, kernelVars
    <2> QED BY <2>1, StepExit, AnalyzerOnly, NextIs
  <1>3. StaleOutside /\ TypeInv /\ KernelInv /\ ExitInv /\ PlaceInv /\ PartInv /\ [Next]_vars => PartInv'
    BY StepParted
  <1>4. TypeInv /\ KernelInv /\ PartInv => SegmentsPartition
    <2>1. SUFFICES ASSUME TypeInv, KernelInv, PartInv, pc = "done", NEW m \in Moments
                   PROVE  /\ \A r, s \in At(m) : r = s
                          /\ (\E a, b \in OwnSwitches : a < m /\ m <= b) => At(m) # {}
      BY DEF SegmentsPartition
    <2>2. m \in Nat /\ swl = trace
      BY <2>1, StampedTyped DEF Moments, TypeInv, LoadedInv
    <2>3. \A k \in DOMAIN segs : k \in Nat /\ segs[k].etime \in Nat
      BY <2>1 DEF TypeInv, TypeOK, Analyzer!TypeOK, Analyzer!Segment
    <2>4. ASSUME NEW r \in At(m), NEW s \in At(m) PROVE r = s
      <3>1. PICK j \in DOMAIN segs : r = segs[j] /\ j < m /\ m <= segs[j].etime
        BY DEF At
      <3>2. PICK k \in DOMAIN segs : s = segs[k] /\ k < m /\ m <= segs[k].etime
        BY DEF At
      <3>3. j \in Real /\ k \in Real
        BY <2>1, <2>2, <2>3, <3>1, <3>2 DEF PartInv, Real
      <3>4. ~(j < k) /\ ~(k < j)
        BY <2>1, <2>2, <2>3, <3>1, <3>2, <3>3 DEF PartInv, Laid
      <3> QED BY <2>3, <3>1, <3>2, <3>4
    <2>5. ASSUME NEW a \in OwnSwitches, NEW b \in OwnSwitches, a < m, m <= b PROVE At(m) # {}
      <3>1. ASSUME NEW t \in OwnSwitches PROVE \E q \in Stamped : Own(q) /\ q.time = t
        <4>1. PICK i \in DOMAIN swl : /\ swl[i].type = "switch_to" /\ Pid \in {swl[i].prev, swl[i].next}
                                      /\ t = swl[i].time
          BY DEF OwnSwitches
        <4> QED BY <2>2, <4>1 DEF Stamped, Range, Own, OwnIn, OwnOut
      <3>2. PICK q \in Stamped, r \in Stamped : Own(q) /\ Own(r) /\ q.time = a /\ r.time = b
        BY <3>1
      <3>3. PICK k \in Real : k < m /\ m <= segs[k].etime
        BY <2>1, <2>2, <2>5, <3>2 DEF PartInv, Covers
      <3>4. segs[k] \in At(m)
        BY <3>3 DEF At, Real
      <3> QED BY <3>4
    <2> QED BY <2>4, <2>5
  <1>5. StaleOutside
    OBVIOUS
  <1> QED BY <1>1, <1>2, <1>3, <1>4, <1>5, TypeInductive, KernelInductive, PlaceInductive, PTL DEF Spec

=============================================================================
