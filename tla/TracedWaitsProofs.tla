--------------------------- MODULE TracedWaitsProofs ---------------------------
(***************************************************************************)
(* TracedWaits for every list of threads, all names, any stamps and any    *)
(* number of events.                                                       *)
(*                                                                         *)
(* KernelInv says what the segments of a thread look like and what the     *)
(* waker of a wait did at its end; WalkInv where main is in its loops, and *)
(* FindInv where findAllWaitingSegments is in its own.  GraphInv is the    *)
(* graph of the segments main has come past.                               *)
(***************************************************************************)
EXTENDS TracedWaits, FiniteSetTheorems, WellFoundedInduction, TLAPS

Doings == {"running", "runnable", "blocked", "exiting", "exited"}

KernelTyped ==
  /\ now \in 0 .. MaxTime
  /\ doing \in [Pids -> Doings]
  /\ since \in [Pids -> 0 .. now]
  /\ stamp \in [Pids -> Stamps \cup {-1}]
  /\ told = [p \in Pids |-> told[p]]
  /\ \A p \in Pids : stamp[p] # -1 <=> doing[p] \in {"exiting", "exited"}

(* The segment of thread p that begins at t.                               *)
Told(p, t, s) ==
  /\ s.pid = p /\ s.stime = t /\ s.state \in Analyzer!States
  /\ t \in 1 .. now /\ s.etime \in 2 .. now /\ t < s.etime
  /\ s.state = "BLOCKED" => s.waitFor \in (Pids \ {p}) \cup Others

(* Each segment ends where the next one begins, the last one when the      *)
(* thread has changed last; after a wait the thread is not on a CPU yet.   *)
ToldInv ==
  \A p \in Pids : \A t \in DOMAIN told[p] :
    LET s == told[p][t] IN
      /\ Told(p, t, s)
      /\ s.etime <= since[p]
      /\ s.etime = since[p] \/ s.etime \in DOMAIN told[p]
      /\ \A j \in DOMAIN told[p] : t < j => s.etime <= j
      /\ s.etime = since[p] /\ s.state = "BLOCKED" => doing[p] = "runnable"

(* At time t thread p was on a CPU: in a segment, in what is to become one *)
(* when it is switched out, or before its first switch.                    *)
WasRunning(p, t) ==
  \/ \E k \in DOMAIN told[p] : k < t /\ t <= told[p][k].etime
  \/ since[p] < t /\ doing[p] \in {"running", "exiting"}
  \/ since[p] > t /\ \A k \in DOMAIN told[p] : k > t

(* A wait that another thread has ended was ended by a thread on a CPU.    *)
WakerInv ==
  \A p \in Pids : \A t \in DOMAIN told[p] :
    LET s == told[p][t] IN
      s.state = "BLOCKED" /\ s.waitFor \in Pids => WasRunning(s.waitFor, s.etime)

KernelInv == KernelTyped /\ ToldInv /\ WakerInv

Final == [p \in Pids |-> Ended(p)]

(* Where main is, and which segment Cascade has been called for.           *)
WalkInv ==
  /\ pc \in {"load", "walk", "find", "return", "done", "crashed"}
  /\ pc = "load" => stack = <<>> /\ nth = 1 /\ pos = 0 /\ DOMAIN graph = {}
  /\ pc # "load" => now > 0 /\ segs = Final
  /\ nth \in 1 .. Len(PidList) + 1 /\ pos \in Nat
  /\ pc = "done" => nth = Len(PidList) + 1
  /\ pc \in {"load", "done"} => stack = <<>>
  /\ pc \in {"find", "return", "crashed"} => stack # <<>> /\ Head(stack).state = "BLOCKED"
  /\ stack # <<>> =>
       /\ nth <= Len(PidList) /\ pos # 0
       /\ pos - 1 \in DOMAIN segs[PidList[nth]]
       /\ stack = <<segs[PidList[nth]][pos - 1]>>

(* The loop of the search for w has come to sg, a segment of the waker.    *)
SearchAt(w, sg) ==
  /\ w.waitFor \in Pids
  /\ sg.stime \in DOMAIN segs[w.waitFor] /\ sg = segs[w.waitFor][sg.stime]

FindInv ==
  /\ found \in Seq(Analyzer!Segs)
  /\ pc = "load" => found = <<>>
  /\ pc = "find" => SearchAt(Head(stack), seg)
  /\ CrashesKnown

Passed(s) ==
  \E m \in 1 .. Len(PidList) :
    PidList[m] = s.pid /\ (m < nth \/ (m = nth /\ s.stime < pos))

(* Cascade has been called for w, and has not looked at it yet.            *)
Pending(w) == pc = "walk" /\ stack = <<w>>

Counted == {s \in Analyzer!Segs : Passed(s) /\ ~Pending(s)}

GraphInv ==
  pc # "load" =>
    \A k \in Analyzer!Comms \X Analyzer!Comms :
      Analyzer!Weight(k) = Cardinality(Analyzer!TimeOf(Counted \cap Analyzer!WaitsOf(k)))

-----------------------------------------------------------------------------
(* The threads.                                                            *)

LEMMA Numbers ==
  /\ PidList \in Seq(Nat) /\ Len(PidList) \in Nat
  /\ Pids \subseteq Nat
  /\ \A n \in 1 .. Len(PidList) : PidList[n] \in Pids
  /\ Others \subseteq Int \ Pids /\ Stamps \subseteq Nat
  /\ MaxTime \in Nat /\ Word \in Nat \ {0}
  BY PidsAssumption, StampsAssumption, OthersAssumption, WordAssumption, MaxTimeAssumption
     DEF Pids, Analyzer!Pids

LEMMA InitKernel == Init => KernelInv
  BY Numbers DEF Init, KernelInv, KernelTyped, ToldInv, WakerInv, Doings

(* What a switch or a wake-up changes.                                     *)
Changed(p, from, to, state, waitFor) ==
  /\ p \in Pids /\ doing[p] = from /\ now < MaxTime /\ now' = now + 1
  /\ doing' = [doing EXCEPT ![p] = to] /\ UNCHANGED stamp
  /\ \A q \in Pids \ {p} : told'[q] = told[q]
  /\ since[p] = 0 => told'[p] = told[p]
  /\ since[p] # 0 =>
       /\ DOMAIN told'[p] = DOMAIN told[p] \cup {since[p]}
       /\ \A t \in DOMAIN told[p] : t # since[p] => told'[p][t] = told[p][t]
       /\ told'[p][since[p]] = [pid |-> p, state |-> state, stime |-> since[p],
                                etime |-> now + 1, waitFor |-> waitFor]
  /\ since' \in {since, [since EXCEPT ![p] = now + 1]}
  /\ since' = since => since[p] = 0 /\ state = "BLOCKED"

LEMMA ChangesIs ==
  ASSUME KernelTyped, NEW p \in Pids, NEW from, NEW to, NEW state, NEW waitFor,
         Changes(p, from, to, state, waitFor),
         since' \in {since, [since EXCEPT ![p] = now + 1]},
         since' = since => since[p] = 0 /\ state = "BLOCKED"
  PROVE  Changed(p, from, to, state, waitFor) /\ told' = [q \in Pids |-> told'[q]]
  <1>1. CASE since[p] = 0
    BY <1>1 DEF Changes, Changed, Tick, KernelTyped
  <1>2. CASE since[p] # 0
    <2>1. told' = [told EXCEPT ![p] = Put(told[p], [pid |-> p, state |-> state,
                     stime |-> since[p], etime |-> now + 1, waitFor |-> waitFor])]
      BY <1>2 DEF Changes
    <2> QED BY <1>2, <2>1 DEF Changes, Changed, Tick, KernelTyped, Put
  <1> QED BY <1>1, <1>2

(* Where a thread may go, and whether that ends a wait.                    *)
Moves(from, to, state) ==
  \/ from = "runnable" /\ to = "running" /\ state = "RUNNABLE"
  \/ from = "running" /\ to \in {"runnable", "blocked"} /\ state = "RUNNING"
  \/ from = "exiting" /\ to = "exited" /\ state = "RUNNING"
  \/ from = "blocked" /\ to = "runnable" /\ state = "BLOCKED"

LEMMA ChangesTyped ==
  ASSUME KernelTyped, NEW p \in Pids, NEW from, NEW to, NEW state, NEW waitFor,
         Moves(from, to, state), Changed(p, from, to, state, waitFor),
         told' = [q \in Pids |-> told'[q]]
  PROVE  KernelTyped'
  <1>1. now' = now + 1 /\ now' \in 0 .. MaxTime
    BY Numbers DEF KernelTyped, Changed
  <1>2. since' \in [Pids -> 0 .. now']
    <2>1. since \in [Pids -> 0 .. now']
      BY <1>1, Numbers DEF KernelTyped
    <2>2. CASE since' = [since EXCEPT ![p] = now + 1]
      BY <1>1, <2>1, <2>2, Numbers DEF KernelTyped
    <2> QED BY <2>1, <2>2 DEF Changed
  <1>3. doing' \in [Pids -> Doings]
    BY DEF KernelTyped, Changed, Moves, Doings
  <1>4. \A q \in Pids : doing'[q] \in {"exiting", "exited"} <=> doing[q] \in {"exiting", "exited"}
    BY DEF KernelTyped, Changed, Moves, Doings
  <1> QED BY <1>1, <1>2, <1>3, <1>4 DEF KernelTyped, Changed

LEMMA ChangesTold ==
  ASSUME KernelTyped, ToldInv, NEW p \in Pids, NEW from, NEW to, NEW state, NEW waitFor,
         Moves(from, to, state), Changed(p, from, to, state, waitFor),
         state = "BLOCKED" => waitFor \in (Pids \ {p}) \cup Others
  PROVE  ToldInv'
  <1> DEFINE Is(q, t) ==
               /\ Told(q, t, told[q][t])
               /\ told[q][t].etime <= since[q]
               /\ told[q][t].etime = since[q] \/ told[q][t].etime \in DOMAIN told[q]
               /\ \A j \in DOMAIN told[q] : t < j => told[q][t].etime <= j
               /\ told[q][t].etime = since[q] /\ told[q][t].state = "BLOCKED" => doing[q] = "runnable"
  <1>1. \A q \in Pids : \A t \in DOMAIN told[q] : Is(q, t)
    BY DEF ToldInv
  <1>2. ASSUME NEW q \in Pids, NEW t \in DOMAIN told'[q] PROVE Is(q, t)'
    <2>1. now \in Nat /\ now' = now + 1 /\ since[p] \in 0 .. now /\ since[q] \in 0 .. now
      BY DEF KernelTyped, Changed
    <2>2. CASE q # p
      <3>1. told'[q] = told[q] /\ since'[q] = since[q] /\ doing'[q] = doing[q] /\ Is(q, t)
        BY <1>1, <2>2 DEF Changed, KernelTyped
      <3> QED BY <2>1, <3>1 DEF Told
    <2>3. CASE q = p /\ since[p] = 0
      <3>1. t \in DOMAIN told[p] /\ Is(p, t)
        BY <1>1, <2>3 DEF Changed
      <3> QED BY <2>1, <2>3, <3>1 DEF Told
    <2>4. CASE q = p /\ since[p] # 0
      <3>1. since'[p] = now + 1 /\ DOMAIN told'[p] = DOMAIN told[p] \cup {since[p]}
        BY <2>4 DEF Changed, KernelTyped
      <3>2. \A j \in DOMAIN told[p] : Is(p, j) /\ j < since[p]
        BY <1>1, <2>1 DEF Told
      <3>3. CASE t \in DOMAIN told[p]
        <4>1. told'[p][t] = told[p][t]
          <5>1. t # since[p]
            BY <2>1, <3>2, <3>3 DEF Told
          <5> QED BY <2>4, <3>3, <5>1 DEF Changed
        <4>2. Is(p, t) /\ told[p][t].etime \in Nat
          BY <1>1, <3>3 DEF Told
        <4> QED BY <2>1, <2>4, <3>1, <4>1, <4>2 DEF Told
      <3>4. CASE t = since[p]
        <4>1. told'[p][t] = [pid |-> p, state |-> state, stime |-> since[p],
                             etime |-> now + 1, waitFor |-> waitFor]
          BY <2>4, <3>4 DEF Changed
        <4>2. state \in Analyzer!States /\ (state = "BLOCKED" => doing'[p] = "runnable")
          BY DEF Moves, Changed, KernelTyped, Analyzer!States
        <4>3. \A j \in DOMAIN told'[p] : j <= t
          BY <2>1, <3>1, <3>2, <3>4 DEF Told
        <4>4. told'[p][t].etime = now + 1 /\ told'[p][t].state = state
          BY <4>1
        <4>5. Told(p, t, told[p][t])'
          BY <2>1, <2>4, <3>4, <4>1, <4>2 DEF Told
        <4>6. \A j \in DOMAIN told'[p] : ~(t < j)
          BY <2>1, <2>4, <3>1, <3>2, <3>4, <4>3 DEF Told
        <4> QED BY <2>1, <2>4, <3>1, <3>4, <4>2, <4>4, <4>5, <4>6
      <3> QED BY <2>4, <3>1, <3>3, <3>4
    <2> QED BY <2>2, <2>3, <2>4
  <1> QED BY <1>2 DEF ToldInv

(* Who was on a CPU at some time still was, whatever happens later.        *)
LEMMA RunningStays ==
  ASSUME KernelTyped, ToldInv, NEW p \in Pids, NEW from, NEW to, NEW state, NEW waitFor,
         Moves(from, to, state), Changed(p, from, to, state, waitFor),
         NEW q \in Pids, NEW t \in 1 .. now, WasRunning(q, t)
  PROVE  WasRunning(q, t)'
  <1>1. now \in Nat /\ since[q] \in 0 .. now
    BY DEF KernelTyped
  <1>2. CASE q # p
    BY <1>2 DEF WasRunning, Changed, KernelTyped
  <1>3. CASE q = p /\ since[p] = 0
    <2>1. DOMAIN told[p] = {} /\ told'[p] = told[p]
      BY <1>3 DEF ToldInv, Told, Changed
    <2>2. since'[p] \in {0, now + 1}
      BY <1>3 DEF Changed, KernelTyped
    <2>3. since'[p] = 0 => doing[p] = "blocked"
      BY <1>3 DEF Changed, Moves, KernelTyped
    <2> QED BY <1>1, <1>3, <2>1, <2>2, <2>3 DEF WasRunning
  <1>4. CASE q = p /\ since[p] # 0
    <2>1. since'[p] = now + 1 /\ DOMAIN told'[p] = DOMAIN told[p] \cup {since[p]}
      BY <1>4 DEF Changed, KernelTyped
    <2>2. \A k \in DOMAIN told[p] : k < since[p] /\ told'[p][k] = told[p][k]
      BY <1>1, <1>4 DEF Changed, ToldInv, Told
    <2>3. told'[p][since[p]].etime = now + 1
      BY <1>4 DEF Changed
    <2> QED BY <1>1, <1>4, <2>1, <2>2, <2>3 DEF WasRunning
  <1> QED BY <1>2, <1>3, <1>4

LEMMA ChangesWakers ==
  ASSUME KernelTyped, ToldInv, WakerInv,
         NEW p \in Pids, NEW from, NEW to, NEW state, NEW waitFor,
         Moves(from, to, state), Changed(p, from, to, state, waitFor),
         state = "BLOCKED" /\ waitFor \in Pids =>
           waitFor # p /\ doing[waitFor] \in {"running", "exiting"}
  PROVE  WakerInv'
  <1>1. now \in Nat /\ now' = now + 1 /\ \A q \in Pids : since[q] \in 0 .. now
    BY DEF KernelTyped, Changed
  <1>2. ASSUME NEW q \in Pids, NEW t \in DOMAIN told'[q],
               told'[q][t].state = "BLOCKED", told'[q][t].waitFor \in Pids
        PROVE  WasRunning(told[q][t].waitFor, told[q][t].etime)'
    <2>1. CASE t \in DOMAIN told[q] /\ told'[q][t] = told[q][t]
      <3>1. told[q][t].etime \in 1 .. now
        BY <1>1, <2>1 DEF ToldInv, Told
      <3>2. WasRunning(told[q][t].waitFor, told[q][t].etime)
        BY <1>2, <2>1 DEF WakerInv
      <3> DEFINE by == told[q][t].waitFor  e == told[q][t].etime
      <3>3. by \in Pids /\ by' = by /\ e' = e
        BY <1>2, <2>1
      <3> HIDE DEF by, e
      <3>4. ASSUME NEW b \in Pids, NEW d \in 1 .. now, WasRunning(b, d) PROVE WasRunning(b, d)'
        BY <3>4, RunningStays
      <3> QED BY <3>1, <3>2, <3>3, <3>4 DEF by, e, WasRunning
    <2>2. CASE q = p /\ since[p] # 0 /\ t = since[p]
      <3>1. told'[p][t] = [pid |-> p, state |-> state, stime |-> since[p],
                           etime |-> now + 1, waitFor |-> waitFor]
        BY <2>2 DEF Changed
      <3>2. /\ waitFor # p /\ doing'[waitFor] \in {"running", "exiting"}
            /\ since'[waitFor] = since[waitFor]
        BY <1>2, <2>2, <3>1 DEF Changed, KernelTyped
      <3>3. told'[q][t].etime = now + 1 /\ told'[q][t].waitFor = waitFor /\ waitFor \in Pids
        BY <1>2, <2>2, <3>1
      <3> QED BY <1>1, <3>2, <3>3 DEF WasRunning
    <2>3. q = p /\ since[p] # 0 =>
            \A j \in DOMAIN told[p] : j # since[p]
      BY <1>1 DEF ToldInv, Told
    <2>4. CASE q # p \/ since[p] = 0
      BY <2>1, <2>4 DEF Changed
    <2>5. CASE q = p /\ since[p] # 0
      <3>1. t = since[p] \/ (t \in DOMAIN told[p] /\ told'[p][t] = told[p][t])
        BY <2>3, <2>5, <1>2 DEF Changed
      <3> QED BY <2>1, <2>2, <2>5, <3>1
    <2> QED BY <2>4, <2>5
  <1> QED BY <1>2 DEF WakerInv

LEMMA ChangesKeep ==
  ASSUME KernelInv, NEW p \in Pids, NEW from, NEW to, NEW state, NEW waitFor,
         Moves(from, to, state), Changes(p, from, to, state, waitFor),
         since' \in {since, [since EXCEPT ![p] = now + 1]},
         since' = since => since[p] = 0 /\ state = "BLOCKED",
         state = "BLOCKED" =>
           /\ waitFor \in (Pids \ {p}) \cup Others
           /\ waitFor \in Pids => doing[waitFor] \in {"running", "exiting"}
  PROVE  KernelInv'
  <1>1. Changed(p, from, to, state, waitFor) /\ told' = [q \in Pids |-> told'[q]]
    BY ChangesIs DEF KernelInv
  <1>2. state = "BLOCKED" /\ waitFor \in Pids => waitFor # p
    BY Numbers
  <1> QED BY <1>1, <1>2, ChangesTyped, ChangesTold, ChangesWakers DEF KernelInv

Running == 
  \E p \in Pids :
    SwitchIn(p) \/ SwitchOut(p) \/ Exit(p) \/ \E by \in (Pids \ {p}) \cup Others : WakeUp(p, by)

LEMMA StepKernel ==
  ASSUME KernelInv, Running
  PROVE  KernelInv'
  <1>1. PICK p \in Pids :
          SwitchIn(p) \/ SwitchOut(p) \/ Exit(p) \/ \E by \in (Pids \ {p}) \cup Others : WakeUp(p, by)
    BY DEF Running
  <1>2. /\ now \in Nat /\ since[p] \in 0 .. now /\ since \in [Pids -> 0 .. now]
    BY DEF KernelInv, KernelTyped
  <1>3. since # [since EXCEPT ![p] = now + 1]
    <2>1. [since EXCEPT ![p] = now + 1][p] = now + 1
      BY <1>2
    <2> QED BY <1>2, <2>1
  <1>4. CASE SwitchIn(p)
    <2>1. Moves("runnable", "running", "RUNNABLE")
      BY DEF Moves
    <2> QED BY <1>3, <1>4, <2>1, ChangesKeep DEF SwitchIn, Switched
  <1>5. CASE SwitchOut(p)
    <2>1. /\ Moves("running", "runnable", "RUNNING") /\ Moves("running", "blocked", "RUNNING")
          /\ Moves("exiting", "exited", "RUNNING")
      BY DEF Moves
    <2>2. CASE Changes(p, "running", "runnable", "RUNNING", 0)
      BY <1>3, <1>5, <2>1, <2>2, ChangesKeep DEF SwitchOut, Switched
    <2>3. CASE Changes(p, "running", "blocked", "RUNNING", 0)
      BY <1>3, <1>5, <2>1, <2>3, ChangesKeep DEF SwitchOut, Switched
    <2>4. CASE Changes(p, "exiting", "exited", "RUNNING", 0)
      BY <1>3, <1>5, <2>1, <2>4, ChangesKeep DEF SwitchOut, Switched
    <2> QED BY <1>5, <2>2, <2>3, <2>4 DEF SwitchOut
  <1>6. ASSUME NEW by \in (Pids \ {p}) \cup Others, WakeUp(p, by)
        PROVE  KernelInv'
    <2>1. Moves("blocked", "runnable", "BLOCKED")
      BY DEF Moves
    <2> QED BY <1>3, <1>6, <2>1, ChangesKeep DEF WakeUp
  <1>7. CASE Exit(p)
    <2>1. /\ UNCHANGED <<now, since, told>>
          /\ doing' = [doing EXCEPT ![p] = "exiting"] /\ doing[p] = "running"
      BY <1>7 DEF Exit
    <2>2. stamp' \in [Pids -> Stamps \cup {-1}] /\ stamp'[p] # -1
          /\ \A q \in Pids \ {p} : stamp'[q] = stamp[q]
      BY <1>7, Numbers DEF Exit, KernelInv, KernelTyped
    <2>3. doing' \in [Pids -> Doings]
      BY <2>1 DEF KernelInv, KernelTyped, Doings
    <2>4. KernelTyped'
      BY <1>2, <2>1, <2>2, <2>3 DEF KernelInv, KernelTyped
    <2>5. ToldInv'
      BY <1>2, <2>1 DEF KernelInv, KernelTyped, ToldInv, Told
    <2>6. \A q \in Pids : \A t : WasRunning(q, t) => WasRunning(q, t)'
      BY <2>1 DEF WasRunning, KernelInv, KernelTyped
    <2> QED BY <2>1, <2>4, <2>5, <2>6 DEF KernelInv, WakerInv
  <1> QED BY <1>1, <1>4, <1>5, <1>6, <1>7

-----------------------------------------------------------------------------
(* The sorted map.                                                         *)

LEMMA LeastExists ==
  ASSUME NEW S \in SUBSET Nat, S # {}
  PROVE  \E m \in S : \A l \in S : m <= l
  <1>1. PICK m \in S : \A l \in S : ~(<<l, m>> \in OpToRel(<, Nat))
    BY NatLessThanWellFounded, WFMin
  <1>2. ASSUME NEW l \in S PROVE m <= l
    <2>1. ~(l < m)
      BY <1>1 DEF OpToRel
    <2> QED BY <2>1
  <1> QED BY <1>2

LEMMA GreatestExists ==
  ASSUME NEW S \in SUBSET Nat, S # {}, NEW b \in Nat, \A l \in S : l <= b
  PROVE  \E m \in S : \A l \in S : l <= m
  <1> DEFINE T == {b - l : l \in S}
  <1>1. T \in SUBSET Nat /\ T # {}
    <2>1. \A l \in S : l \in Nat /\ l <= b
      OBVIOUS
    <2>2. \A l \in S : b - l \in Nat
      BY <2>1
    <2> QED BY <2>2
  <1>2. PICK d \in T : \A l \in T : d <= l
    BY <1>1, LeastExists
  <1>3. PICK m \in S : d = b - m
    OBVIOUS
  <1>4. ASSUME NEW l \in S PROVE l <= m
    <2>1. d <= b - l
      BY <1>2
    <2> QED BY <1>3, <2>1
  <1> QED BY <1>4

LEMMA FloorIs ==
  ASSUME NEW map, DOMAIN map \subseteq Nat, NEW t \in Nat
  PROVE  /\ \A s \in Analyzer!Floor(map, t) :
              \E k \in DOMAIN map : s = map[k] /\ k <= t /\ \A j \in DOMAIN map : j <= t => j <= k
         /\ Analyzer!Floor(map, t) = {} => \A k \in DOMAIN map : t < k
  <1>1. ASSUME NEW k \in DOMAIN map, k <= t PROVE Analyzer!Floor(map, t) # {}
    <2> DEFINE S == {j \in DOMAIN map : j <= t}
    <2>1. PICK m \in S : \A l \in S : l <= m
      BY <1>1, GreatestExists
    <2> QED BY <2>1 DEF Analyzer!Floor
  <1>2. Analyzer!Floor(map, t) = {} => \A k \in DOMAIN map : t < k
    BY <1>1
  <1> QED BY <1>2 DEF Analyzer!Floor

LEMMA CeilingIs ==
  ASSUME NEW map, DOMAIN map \subseteq Nat, NEW t \in Nat
  PROVE  /\ \A s \in Analyzer!Ceiling(map, t) :
              \E k \in DOMAIN map : s = map[k] /\ t <= k /\ \A j \in DOMAIN map : t <= j => k <= j
         /\ Analyzer!Ceiling(map, t) = {} => \A k \in DOMAIN map : k < t
  <1>1. ASSUME NEW k \in DOMAIN map, t <= k PROVE Analyzer!Ceiling(map, t) # {}
    <2> DEFINE S == {j \in DOMAIN map : t <= j}
    <2>1. PICK m \in S : \A l \in S : m <= l
      BY <1>1, LeastExists
    <2> QED BY <2>1 DEF Analyzer!Ceiling
  <1>2. Analyzer!Ceiling(map, t) = {} => \A k \in DOMAIN map : k < t
    BY <1>1
  <1> QED BY <1>2 DEF Analyzer!Ceiling

-----------------------------------------------------------------------------
(* The segments that the analyzer walks over.                              *)

LEMMA BoundExists ==
  ASSUME NEW N \in Nat, NEW f, \A m \in 1 .. N : f[m] \in Int
  PROVE  \E b \in Nat : \A m \in 1 .. N : f[m] <= b
  <1> DEFINE Bounded(n) == \E b \in Nat : \A m \in 1 .. n : f[m] <= b
             S == {l \in 0 .. N : ~Bounded(l)}
  <1> SUFFICES ASSUME ~Bounded(N) PROVE FALSE
    OBVIOUS
  <1>1. Bounded(0)
    BY \A m \in 1 .. 0 : FALSE
  <1>2. ASSUME NEW l \in 1 .. N, Bounded(l - 1) PROVE Bounded(l)
    <2>1. PICK b \in Nat : \A m \in 1 .. l - 1 : f[m] <= b
      BY <1>2
    <2>2. PICK c \in Nat : b <= c /\ f[l] <= c
      <3>1. f[l] \in Int
        OBVIOUS
      <3>2. CASE f[l] <= b
        BY <3>2
      <3>3. CASE b <= f[l]
        BY <3>1, <3>3
      <3> QED BY <3>1, <3>2, <3>3
    <2>3. ASSUME NEW m \in 1 .. l PROVE f[m] <= c
      <3>1. f[m] \in Int
        OBVIOUS
      <3>2. m = l \/ m \in 1 .. l - 1
        OBVIOUS
      <3> QED BY <2>1, <2>2, <3>1, <3>2
    <2> QED BY <2>3
  <1> HIDE DEF Bounded
  <1>3. PICK l \in S : \A k \in S : l <= k
    <2>1. S \in SUBSET Nat /\ N \in S
      OBVIOUS
    <2> QED BY <2>1, LeastExists
  <1>4. l \in 1 .. N
    BY <1>1, <1>3
  <1>5. Bounded(l - 1)
    BY <1>3, <1>4
  <1> QED BY <1>2, <1>3, <1>4, <1>5

(* The trace ends with the last of its switches and stamps.                *)
LEMMA EndIs ==
  ASSUME KernelTyped
  PROVE  End \in Nat /\ now <= End /\ \A p \in Pids : stamp[p] <= End
  <1> DEFINE Times == {now} \cup {stamp[p] : p \in Pids}
  <1>1. now \in Nat /\ Times \subseteq Int /\ \A p \in Pids : stamp[p] \in Int
    BY Numbers DEF KernelTyped
  <1>2. Len(PidList) \in Nat /\ \A m \in 1 .. Len(PidList) : PidList[m] \in Pids
    BY Numbers
  <1>3. PICK b \in Nat : \A m \in 1 .. Len(PidList) : stamp[PidList[m]] <= b
    <2> DEFINE f == [m \in 1 .. Len(PidList) |-> stamp[PidList[m]]]
    <2>1. \A m \in 1 .. Len(PidList) : f[m] = stamp[PidList[m]] /\ f[m] \in Int
      BY <1>1, <1>2
    <2> HIDE DEF f
    <2>2. PICK b \in Nat : \A m \in 1 .. Len(PidList) : f[m] <= b
      BY <1>2, <2>1, BoundExists
    <2> QED BY <2>1, <2>2
  <1>4. \A p \in Pids : stamp[p] <= b
    BY <1>3 DEF Pids, Analyzer!Pids
  <1> DEFINE Late == {t \in Times : t >= now}
  <1>5. PICK c \in Nat : b <= c /\ now <= c
    BY <1>1
  <1>6. Late \in SUBSET Nat /\ Late # {} /\ \A t \in Late : t <= c
    BY <1>1, <1>4, <1>5
  <1>7. PICK m \in Late : \A t \in Late : t <= m
    BY <1>6, GreatestExists
  <1>8. \A t \in Times : t <= m
    BY <1>1, <1>6, <1>7
  <1>9. End \in Times /\ \A t \in Times : t <= End
    BY <1>7, <1>8 DEF End
  <1> QED BY <1>1, <1>9

LEMMA FinalKept == UNCHANGED kernelVars => UNCHANGED Final
  BY DEF kernelVars, Final, Ended, Empty, End, Put

(* Those of the thread while it was traced, and an empty one.              *)
Loaded == KernelInv /\ segs = Final /\ now > 0

(* Where the empty segment begins, which may have been another one.        *)
Last(p) == IF stamp[p] = -1 THEN End ELSE stamp[p]

IsEmpty(p, s) ==
  /\ s.pid = p /\ s.stime = Last(p) /\ s.etime = s.stime
  /\ s.state \in Analyzer!States
  /\ s.state = "BLOCKED" => s.waitFor = -13 \/ s.stime \in DOMAIN told[p]

LEMMA ToldIs ==
  ASSUME KernelInv, NEW p \in Pids, NEW t \in DOMAIN told[p]
  PROVE  /\ Told(p, t, told[p][t]) /\ t \in Nat /\ t < now /\ now \in 0 .. MaxTime
         /\ told[p][t].etime \in Nat /\ t < told[p][t].etime
         /\ told[p][t].etime <= now /\ told[p][t].etime <= since[p]
  BY DEF KernelInv, KernelTyped, ToldInv, Told

LEMMA Segments ==
  ASSUME Loaded, NEW p \in Pids
  PROVE  /\ DOMAIN segs[p] \subseteq Nat /\ Last(p) \in Nat
         /\ DOMAIN segs[p] = DOMAIN told[p] \cup {Last(p)}
         /\ \A t \in DOMAIN segs[p] : t # Last(p) => segs[p][t] = told[p][t]
         /\ IsEmpty(p, segs[p][Last(p)])
  <1>1. KernelInv /\ KernelTyped /\ segs[p] = Ended(p)
    BY DEF Loaded, Final, KernelInv
  <1>2. \A t \in DOMAIN told[p] : Told(p, t, told[p][t]) /\ t \in Nat /\ t < now
    BY <1>1, ToldIs
  <1>3. End \in Nat /\ now <= End /\ now \in Nat /\ stamp[p] \in Nat \cup {-1}
    BY <1>1, EndIs, Numbers DEF KernelTyped
  <1>4. CASE stamp[p] \in DOMAIN told[p]
    <2>1. stamp[p] # -1 /\ stamp[p] \in Nat /\ Last(p) = stamp[p]
      BY <1>2, <1>4 DEF Last
    <2>2. segs[p] = [told[p] EXCEPT ![stamp[p]].etime = stamp[p]]
      BY <1>1, <1>4 DEF Ended
    <2>3. DOMAIN segs[p] = DOMAIN told[p] /\ \A t \in DOMAIN segs[p] : t # stamp[p] => segs[p][t] = told[p][t]
      BY <2>2
    <2>4. segs[p][stamp[p]] = [told[p][stamp[p]] EXCEPT !.etime = stamp[p]]
      BY <1>4, <2>2
    <2>5. Told(p, stamp[p], told[p][stamp[p]])
      BY <1>2, <1>4
    <2>6. IsEmpty(p, segs[p][stamp[p]])
      <3>1. segs[p][stamp[p]].etime = stamp[p]
        BY <2>4, <2>5 DEF Told
      <3>2. /\ segs[p][stamp[p]].pid = p /\ segs[p][stamp[p]].stime = stamp[p]
            /\ segs[p][stamp[p]].state \in Analyzer!States
        BY <2>4, <2>5 DEF Told
      <3> QED BY <1>4, <2>1, <3>1, <3>2 DEF IsEmpty
    <2> QED BY <1>2, <1>4, <2>1, <2>3, <2>6
  <1>5. CASE stamp[p] \notin DOMAIN told[p]
    <2>1. segs[p] = Put(told[p], Empty(p))
      BY <1>1, <1>5 DEF Ended
    <2>2. Empty(p).stime = Last(p) /\ Last(p) \in Nat /\ IsEmpty(p, Empty(p))
      BY <1>3 DEF Empty, Last, IsEmpty, Analyzer!States
    <2> QED BY <1>2, <2>1, <2>2 DEF Put
  <1> QED BY <1>4, <1>5

LEMMA SegmentIs ==
  ASSUME Loaded, NEW p \in Pids, NEW t \in DOMAIN segs[p]
  PROVE  /\ Analyzer!IsSegment(segs[p][t]) /\ segs[p][t].pid = p /\ segs[p][t].stime = t
         /\ t \in Nat /\ t <= segs[p][t].etime
         /\ t < segs[p][t].etime =>
              t \in DOMAIN told[p] /\ t # Last(p) /\ segs[p][t] = told[p][t]
  <1>1. CASE t = Last(p)
    BY <1>1, Segments DEF IsEmpty, Analyzer!IsSegment, Pids
  <1>2. CASE t # Last(p)
    <2>1. t \in DOMAIN told[p] /\ segs[p][t] = told[p][t]
      BY <1>2, Segments
    <2> QED BY <1>2, <2>1, ToldIs DEF Loaded, Told, Analyzer!IsSegment, Pids
  <1> QED BY <1>1, <1>2

LEMMA SegsAre ==
  ASSUME NEW s
  PROVE  s \in Analyzer!Segs <=> \E p \in Pids : \E t \in DOMAIN segs[p] : s = segs[p][t]
  BY DEF Analyzer!Segs, Pids

(* w is a wait for a thread that is analysed.                              *)
Wait(p, t, w) ==
  /\ p \in Pids /\ t \in DOMAIN segs[p] /\ w = segs[p][t]
  /\ w.state = "BLOCKED" /\ w.waitFor \in Pids

(* A stamp may have cut it, and its waker was on a CPU at its true end.    *)
LEMMA WaitIs ==
  ASSUME Loaded, NEW p, NEW t, NEW w, Wait(p, t, w)
  PROVE  \E e \in 1 .. now : w.etime <= e /\ w.etime \in Nat /\ WasRunning(w.waitFor, e)
  <1>1. p \in Pids /\ t \in DOMAIN segs[p] /\ w = segs[p][t]
    BY DEF Wait
  <1>2. t \in DOMAIN told[p]
    <2>1. CASE t = Last(p)
      BY <1>1, <2>1, Segments, SegmentIs, Numbers DEF IsEmpty, Wait
    <2>2. CASE t # Last(p)
      BY <1>1, <2>2, Segments
    <2> QED BY <2>1, <2>2
  <1>3. w.waitFor = told[p][t].waitFor /\ w.state = told[p][t].state /\ w.etime \in {t, told[p][t].etime}
    <2>1. segs[p] = Ended(p)
      BY <1>1 DEF Loaded, Final
    <2>2. CASE stamp[p] \in DOMAIN told[p]
      <3>1. segs[p] = [told[p] EXCEPT ![stamp[p]].etime = stamp[p]]
        BY <2>1, <2>2 DEF Ended
      <3>2. CASE t = stamp[p]
        <4>1. w = [told[p][t] EXCEPT !.etime = t]
          BY <1>1, <1>2, <3>1, <3>2
        <4>2. Told(p, t, told[p][t])
          BY <1>1, <1>2, ToldIs DEF Loaded
        <4> QED BY <4>1, <4>2 DEF Told
      <3>3. CASE t # stamp[p]
        BY <1>1, <1>2, <3>1, <3>3
      <3> QED BY <3>2, <3>3
    <2>3. CASE stamp[p] \notin DOMAIN told[p]
      <3>1. segs[p] = Put(told[p], Empty(p))
        BY <2>1, <2>3 DEF Ended
      <3>2. t # Empty(p).stime
        <4>1. CASE stamp[p] = -1
          <5>1. t < now /\ now <= End /\ t \in Nat /\ now \in Nat /\ End \in Nat
            BY <1>1, <1>2, ToldIs, EndIs DEF Loaded, KernelInv, KernelTyped
          <5> QED BY <4>1, <5>1 DEF Empty
        <4>2. CASE stamp[p] # -1
          BY <1>2, <2>3, <4>2 DEF Empty
        <4> QED BY <4>1, <4>2
      <3> QED BY <1>1, <1>2, <3>1, <3>2 DEF Put
    <2> QED BY <2>2, <2>3
  <1>4. /\ told[p][t].etime \in 1 .. now /\ t \in Nat /\ t < told[p][t].etime
        /\ WasRunning(w.waitFor, told[p][t].etime)
    <2>1. /\ Told(p, t, told[p][t]) /\ t \in Nat /\ told[p][t].etime \in Nat
          /\ t < told[p][t].etime /\ told[p][t].etime <= now /\ now \in 0 .. MaxTime
      BY <1>1, <1>2, ToldIs DEF Loaded
    <2>2. told[p][t].state = "BLOCKED" /\ told[p][t].waitFor \in Pids
      BY <1>3 DEF Wait
    <2>3. WasRunning(told[p][t].waitFor, told[p][t].etime)
      BY <1>1, <1>2, <2>2 DEF Loaded, KernelInv, WakerInv
    <2>4. told[p][t].etime \in 1 .. now
      BY <2>1, Numbers
    <2> QED BY <1>3, <2>1, <2>3, <2>4
  <1> QED BY <1>3, <1>4

(* Segments of a thread that are not empty come one after the other.       *)
LEMMA SegmentsApart ==
  ASSUME Loaded, NEW p \in Pids, NEW t \in DOMAIN segs[p], NEW j \in DOMAIN segs[p], t < j,
         t < segs[p][t].etime, j < segs[p][j].etime
  PROVE  segs[p][t].etime <= j
  <1>1. /\ t \in DOMAIN told[p] /\ segs[p][t] = told[p][t]
        /\ j \in DOMAIN told[p]
    BY SegmentIs
  <1> QED BY <1>1 DEF Loaded, KernelInv, ToldInv

-----------------------------------------------------------------------------
(* The search.                                                             *)

LEMMA Starts ==
  ASSUME Loaded, NEW w, w.waitFor \in Pids, w.stime \in Nat,
         NEW sg \in Analyzer!Floor(segs[w.waitFor], w.stime)
  PROVE  SearchAt(w, sg)
  <1>1. PICK f \in DOMAIN segs[w.waitFor] : sg = segs[w.waitFor][f]
    BY Segments, FloorIs
  <1> QED BY <1>1, SegmentIs DEF SearchAt

LEMMA GoesOn ==
  ASSUME Loaded, NEW w, NEW sg, SearchAt(w, sg),
         NEW nx \in Analyzer!Ceiling(segs[w.waitFor], sg.stime + 1)
  PROVE  SearchAt(w, nx)
  <1>1. w.waitFor \in Pids /\ sg.stime \in Nat
    BY Segments DEF SearchAt
  <1>2. PICK k \in DOMAIN segs[w.waitFor] : nx = segs[w.waitFor][k]
    BY <1>1, CeilingIs, Segments
  <1> QED BY <1>1, <1>2, SegmentIs DEF SearchAt

(* When Ceiling has nothing to find, the last segment of the waker ends    *)
(* before the wait does: that of the end of the trace does not, and the    *)
(* last one it is told of only if the waker has not been switched out.     *)
LEMMA GivesUp ==
  ASSUME Loaded, NEW p, NEW t, NEW w, Wait(p, t, w), NEW sg, SearchAt(w, sg),
         sg.etime < w.etime, Analyzer!Ceiling(segs[w.waitFor], sg.stime + 1) = {}
  PROVE  /\ stamp[w.waitFor] \in 0 .. w.etime - 1
         /\ doing[w.waitFor] = "exiting" \/ \A k \in DOMAIN told[w.waitFor] : k <= stamp[w.waitFor]
  <1> DEFINE by == w.waitFor
  <1>1. by \in Pids /\ DOMAIN segs[by] \subseteq Nat
    BY Segments DEF Wait
  <1>2. /\ sg.stime \in DOMAIN segs[by] /\ sg = segs[by][sg.stime] /\ sg.stime \in Nat
        /\ sg.etime \in Nat /\ sg.stime <= sg.etime
    BY <1>1, SegmentIs DEF SearchAt, Analyzer!IsSegment
  <1>3. \A k \in DOMAIN segs[by] : k <= sg.stime
    BY <1>1, <1>2, CeilingIs
  <1>4. PICK e \in 1 .. now : w.etime <= e /\ w.etime \in Nat /\ WasRunning(by, e)
    BY WaitIs
  <1>5. Last(by) \in DOMAIN segs[by] /\ Last(by) \in Nat /\ Last(by) <= sg.stime
    BY <1>1, <1>3, Segments
  <1>6. now \in Nat /\ now <= End /\ End \in Nat
    BY EndIs DEF Loaded, KernelInv, KernelTyped
  <1>7. stamp[by] # -1 /\ Last(by) = stamp[by]
    BY <1>2, <1>4, <1>5, <1>6 DEF Last
  <1>8. stamp[by] \in 0 .. w.etime - 1
    BY <1>2, <1>4, <1>5, <1>7
  <1>9. ASSUME doing[by] # "exiting", NEW k \in DOMAIN told[by], ~(k <= stamp[by]) PROVE FALSE
    <2>1. doing[by] = "exited"
      BY <1>1, <1>7, <1>9 DEF Loaded, KernelInv, KernelTyped
    <2>2. k \in Nat /\ k <= sg.stime /\ stamp[by] \in Nat
      BY <1>1, <1>3, <1>5, <1>7, Segments
    <2>3. sg.stime # Last(by)
      BY <1>2, <1>7, <1>9, <2>2
    <2>4. sg.stime \in DOMAIN told[by] /\ sg = told[by][sg.stime]
      BY <1>1, <1>2, <2>3, Segments
    <2>5. sg.etime = since[by]
      <3>1. sg.etime = since[by] \/ sg.etime \in DOMAIN told[by]
        BY <1>1, <2>4 DEF Loaded, KernelInv, ToldInv
      <3>2. sg.stime < sg.etime
        BY <1>1, <2>4, ToldIs DEF Loaded
      <3>3. sg.etime \notin DOMAIN segs[by]
        BY <1>2, <1>3, <3>2
      <3> QED BY <1>1, <3>1, <3>3, Segments
    <2>6. \A j \in DOMAIN told[by] : told[by][j].etime \in Nat /\ told[by][j].etime <= since[by]
      BY <1>1, ToldIs DEF Loaded
    <2> QED BY <1>2, <1>4, <2>1, <2>4, <2>5, <2>6 DEF WasRunning
  <1> QED BY <1>8, <1>9

-----------------------------------------------------------------------------
(* The loops of main, and what a call of Cascade finds.                    *)

LEMMA InitWalk == Init => WalkInv /\ FindInv
  <1>1. Init => found = <<>> /\ pc = "load"
    BY DEF Init, Analyzer!Init
  <1> QED BY <1>1, Numbers DEF Init, Analyzer!Init, WalkInv, FindInv, CrashesKnown

LEMMA RunningWaits ==
  ASSUME WalkInv, FindInv, Running
  PROVE  WalkInv' /\ FindInv'
  <1>1. pc = "load" /\ UNCHANGED analyzerVars
    BY DEF Running, SwitchIn, SwitchOut, Exit, WakeUp, Changes, Tick
  <1>2. WalkInv'
    BY <1>1 DEF WalkInv, analyzerVars
  <1>3. UNCHANGED Analyzer!Segs
    BY <1>1 DEF analyzerVars, Analyzer!Segs
  <1> QED BY <1>1, <1>2, <1>3 DEF FindInv, analyzerVars, CrashesKnown

LEMMA LoadWaits ==
  ASSUME WalkInv, FindInv, Load
  PROVE  WalkInv' /\ FindInv'
  <1>1. pc = "load" /\ pc' = "walk" /\ now > 0 /\ UNCHANGED <<kernelVars, nth, pos, stack, found, graph>>
    BY DEF Load, Analyzer!Load
  <1>2. segs' = Final'
    BY <1>1 DEF Load, Analyzer!Load, Final, Ended, Put, Empty, End, kernelVars
  <1>3. WalkInv'
    BY <1>1, <1>2, Numbers DEF WalkInv, kernelVars
  <1> QED BY <1>1, <1>3 DEF FindInv, CrashesKnown

(* What Cascade has been called for.                                       *)
LEMMA Called ==
  ASSUME KernelInv, WalkInv, stack # <<>>
  PROVE  LET w == Head(stack) IN
           /\ Loaded /\ stack = <<w>> /\ Tail(stack) = <<>> /\ stack[1] = w
           /\ nth \in 1 .. Len(PidList) /\ PidList[nth] \in Pids
           /\ pos - 1 \in DOMAIN segs[PidList[nth]] /\ pos - 1 \in Nat
           /\ w = segs[PidList[nth]][pos - 1]
           /\ w.state = "BLOCKED" /\ w.waitFor \in Pids => Wait(PidList[nth], pos - 1, w)
           /\ w.stime = pos - 1 /\ w.pid = PidList[nth] /\ Analyzer!IsSegment(w)
  <1> DEFINE p == PidList[nth]
  <1>1. pc # "load" /\ Loaded
    BY DEF WalkInv, Loaded
  <1>2. nth \in 1 .. Len(PidList) /\ p \in Pids
    BY Numbers DEF WalkInv
  <1>3. pos - 1 \in DOMAIN segs[p] /\ stack = <<segs[p][pos - 1]>>
    BY DEF WalkInv
  <1>4. pos - 1 \in Nat
    BY <1>1, <1>2, <1>3, Segments
  <1>5. /\ segs[p][pos - 1].pid = p /\ segs[p][pos - 1].stime = pos - 1
        /\ Analyzer!IsSegment(segs[p][pos - 1])
    BY <1>1, <1>2, <1>3, SegmentIs
  <1>6. Head(stack) = segs[p][pos - 1] /\ Tail(stack) = <<>> /\ stack[1] = segs[p][pos - 1]
    BY <1>3
  <1> QED BY <1>1, <1>2, <1>3, <1>4, <1>5, <1>6 DEF Wait

LEMMA CallWaits ==
  ASSUME KernelInv, WalkInv, FindInv, Analyzer!Call, UNCHANGED kernelVars
  PROVE  WalkInv' /\ FindInv'
  <1> DEFINE p == PidList[nth]
  <1>1. /\ pc = "walk" /\ nth \in 1 .. Len(PidList) /\ UNCHANGED <<pc, segs, nth, seg, found, graph>>
        /\ p \in Pids
    BY Numbers DEF Analyzer!Call, Analyzer!Walking, WalkInv
  <1>2. Loaded /\ pos \in Nat
    BY <1>1 DEF Loaded, WalkInv
  <1>3. PICK s \in Analyzer!Ceiling(segs[p], pos) : stack' = <<s>> /\ pos' = s.stime + 1
    BY DEF Analyzer!Call, Analyzer!Rest
  <1>4. PICK k \in DOMAIN segs[p] : s = segs[p][k]
    BY <1>1, <1>2, <1>3, CeilingIs, Segments
  <1>5. s.stime = k /\ k \in Nat
    BY <1>1, <1>2, <1>4, SegmentIs, Segments
  <1>6. pos' - 1 = k /\ pos' \in Nat /\ pos' # 0 /\ stack' # <<>>
    BY <1>3, <1>5
  <1>7. UNCHANGED Final
    BY FinalKept
  <1>8. WalkInv'
    BY <1>1, <1>3, <1>4, <1>6, <1>7 DEF WalkInv, kernelVars
  <1>9. UNCHANGED Analyzer!Segs
    BY <1>1 DEF Analyzer!Segs
  <1> QED BY <1>1, <1>8, <1>9 DEF FindInv, CrashesKnown, kernelVars

LEMMA WaitingWaits ==
  ASSUME KernelInv, WalkInv, FindInv, Analyzer!Waiting, UNCHANGED kernelVars
  PROVE  WalkInv' /\ FindInv'
  <1> DEFINE w == Head(stack)
  <1>1. /\ pc = "walk" /\ stack # <<>> /\ w.state = "BLOCKED" /\ found' = <<>>
        /\ UNCHANGED <<segs, nth, pos, stack>> /\ pc' \in {"return", "find"}
    BY DEF Analyzer!Waiting
  <1>2. UNCHANGED Final
    BY FinalKept
  <1>3. WalkInv'
    BY <1>1, <1>2 DEF WalkInv, kernelVars
  <1>4. UNCHANGED Analyzer!Segs
    BY <1>1 DEF Analyzer!Segs
  <1>5. Loaded /\ w.stime \in Nat
    BY <1>1, Called DEF Analyzer!IsSegment
  <1>6. pc' = "find" => SearchAt(w, seg')
    BY <1>5, Starts DEF Analyzer!Waiting, Pids
  <1>7. pc' = "find" => SearchAt(w, seg)'
    BY <1>1, <1>6 DEF SearchAt
  <1> QED BY <1>1, <1>3, <1>4, <1>7 DEF FindInv, CrashesKnown

LEMMA FindWaits ==
  ASSUME KernelInv, WalkInv, FindInv, Analyzer!Find, UNCHANGED kernelVars
  PROVE  WalkInv' /\ FindInv'
  <1> DEFINE w == Head(stack)
  <1>1. /\ pc = "find" /\ stack # <<>> /\ w.state = "BLOCKED" /\ found' = Analyzer!Collected(seg)
        /\ UNCHANGED <<segs, nth, pos, stack, graph>> /\ pc' \in {"return", "find", "crashed"}
    BY DEF Analyzer!Find, WalkInv
  <1>2. UNCHANGED Final
    BY FinalKept
  <1>3. WalkInv'
    BY <1>1, <1>2 DEF WalkInv, kernelVars
  <1>4. SearchAt(w, seg)
    BY <1>1 DEF FindInv
  <1>5. Loaded /\ stack[1] = w /\ Wait(PidList[nth], pos - 1, w)
    BY <1>1, <1>4, Called DEF SearchAt
  <1>6. seg \in Analyzer!Segs
    BY <1>4, <1>5, SegsAre DEF SearchAt
  <1>7. Analyzer!Segs' = Analyzer!Segs /\ found' \in Seq(Analyzer!Segs)
    BY <1>1, <1>6 DEF Analyzer!Segs, Analyzer!Collected, FindInv
  <1>8. CASE pc' = "return"
    BY <1>3, <1>7, <1>8 DEF FindInv, CrashesKnown
  <1>9. CASE pc' = "crashed"
    <2>1. seg.etime < w.etime /\ Analyzer!Ceiling(segs[w.waitFor], seg.stime + 1) = {}
      BY <1>9 DEF Analyzer!Find, Analyzer!Following
    <2>2. /\ stamp[w.waitFor] \in 0 .. w.etime - 1
          /\ doing[w.waitFor] = "exiting" \/ \A k \in DOMAIN told[w.waitFor] : k <= stamp[w.waitFor]
      BY <1>4, <1>5, <2>1, GivesUp
    <2>3. CrashesKnown'
      BY <1>1, <1>5, <2>2 DEF CrashesKnown, kernelVars
    <2> QED BY <1>3, <1>7, <1>9, <2>3 DEF FindInv
  <1>10. CASE pc' = "find"
    <2>1. seg' \in Analyzer!Ceiling(segs[w.waitFor], seg.stime + 1)
      BY <1>10 DEF Analyzer!Find, Analyzer!Following
    <2>2. SearchAt(w, seg')
      BY <1>4, <1>5, <2>1, GoesOn
    <2>3. SearchAt(w, seg)'
      BY <1>1, <2>2 DEF SearchAt
    <2> QED BY <1>1, <1>3, <1>7, <1>10, <2>3 DEF FindInv, CrashesKnown
  <1> QED BY <1>1, <1>8, <1>9, <1>10

LEMMA OtherWaits ==
  ASSUME KernelInv, WalkInv, FindInv, UNCHANGED kernelVars,
         \/ Analyzer!NextPid \/ Analyzer!NotWaiting \/ Analyzer!Recurse \/ Analyzer!Finish
         \/ UNCHANGED analyzerVars
  PROVE  WalkInv' /\ FindInv'
  <1>1. UNCHANGED Final /\ (UNCHANGED segs => UNCHANGED Analyzer!Segs)
    BY FinalKept DEF Analyzer!Segs
  <1>2. CASE Analyzer!NextPid
    <2>1. /\ pc = "walk" /\ nth' \in 1 .. Len(PidList) + 1 /\ pos' = 0 /\ stack = <<>>
          /\ UNCHANGED <<pc, segs, stack, seg, found, graph>>
      BY <1>2, Numbers DEF Analyzer!NextPid, Analyzer!Walking, WalkInv
    <2> QED BY <1>1, <2>1 DEF WalkInv, FindInv, kernelVars, CrashesKnown
  <1>3. CASE Analyzer!NotWaiting
    <2>1. /\ pc = "walk" /\ stack' = <<>> /\ UNCHANGED <<pc, segs, nth, pos, seg, found, graph>>
      BY <1>3, Called DEF Analyzer!NotWaiting
    <2> QED BY <1>1, <2>1 DEF WalkInv, FindInv, kernelVars, CrashesKnown
  <1>4. CASE Analyzer!Recurse
    <2>1. /\ pc = "return" /\ pc' = "walk" /\ stack # <<>>
          /\ UNCHANGED <<segs, nth, pos, seg, found, graph>>
      BY <1>4 DEF Analyzer!Recurse, WalkInv
    <2>2. stack' = <<>>
      BY <1>4, <2>1, Called DEF Analyzer!Recurse, Analyzer!Returned
    <2> QED BY <1>1, <2>1, <2>2 DEF WalkInv, FindInv, kernelVars, CrashesKnown
  <1>5. CASE Analyzer!Finish
    BY <1>1, <1>5 DEF Analyzer!Finish, WalkInv, FindInv, kernelVars, CrashesKnown
  <1>6. CASE UNCHANGED analyzerVars
    <2>1. UNCHANGED <<Analyzer!Segs, stack, seg, pc>>
      BY <1>6 DEF analyzerVars, Analyzer!Segs
    <2> QED BY <1>1, <1>6, <2>1 DEF WalkInv, FindInv, analyzerVars, kernelVars, CrashesKnown, SearchAt
  <1> QED BY <1>2, <1>3, <1>4, <1>5, <1>6

LEMMA KernelKept ==
  ASSUME KernelInv, UNCHANGED kernelVars
  PROVE  KernelInv'
  BY DEF kernelVars, KernelInv, KernelTyped, ToldInv, Told, WakerInv, WasRunning

LEMMA StepWaits ==
  ASSUME KernelInv, WalkInv, FindInv, [Next]_vars
  PROVE  KernelInv' /\ WalkInv' /\ FindInv'
  <1>1. CASE Running
    BY <1>1, StepKernel, RunningWaits
  <1>2. UNCHANGED kernelVars => KernelInv'
    BY KernelKept
  <1>3. CASE Load
    BY <1>2, <1>3, LoadWaits DEF Load
  <1>4. CASE Analyze
    <2>1. Analyzer!Step /\ UNCHANGED kernelVars
      BY <1>4 DEF Analyze
    <2> QED BY <1>2, <2>1, CallWaits, WaitingWaits, FindWaits, OtherWaits DEF Analyzer!Step
  <1>5. CASE UNCHANGED vars
    <2>1. UNCHANGED kernelVars /\ UNCHANGED analyzerVars
      BY <1>5 DEF vars
    <2> QED BY <1>2, <2>1, OtherWaits
  <1>6. Next => Running \/ Load \/ Analyze
    BY DEF Next, Running
  <1> QED BY <1>1, <1>3, <1>4, <1>5, <1>6

(* Segments describe what threads do, and each search stays within the     *)
(* segments: whatever the threads, their names, the stamps of their exits  *)
(* and the length of the trace.                                            *)
THEOREM WaitsInductive == Spec => [](KernelInv /\ WalkInv /\ FindInv)
  <1>1. Init => KernelInv /\ WalkInv /\ FindInv
    BY InitKernel, InitWalk
  <1>2. KernelInv /\ WalkInv /\ FindInv /\ [Next]_vars => (KernelInv /\ WalkInv /\ FindInv)'
    BY StepWaits
  <1> QED BY <1>1, <1>2, PTL DEF Spec

(* It takes a nil key for a segment only when the stamp of the waker is    *)
(* from before the end of the wait, whatever the stamps: the waker was on  *)
(* its way out at the end of the trace, or no told segment of it begins    *)
(* after the stamp.                                                        *)
THEOREM CrashesAreKnown == Spec => []CrashesKnown
  <1>1. FindInv => CrashesKnown
    BY DEF FindInv
  <1> QED BY <1>1, WaitsInductive, PTL

(* The walk goes from thread to thread and from start to start; the call   *)
(* for a segment is over after a search, which goes from start to start.   *)
Forward ==
  \/ nth' > nth \/ (nth' = nth /\ pos' > pos)
  \/ UNCHANGED <<nth, pos>> /\ stack # <<>> /\ stack' = <<>>
  \/ /\ UNCHANGED <<nth, pos, stack>>
     /\ \/ pc = "walk" /\ pc' # "walk"
        \/ pc = "find" /\ (pc' \in {"return", "crashed"} \/ (pc' = "find" /\ seg'.stime > seg.stime))

(* Whatever the segments, every step of the analyzer goes forward: no      *)
(* segment is visited twice, nor looked at twice in one search.            *)
THEOREM AnalysisAdvances == Spec => [][Analyze => Forward]_vars
  <1>1. ASSUME KernelInv, WalkInv, FindInv, Analyze PROVE Forward
    <2>1. Analyzer!Step
      BY <1>1 DEF Analyze
    <2>2. nth \in Nat /\ pos \in Nat
      BY <1>1, Numbers DEF WalkInv
    <2>3. CASE Analyzer!Call
      <3>1. /\ pc = "walk" /\ nth \in 1 .. Len(PidList) /\ PidList[nth] \in Pids /\ UNCHANGED nth
        BY <1>1, <2>3, Numbers DEF Analyzer!Call, Analyzer!Walking, WalkInv
      <3>2. Loaded
        BY <1>1, <3>1 DEF Loaded, WalkInv
      <3>3. PICK s \in Analyzer!Ceiling(segs[PidList[nth]], pos) : pos' = s.stime + 1
        BY <2>3 DEF Analyzer!Call, Analyzer!Rest
      <3>4. PICK k \in DOMAIN segs[PidList[nth]] : s = segs[PidList[nth]][k] /\ pos <= k
        BY <2>2, <3>1, <3>2, <3>3, CeilingIs, Segments
      <3>5. s.stime = k /\ k \in Nat
        BY <3>1, <3>2, <3>4, SegmentIs, Segments
      <3> QED BY <2>2, <3>1, <3>3, <3>4, <3>5 DEF Forward
    <2>4. CASE Analyzer!NextPid
      BY <2>2, <2>4 DEF Analyzer!NextPid, Forward
    <2>5. CASE Analyzer!NotWaiting
      <3>1. stack # <<>> /\ stack' = <<>> /\ UNCHANGED <<nth, pos>>
        BY <1>1, <2>5, Called DEF Analyzer!NotWaiting
      <3> QED BY <3>1 DEF Forward
    <2>6. CASE Analyzer!Waiting \/ Analyzer!Finish
      BY <2>6 DEF Analyzer!Waiting, Analyzer!Finish, Forward
    <2>7. CASE Analyzer!Recurse
      <3>1. stack # <<>> /\ UNCHANGED <<nth, pos>>
        BY <1>1, <2>7 DEF Analyzer!Recurse, WalkInv
      <3>2. stack' = <<>>
        BY <1>1, <2>7, <3>1, Called DEF Analyzer!Recurse, Analyzer!Returned
      <3> QED BY <3>1, <3>2 DEF Forward
    <2>8. CASE Analyzer!Find
      <3> DEFINE w == Head(stack)
      <3>1. /\ pc = "find" /\ UNCHANGED <<nth, pos, stack>> /\ stack # <<>> /\ w.state = "BLOCKED"
            /\ \/ pc' \in {"return", "crashed"}
               \/ pc' = "find" /\ seg' \in Analyzer!Following(w)
        BY <1>1, <2>8 DEF Analyzer!Find, WalkInv
      <3>2. CASE pc' = "find" /\ seg' \in Analyzer!Following(w)
        <4>1. SearchAt(w, seg) /\ Loaded
          BY <1>1, <3>1, Called DEF FindInv
        <4>2. w.waitFor \in Pids /\ seg.stime \in DOMAIN segs[w.waitFor]
          BY <4>1 DEF SearchAt
        <4>3. seg.stime \in Nat /\ DOMAIN segs[w.waitFor] \subseteq Nat
          BY <4>1, <4>2, Segments
        <4>4. PICK k \in DOMAIN segs[w.waitFor] : seg' = segs[w.waitFor][k] /\ seg.stime + 1 <= k
          BY <3>2, <4>3, CeilingIs DEF Analyzer!Following
        <4>5. seg'.stime = k /\ k \in Nat
          BY <4>1, <4>2, <4>3, <4>4, SegmentIs
        <4> QED BY <3>1, <3>2, <4>3, <4>4, <4>5 DEF Forward
      <3> QED BY <3>1, <3>2 DEF Forward
    <2> QED BY <2>1, <2>3, <2>4, <2>5, <2>6, <2>7, <2>8 DEF Analyzer!Step
  <1>2. KernelInv /\ WalkInv /\ FindInv /\ [Next]_vars => [Analyze => Forward]_vars
    BY <1>1
  <1> QED BY <1>2, WaitsInductive, PTL DEF Spec

-----------------------------------------------------------------------------
(* Types.                                                                  *)

(* What is found are waits, and weights are unsigned.                      *)
TypeInv ==
  /\ \A n \in 1 .. Len(found) : found[n].state = "BLOCKED"
  /\ DOMAIN graph \subseteq Analyzer!Comms \X Analyzer!Comms
  /\ \A k \in DOMAIN graph : graph[k] \in 0 .. Word - 1

LEMMA StepTyped ==
  ASSUME KernelInv, WalkInv, FindInv, TypeInv, [Next]_vars
  PROVE  TypeInv'
  <1>1. CASE UNCHANGED <<found, graph>>
    BY <1>1 DEF TypeInv
  <1>2. CASE Analyzer!Waiting
    <2> DEFINE w == Head(stack)
               key == <<Comm[w.pid], Comm[w.waitFor]>>
    <2>1. found' = <<>> /\ graph' = Analyzer!AddWeight(graph, w) /\ stack # <<>>
      BY <1>2 DEF Analyzer!Waiting
    <2>2. w.stime \in Nat /\ w.etime \in Nat
      BY <2>1, Called DEF Analyzer!IsSegment
    <2>3. CASE ~({w.pid, w.waitFor} \subseteq DOMAIN Comm)
      BY <2>1, <2>3 DEF Analyzer!AddWeight, TypeInv
    <2>4. CASE {w.pid, w.waitFor} \subseteq DOMAIN Comm
      <3>1. key \in Analyzer!Comms \X Analyzer!Comms
        BY <2>4 DEF Analyzer!Comms
      <3>2. PICK old : /\ old = IF key \in DOMAIN graph THEN graph[key] ELSE 0
                       /\ graph' = [j \in DOMAIN graph \cup {key} |->
                                     IF j = key THEN (old + w.etime - w.stime) % Word ELSE graph[j]]
        BY <2>1, <2>4 DEF Analyzer!AddWeight
      <3>3. old \in Int
        BY <3>2, Numbers DEF TypeInv
      <3>4. \A x \in Int : x % Word \in 0 .. Word - 1
        BY Numbers
      <3>5. old + w.etime - w.stime \in Int
        BY <2>2, <3>3
      <3>6. (old + w.etime - w.stime) % Word \in 0 .. Word - 1
        BY <3>4, <3>5
      <3> QED BY <2>1, <3>1, <3>2, <3>6 DEF TypeInv
    <2> QED BY <2>3, <2>4
  <1>3. CASE Analyzer!Find
    <2>1. found' \in {found, Append(found, seg)} /\ (found' # found => seg.state = "BLOCKED")
      BY <1>3 DEF Analyzer!Find, Analyzer!Collected
    <2>2. graph' = graph /\ found \in Seq(Analyzer!Segs)
      BY <1>3 DEF Analyzer!Find, FindInv
    <2>3. \A n \in 1 .. Len(found') : found'[n].state = "BLOCKED"
      BY <2>1, <2>2 DEF TypeInv
    <2> QED BY <2>2, <2>3 DEF TypeInv
  <1>4. Next \/ UNCHANGED vars => UNCHANGED <<found, graph>> \/ Analyzer!Waiting \/ Analyzer!Find
    BY DEF Next, SwitchIn, SwitchOut, Exit, WakeUp, Changes, Tick, analyzerVars, Load, Analyzer!Load,
           Analyze, Analyzer!Step, Analyzer!Call, Analyzer!NextPid, Analyzer!NotWaiting,
           Analyzer!Recurse, Analyzer!Finish, vars
  <1> QED BY <1>1, <1>2, <1>3, <1>4

(* The variables of the cascade have their types on every trace.           *)
THEOREM TypeCorrect == Spec => []TypeOK
  <1>1. Init => KernelInv /\ WalkInv /\ FindInv /\ TypeInv
    BY InitKernel, InitWalk DEF Init, Analyzer!Init, TypeInv
  <1>2. /\ KernelInv /\ WalkInv /\ FindInv /\ TypeInv /\ [Next]_vars
        => (KernelInv /\ WalkInv /\ FindInv /\ TypeInv)'
    BY StepWaits, StepTyped
  <1>3. KernelInv /\ WalkInv /\ FindInv /\ TypeInv => TypeOK
    <2> SUFFICES ASSUME KernelInv, WalkInv, FindInv, TypeInv PROVE TypeOK
      OBVIOUS
    <2>1. \A n \in 1 .. Len(stack) : Analyzer!IsSegment(stack[n])
      <3>1. CASE stack = <<>>
        BY <3>1
      <3>2. CASE stack # <<>>
        <4>1. stack = <<Head(stack)>> /\ Analyzer!IsSegment(Head(stack))
          BY <3>2, Called
        <4>2. Len(stack) = 1 /\ stack[1] = Head(stack)
          BY <4>1
        <4> QED BY <4>1, <4>2
      <3> QED BY <3>1, <3>2
    <2>2. ASSUME Loaded, NEW s \in Analyzer!Segs PROVE Analyzer!IsSegment(s)
      <3>1. PICK p \in Pids : \E t \in DOMAIN segs[p] : s = segs[p][t]
        BY SegsAre
      <3> QED BY <2>2, <3>1, SegmentIs
    <2>3. \A n \in 1 .. Len(found) : Analyzer!IsSegment(found[n])
      <3>1. CASE pc = "load"
        BY <3>1 DEF FindInv
      <3>2. CASE pc # "load"
        <4>1. Loaded
          BY <3>2 DEF Loaded, WalkInv
        <4> QED BY <2>2, <4>1 DEF FindInv
      <3> QED BY <3>1, <3>2
    <2>4. pc = "find" => Analyzer!IsSegment(seg)
      <3>1. ASSUME pc = "find" PROVE Analyzer!IsSegment(seg)
        <4>1. Loaded /\ SearchAt(Head(stack), seg)
          BY <3>1 DEF Loaded, WalkInv, FindInv
        <4>2. seg \in Analyzer!Segs
          BY <4>1, SegsAre DEF SearchAt
        <4> QED BY <2>2, <4>1, <4>2
      <3> QED BY <3>1
    <2> QED BY <2>1, <2>3, <2>4 DEF TypeOK, Analyzer!TypeOK, WalkInv, FindInv, TypeInv
  <1> QED BY <1>1, <1>2, <1>3, PTL DEF Spec

-----------------------------------------------------------------------------
(* The graph.                                                              *)

(* No thread is listed twice.                                              *)
PidsOnce == \A m, n \in 1 .. Len(PidList) : PidList[m] = PidList[n] => m = n

(* The threads together cannot wait for so long that a weight wraps.       *)
NoWrap == Cardinality(Pids) * MaxTime < Word

LEMMA PidsFinite == IsFiniteSet(Pids) /\ Cardinality(Pids) \in Nat
  <1>1. PidList \in [1 .. Len(PidList) -> Pids]
    BY Numbers
  <1>2. \A p \in Pids : \E n \in 1 .. Len(PidList) : PidList[n] = p
    BY DEF Pids, Analyzer!Pids
  <1>3. PidList \in Surjection(1 .. Len(PidList), Pids)
    BY <1>1, <1>2 DEF Surjection
  <1> QED BY <1>3, Numbers, FS_Interval, FS_Surjection, FS_CardinalityType

(* The moments of a segment lie within the trace.                          *)
Moments(s) == {s.pid} \X (s.stime + 1 .. s.etime)

LEMMA MomentsAre ==
  ASSUME Loaded, NEW s \in Analyzer!Segs
  PROVE  /\ Moments(s) \subseteq Pids \X (1 .. MaxTime)
         /\ IsFiniteSet(Moments(s)) /\ Cardinality(Moments(s)) = s.etime - s.stime
         /\ s.etime \in Nat /\ s.stime \in Nat /\ s.stime <= s.etime
  <1>0. PICK p \in Pids : \E t \in DOMAIN segs[p] : s = segs[p][t]
    BY SegsAre
  <1>1. PICK t \in DOMAIN segs[p] : s = segs[p][t]
    BY <1>0
  <1>2. s.pid = p /\ s.stime = t /\ t \in Nat /\ s.etime \in Nat /\ t <= s.etime
    BY <1>1, SegmentIs DEF Analyzer!IsSegment
  <1>3. t < s.etime => s.etime <= MaxTime
    <2>1. ASSUME t < s.etime PROVE s.etime <= MaxTime
      <3>1. t \in DOMAIN told[p] /\ s = told[p][t]
        BY <1>1, <1>2, <2>1, SegmentIs
      <3>2. s.etime <= now /\ now \in 0 .. MaxTime
        BY <3>1, ToldIs DEF Loaded
      <3> QED BY <1>2, <3>2, Numbers
    <2> QED BY <2>1
  <1>4. t + 1 .. s.etime \subseteq 1 .. MaxTime
    BY <1>2, <1>3, Numbers
  <1>5. IsFiniteSet(t + 1 .. s.etime) /\ Cardinality(t + 1 .. s.etime) = s.etime - t
    <2>1. t + 1 \in Int /\ s.etime \in Int
      BY <1>2
    <2>2. /\ IsFiniteSet(t + 1 .. s.etime)
          /\ Cardinality(t + 1 .. s.etime) = IF t + 1 > s.etime THEN 0 ELSE s.etime - (t + 1) + 1
      BY <2>1, FS_Interval
    <2> QED BY <1>2, <2>2
  <1>6. IsFiniteSet({p}) /\ Cardinality({p}) = 1
    BY FS_Singleton
  <1>7. IsFiniteSet(Moments(s)) /\ Cardinality(Moments(s)) = 1 * (s.etime - t)
    BY <1>2, <1>5, <1>6, FS_Product DEF Moments
  <1> QED BY <1>2, <1>4, <1>7 DEF Moments

LEMMA TimeFits ==
  ASSUME Loaded, NEW S \in SUBSET Analyzer!Segs
  PROVE  /\ IsFiniteSet(Analyzer!TimeOf(S)) /\ Cardinality(Analyzer!TimeOf(S)) \in Nat
         /\ NoWrap => Cardinality(Analyzer!TimeOf(S)) < Word
  <1>1. Analyzer!TimeOf(S) \subseteq Pids \X (1 .. MaxTime)
    BY MomentsAre DEF Analyzer!TimeOf, Moments
  <1>2. IsFiniteSet(1 .. MaxTime) /\ Cardinality(1 .. MaxTime) = MaxTime
    BY Numbers, FS_Interval
  <1>3. /\ IsFiniteSet(Pids \X (1 .. MaxTime))
        /\ Cardinality(Pids \X (1 .. MaxTime)) = Cardinality(Pids) * MaxTime
    BY <1>2, PidsFinite, FS_Product
  <1>4. /\ IsFiniteSet(Analyzer!TimeOf(S))
        /\ Cardinality(Analyzer!TimeOf(S)) <= Cardinality(Pids \X (1 .. MaxTime))
    BY <1>1, <1>3, FS_Subset
  <1>5. Cardinality(Analyzer!TimeOf(S)) \in Nat /\ Cardinality(Pids \X (1 .. MaxTime)) \in Nat
    BY <1>3, <1>4, FS_CardinalityType
  <1> QED BY <1>3, <1>4, <1>5, Numbers DEF NoWrap

(* No two segments share a moment, so one more adds its whole length.      *)
LEMMA TimeGrows ==
  ASSUME Loaded, NEW S \in SUBSET Analyzer!Segs, NEW w \in Analyzer!Segs, w \notin S
  PROVE  Cardinality(Analyzer!TimeOf(S \cup {w}))
           = Cardinality(Analyzer!TimeOf(S)) + (w.etime - w.stime)
  <1>1. Analyzer!TimeOf(S \cup {w}) = Analyzer!TimeOf(S) \cup Moments(w)
    BY DEF Analyzer!TimeOf, Moments
  <1>2. ASSUME NEW s \in S, NEW m \in Moments(s), m \in Moments(w) PROVE FALSE
    <2>1. PICK p \in Pids : \E t \in DOMAIN segs[p] : w = segs[p][t]
      BY SegsAre
    <2>2. PICK q \in Pids : \E j \in DOMAIN segs[q] : s = segs[q][j]
      BY SegsAre
    <2>8. PICK t \in DOMAIN segs[p] : w = segs[p][t]
      BY <2>1
    <2>9. PICK j \in DOMAIN segs[q] : s = segs[q][j]
      BY <2>2
    <2>3. w.pid = p /\ w.stime = t /\ s.pid = q /\ s.stime = j
      BY <2>8, <2>9, SegmentIs
    <2>4. q = p /\ m[2] \in t + 1 .. w.etime /\ m[2] \in j + 1 .. s.etime
      BY <1>2, <2>3 DEF Moments
    <2>5. t \in Nat /\ j \in Nat /\ w.etime \in Nat /\ s.etime \in Nat
      BY <2>3, MomentsAre
    <2>6. t # j
      BY <2>8, <2>9, <2>4
    <2>7. (t < j => w.etime <= j) /\ (j < t => s.etime <= t)
      BY <2>5, <2>8, <2>9, <2>4, SegmentsApart
    <2> QED BY <2>4, <2>5, <2>6, <2>7
  <1>3. Analyzer!TimeOf(S) \cap Moments(w) = {}
    BY <1>2 DEF Analyzer!TimeOf, Moments
  <1>4. /\ IsFiniteSet(Analyzer!TimeOf(S)) /\ Cardinality(Analyzer!TimeOf(S)) \in Nat
        /\ IsFiniteSet(Moments(w)) /\ Cardinality(Moments(w)) = w.etime - w.stime
        /\ w.etime \in Nat /\ w.stime \in Nat
    BY TimeFits, MomentsAre
  <1>5. Cardinality(Analyzer!TimeOf(S) \cup Moments(w))
          = Cardinality(Analyzer!TimeOf(S)) + Cardinality(Moments(w))
              - Cardinality(Analyzer!TimeOf(S) \cap Moments(w))
    BY <1>4, FS_Union
  <1>6. Cardinality(Analyzer!TimeOf(S) \cap Moments(w)) = 0
    BY <1>3, FS_EmptySet
  <1>7. Cardinality(Analyzer!TimeOf(S) \cup Moments(w))
          = Cardinality(Analyzer!TimeOf(S)) + (w.etime - w.stime)
    BY <1>4, <1>5, <1>6
  <1> QED BY <1>1, <1>7

(* What is counted does not matter unless it is a wait for a known thread. *)
LEMMA GraphKept ==
  ASSUME GraphInv, pc # "load", UNCHANGED <<segs, graph>>,
         \A k : Counted' \cap Analyzer!WaitsOf(k) = Counted \cap Analyzer!WaitsOf(k)
  PROVE  GraphInv'
  <1>1. Analyzer!Segs' = Analyzer!Segs
    BY DEF Analyzer!Segs
  <1>2. ASSUME NEW k \in Analyzer!Comms \X Analyzer!Comms
        PROVE  (Analyzer!Weight(k) = Cardinality(Analyzer!TimeOf(Counted \cap Analyzer!WaitsOf(k))))'
    <2>1. Analyzer!WaitsOf(k)' = Analyzer!WaitsOf(k) /\ Analyzer!Weight(k)' = Analyzer!Weight(k)
      BY <1>1 DEF Analyzer!WaitsOf, Analyzer!Weight
    <2>2. Analyzer!Weight(k) = Cardinality(Analyzer!TimeOf(Counted \cap Analyzer!WaitsOf(k)))
      BY DEF GraphInv
    <2> QED BY <2>1, <2>2 DEF Analyzer!TimeOf
  <1> QED BY <1>2 DEF GraphInv

LEMMA CallGraph ==
  ASSUME KernelInv, WalkInv, GraphInv, PidsOnce, Analyzer!Call, UNCHANGED kernelVars
  PROVE  GraphInv'
  <1> DEFINE p == PidList[nth]
  <1>1. /\ pc = "walk" /\ nth \in 1 .. Len(PidList) /\ stack = <<>>
        /\ UNCHANGED <<pc, segs, nth, seg, found, graph>> /\ p \in Pids
    BY Numbers DEF Analyzer!Call, Analyzer!Walking, WalkInv
  <1>2. Loaded /\ pos \in Nat
    BY <1>1 DEF Loaded, WalkInv
  <1>3. PICK c \in Analyzer!Ceiling(segs[p], pos) : stack' = <<c>> /\ pos' = c.stime + 1
    BY DEF Analyzer!Call, Analyzer!Rest
  <1>4. PICK k \in DOMAIN segs[p] :
          c = segs[p][k] /\ pos <= k /\ \A j \in DOMAIN segs[p] : pos <= j => k <= j
    BY <1>1, <1>2, <1>3, CeilingIs, Segments
  <1>5. c.pid = p /\ c.stime = k /\ k \in Nat
    BY <1>1, <1>2, <1>4, SegmentIs, Segments
  <1>6. ASSUME NEW s \in Analyzer!Segs
        PROVE  Passed(s)' /\ ~Pending(s)' <=> Passed(s)
    <2>1. PICK q \in Pids : \E j \in DOMAIN segs[q] : s = segs[q][j]
      BY SegsAre
    <2>2. PICK j \in DOMAIN segs[q] : s = segs[q][j]
      BY <2>1
    <2>3. s.pid = q /\ s.stime = j /\ j \in Nat
      BY <1>2, <2>2, SegmentIs, Segments
    <2>4. Pending(s)' <=> s = c
      BY <1>1, <1>3 DEF Pending
    <2>5. ~Passed(c)
      BY <1>1, <1>2, <1>4, <1>5 DEF Passed, PidsOnce
    <2>6. s # c /\ q = p => (j < pos <=> j < k + 1)
      BY <1>2, <1>4, <1>5, <2>2, <2>3
    <2>7. pos' = k + 1
      BY <1>3, <1>5
    <2>8. s # c => (Passed(s)' <=> Passed(s))
      BY <1>1, <2>3, <2>6, <2>7 DEF Passed
    <2> QED BY <2>4, <2>5, <2>8
  <1>7. Analyzer!Segs' = Analyzer!Segs /\ \A s : ~Pending(s)
    BY <1>1 DEF Analyzer!Segs, Pending
  <1>8. Counted' = Counted
    BY <1>6, <1>7 DEF Counted
  <1> QED BY <1>1, <1>8, GraphKept

LEMMA NextPidGraph ==
  ASSUME KernelInv, WalkInv, GraphInv, Analyzer!NextPid, UNCHANGED kernelVars
  PROVE  GraphInv'
  <1> DEFINE p == PidList[nth]
  <1>1. /\ pc = "walk" /\ nth \in 1 .. Len(PidList) /\ stack = <<>> /\ nth' = nth + 1 /\ pos' = 0
        /\ UNCHANGED <<pc, segs, stack, seg, found, graph>> /\ p \in Pids
    BY Numbers DEF Analyzer!NextPid, Analyzer!Walking, WalkInv
  <1>2. Loaded /\ pos \in Nat
    BY <1>1 DEF Loaded, WalkInv
  <1>3. \A k \in DOMAIN segs[p] : k < pos
    BY <1>1, <1>2, CeilingIs, Segments DEF Analyzer!NextPid, Analyzer!Rest
  <1>4. ASSUME NEW s \in Analyzer!Segs
        PROVE  Passed(s)' <=> Passed(s)
    <2>1. PICK q \in Pids : \E j \in DOMAIN segs[q] : s = segs[q][j]
      BY SegsAre
    <2>2. PICK j \in DOMAIN segs[q] : s = segs[q][j]
      BY <2>1
    <2>3. s.pid = q /\ s.stime = j /\ j \in Nat
      BY <1>2, <2>2, SegmentIs, Segments
    <2>4. q = p => j < pos
      BY <1>3, <2>2
    <2>5. \A m \in 1 .. Len(PidList) :
            (m < nth \/ (m = nth /\ s.stime < pos)) /\ PidList[m] = q
              <=> (m < nth + 1 \/ (m = nth + 1 /\ s.stime < 0)) /\ PidList[m] = q
      BY <1>1, <2>3, <2>4
    <2> QED BY <1>1, <2>3, <2>5 DEF Passed
  <1>5. Analyzer!Segs' = Analyzer!Segs /\ \A s : ~Pending(s) /\ ~Pending(s)'
    BY <1>1 DEF Analyzer!Segs, Pending
  <1>6. Counted' = Counted
    BY <1>4, <1>5 DEF Counted
  <1> QED BY <1>1, <1>6, GraphKept

(* The segment Cascade is called for is the next to be counted.            *)
LEMMA CalledCounts ==
  ASSUME KernelInv, WalkInv, stack # <<>>, pc = "walk", UNCHANGED <<segs, nth, pos>>,
         ~(pc' = "walk" /\ stack' = stack), stack' \in {<<>>, stack}
  PROVE  /\ Head(stack) \in Analyzer!Segs /\ Head(stack) \notin Counted
         /\ Counted' = Counted \cup {Head(stack)} /\ Counted \subseteq Analyzer!Segs
  <1> DEFINE w == Head(stack)
  <1>1. /\ Loaded /\ stack = <<w>> /\ nth \in 1 .. Len(PidList) /\ PidList[nth] \in Pids
        /\ w = segs[PidList[nth]][pos - 1] /\ pos - 1 \in DOMAIN segs[PidList[nth]]
        /\ w.stime = pos - 1 /\ w.pid = PidList[nth] /\ pos - 1 \in Nat
    BY Called
  <1>2. w \in Analyzer!Segs
    BY <1>1, SegsAre
  <1>3. Passed(w) /\ Pending(w)
    <2>1. pos \in Nat /\ w.stime < pos
      BY <1>1 DEF WalkInv
    <2> QED BY <1>1, <2>1 DEF Passed, Pending
  <1>4. \A s : (Passed(s)' <=> Passed(s)) /\ ~Pending(s)' /\ (Pending(s) <=> s = w)
    BY <1>1 DEF Passed, Pending
  <1>5. Analyzer!Segs' = Analyzer!Segs
    BY DEF Analyzer!Segs
  <1> QED BY <1>2, <1>3, <1>4, <1>5 DEF Counted

LEMMA NotWaitingGraph ==
  ASSUME KernelInv, WalkInv, GraphInv, Analyzer!NotWaiting, UNCHANGED kernelVars
  PROVE  GraphInv'
  <1>1. /\ pc = "walk" /\ stack # <<>> /\ stack' = <<>> /\ Head(stack).state # "BLOCKED"
        /\ UNCHANGED <<segs, nth, pos, graph>>
    BY Called DEF Analyzer!NotWaiting
  <1>2. Counted' = Counted \cup {Head(stack)}
    BY <1>1, CalledCounts
  <1>3. \A k : Head(stack) \notin Analyzer!WaitsOf(k)
    BY <1>1 DEF Analyzer!WaitsOf
  <1> QED BY <1>1, <1>2, <1>3, GraphKept

(* addWeight adds the wait to the weight of the two names.                 *)
LEMMA WaitingGraph ==
  ASSUME KernelInv, WalkInv, GraphInv, NoWrap, Analyzer!Waiting, UNCHANGED kernelVars
  PROVE  GraphInv'
  <1> DEFINE w == Head(stack)
             key == <<Comm[w.pid], Comm[w.waitFor]>>
  <1>1. /\ pc = "walk" /\ stack # <<>> /\ w.state = "BLOCKED" /\ graph' = Analyzer!AddWeight(graph, w)
        /\ UNCHANGED <<segs, nth, pos, stack>> /\ pc' \in {"return", "find"}
    BY DEF Analyzer!Waiting
  <1>2. /\ w \in Analyzer!Segs /\ w \notin Counted /\ Counted' = Counted \cup {w}
        /\ Counted \subseteq Analyzer!Segs
    BY <1>1, CalledCounts
  <1>3. Loaded /\ w.stime \in Nat /\ w.etime \in Nat /\ w.stime <= w.etime
    BY <1>1, <1>2, Called, MomentsAre, Numbers
  <1>4. CASE ~({w.pid, w.waitFor} \subseteq DOMAIN Comm)
    <2>1. UNCHANGED graph
      BY <1>1, <1>4 DEF Analyzer!AddWeight
    <2>2. \A k : w \notin Analyzer!WaitsOf(k)
      BY <1>4 DEF Analyzer!WaitsOf
    <2> QED BY <1>1, <1>2, <2>1, <2>2, GraphKept
  <1>5. CASE {w.pid, w.waitFor} \subseteq DOMAIN Comm
    <2>1. graph' = [j \in DOMAIN graph \cup {key} |->
                      IF j = key THEN (Analyzer!Weight(key) + w.etime - w.stime) % Word ELSE graph[j]]
      BY <1>1, <1>3, <1>5 DEF Analyzer!AddWeight, Analyzer!Weight
    <2>2. ASSUME NEW k
          PROVE  Analyzer!Weight(k)' = IF k = key THEN (Analyzer!Weight(k) + w.etime - w.stime) % Word
                                                  ELSE Analyzer!Weight(k)
      <3>1. CASE k = key
        BY <2>1, <3>1 DEF Analyzer!Weight
      <3>2. CASE k # key
        BY <2>1, <3>2 DEF Analyzer!Weight
      <3> QED BY <3>1, <3>2
    <2>3. \A k : w \in Analyzer!WaitsOf(k) <=> k = key
      BY <1>1, <1>2, <1>5 DEF Analyzer!WaitsOf
    <2>4. Analyzer!Segs' = Analyzer!Segs
      BY <1>1 DEF Analyzer!Segs
    <2>5. ASSUME NEW k \in Analyzer!Comms \X Analyzer!Comms
          PROVE  (Analyzer!Weight(k) = Cardinality(Analyzer!TimeOf(Counted \cap Analyzer!WaitsOf(k))))'
      <3> DEFINE S == Counted \cap Analyzer!WaitsOf(k)
      <3>1. Analyzer!WaitsOf(k)' = Analyzer!WaitsOf(k)
        BY <2>4 DEF Analyzer!WaitsOf
      <3>2. Analyzer!Weight(k) = Cardinality(Analyzer!TimeOf(S))
        BY <1>1 DEF GraphInv
      <3>3. CASE k # key
        <4>1. S' = S
          BY <1>2, <2>3, <3>1, <3>3
        <4> QED BY <2>2, <3>2, <3>3, <4>1 DEF Analyzer!TimeOf
      <3>4. CASE k = key
        <4>1. S' = S \cup {w} /\ w \notin S /\ S \subseteq Analyzer!Segs /\ S \cup {w} \subseteq Analyzer!Segs
          BY <1>2, <2>3, <3>1, <3>4
        <4> HIDE DEF S
        <4>2. Cardinality(Analyzer!TimeOf(S \cup {w}))
                = Cardinality(Analyzer!TimeOf(S)) + (w.etime - w.stime)
          BY <1>2, <1>3, <4>1, TimeGrows
        <4>3. /\ Cardinality(Analyzer!TimeOf(S)) \in Nat
              /\ Cardinality(Analyzer!TimeOf(S \cup {w})) \in Nat
              /\ Cardinality(Analyzer!TimeOf(S \cup {w})) < Word
          BY <1>3, <4>1, TimeFits
        <4>4. (Analyzer!Weight(k) + w.etime - w.stime) % Word = Cardinality(Analyzer!TimeOf(S \cup {w}))
          <5>1. Analyzer!Weight(k) + w.etime - w.stime = Cardinality(Analyzer!TimeOf(S \cup {w}))
            BY <1>3, <3>2, <4>2, <4>3
          <5>2. \A x \in Nat : x < Word => x % Word = x
            BY Numbers
          <5> QED BY <4>3, <5>1, <5>2
        <4>5. Analyzer!TimeOf(S)' = Analyzer!TimeOf(S \cup {w})
          BY <4>1 DEF Analyzer!TimeOf
        <4> QED BY <2>2, <3>4, <4>4, <4>5 DEF S
      <3> QED BY <3>3, <3>4
    <2> QED BY <2>5 DEF GraphInv
  <1> QED BY <1>4, <1>5

LEMMA StartsAre == Loaded => \A s \in Analyzer!Segs : s.stime \in Nat
  BY MomentsAre

LEMMA LoadGraph ==
  ASSUME KernelInv, WalkInv, Load
  PROVE  GraphInv'
  <1>1. /\ pc = "load" /\ pc' = "walk" /\ UNCHANGED <<kernelVars, nth, pos, stack, graph>>
        /\ nth = 1 /\ pos = 0 /\ DOMAIN graph = {}
    BY DEF Load, Analyzer!Load, WalkInv
  <1>2. KernelInv'
    <2>1. UNCHANGED kernelVars
      BY <1>1
    <2> QED BY <2>1, KernelKept
  <1>3. Loaded'
    <2>1. segs' = Final' /\ now' > 0
      BY <1>1 DEF Load, Analyzer!Load, Final, Ended, Put, Empty, End, kernelVars
    <2> QED BY <1>2, <2>1 DEF Loaded
  <1>4. \A s \in Analyzer!Segs' : s.stime \in Nat
    <2>1. (Loaded => \A s \in Analyzer!Segs : s.stime \in Nat)'
      BY StartsAre, PTL
    <2> QED BY <1>3, <2>1
  <1>5. Counted' = {}
    <2>1. \A s \in Analyzer!Segs' : ~Passed(s)'
      BY <1>1, <1>4, Numbers DEF Passed
    <2> QED BY <2>1 DEF Counted
  <1>6. \A k : Analyzer!Weight(k)' = 0
    BY <1>1 DEF Analyzer!Weight
  <1>7. \A k : Analyzer!TimeOf(Counted \cap Analyzer!WaitsOf(k))' = {}
    BY <1>5 DEF Analyzer!TimeOf
  <1> QED BY <1>6, <1>7, FS_EmptySet DEF GraphInv

LEMMA OtherGraph ==
  ASSUME KernelInv, WalkInv, GraphInv, UNCHANGED kernelVars,
         \/ Analyzer!Find \/ Analyzer!Recurse \/ Analyzer!Finish \/ UNCHANGED analyzerVars
  PROVE  GraphInv'
  <1>1. UNCHANGED <<segs, nth, pos, graph>> /\ (pc = "load" => pc' = "load")
    BY DEF Analyzer!Find, Analyzer!Recurse, Analyzer!Finish, analyzerVars
  <1>2. \A s : Passed(s)' <=> Passed(s)
    BY <1>1 DEF Passed
  <1>3. \A s : Pending(s)' <=> Pending(s)
    <2>1. CASE Analyzer!Find
      BY <2>1 DEF Analyzer!Find, Pending
    <2>2. CASE Analyzer!Recurse
      <3>1. pc = "return" /\ stack # <<>>
        BY <2>2 DEF Analyzer!Recurse, WalkInv
      <3>2. stack' = <<>>
        BY <2>2, <3>1, Called DEF Analyzer!Recurse, Analyzer!Returned
      <3> QED BY <3>1, <3>2 DEF Pending
    <2>3. CASE Analyzer!Finish
      BY <2>3 DEF Analyzer!Finish, Pending
    <2>4. CASE UNCHANGED analyzerVars
      BY <2>4 DEF analyzerVars, Pending
    <2> QED BY <2>1, <2>2, <2>3, <2>4
  <1>4. Counted' = Counted
    BY <1>1, <1>2, <1>3 DEF Counted, Analyzer!Segs
  <1>5. CASE pc = "load"
    BY <1>1, <1>5 DEF GraphInv
  <1> QED BY <1>1, <1>4, <1>5, GraphKept

LEMMA StepGraph ==
  ASSUME PidsOnce, NoWrap, KernelInv, WalkInv, GraphInv, [Next]_vars
  PROVE  GraphInv'
  <1>1. CASE Running
    BY <1>1 DEF Running, SwitchIn, SwitchOut, Exit, WakeUp, Changes, Tick, analyzerVars, GraphInv
  <1>2. CASE Load
    BY <1>2, LoadGraph
  <1>3. CASE Analyze
    <2>1. Analyzer!Step /\ UNCHANGED kernelVars
      BY <1>3 DEF Analyze
    <2> QED BY <2>1, CallGraph, NextPidGraph, NotWaitingGraph, WaitingGraph, OtherGraph
            DEF Analyzer!Step
  <1>4. CASE UNCHANGED vars
    <2>1. UNCHANGED kernelVars /\ UNCHANGED analyzerVars
      BY <1>4 DEF vars
    <2> QED BY <2>1, OtherGraph
  <1>5. Next => Running \/ Load \/ Analyze
    BY DEF Next, Running
  <1> QED BY <1>1, <1>2, <1>3, <1>4, <1>5

(* Cascade's Cardinality is ours.                                          *)
LEMMA SameCardinality == \A S : Analyzer!Cardinality(S) = Cardinality(S)
  BY DEF Analyzer!Cardinality, Cardinality

(* Main has come past all segments when it is done.                        *)
LEMMA DoneCounts ==
  ASSUME KernelInv, WalkInv, GraphInv
  PROVE  GraphIsDirectWaits
  <1>1. SUFFICES ASSUME pc = "done"
                 PROVE  \A k \in Analyzer!Comms \X Analyzer!Comms :
                          Analyzer!Weight(k) = Cardinality(Analyzer!TimeOf(Analyzer!WaitsOf(k)))
    BY SameCardinality DEF GraphIsDirectWaits, Analyzer!GraphIsDirectWaits, Analyzer!Direct
  <1>2. nth = Len(PidList) + 1 /\ Loaded
    BY <1>1 DEF WalkInv, Loaded
  <1>3. ASSUME NEW s \in Analyzer!Segs PROVE Passed(s) /\ ~Pending(s)
    <2>1. PICK p \in Pids : \E t \in DOMAIN segs[p] : s = segs[p][t]
      BY SegsAre
    <2>2. s.pid = p
      BY <1>2, <2>1, SegmentIs
    <2>3. PICK m \in 1 .. Len(PidList) : PidList[m] = p
      BY DEF Pids, Analyzer!Pids
    <2> QED BY <1>1, <1>2, <2>2, <2>3, Numbers DEF Passed, Pending
  <1>4. \A k : Counted \cap Analyzer!WaitsOf(k) = Analyzer!WaitsOf(k)
    BY <1>3 DEF Counted, Analyzer!WaitsOf
  <1> QED BY <1>1, <1>4 DEF GraphInv

LEMMA GraphInductive ==
  ASSUME PidsOnce, NoWrap
  PROVE  Spec => [](KernelInv /\ WalkInv /\ FindInv /\ GraphInv)
  <1>1. Init => KernelInv /\ WalkInv /\ FindInv /\ GraphInv
    BY InitKernel, InitWalk DEF Init, Analyzer!Init, GraphInv
  <1>2. /\ KernelInv /\ WalkInv /\ FindInv /\ GraphInv /\ [Next]_vars
        => (KernelInv /\ WalkInv /\ FindInv /\ GraphInv)'
    BY StepWaits, StepGraph
  <1> QED BY <1>1, <1>2, PTL DEF Spec

(* The weight of two names is the time the threads of the one have waited  *)
(* for those of the other, if no thread is listed twice and no weight can  *)
(* exceed an unsigned.  Nothing is ever passed on to the waits of a waker, *)
(* since findAllWaitingSegments returns nil on every path.                 *)
THEOREM GraphIsTheWaits ==
  ASSUME PidsOnce, NoWrap
  PROVE  Spec => []GraphIsDirectWaits
  <1>1. KernelInv /\ WalkInv /\ FindInv /\ GraphInv => GraphIsDirectWaits
    BY DoneCounts
  <1> QED BY <1>1, GraphInductive, PTL

(* Under the same conditions each wait is counted, each moment of a thread *)
(* once, whatever the stamps of the exits.                                 *)
THEOREM DirectWaitsAreCounted ==
  ASSUME PidsOnce, NoWrap
  PROVE  Spec => []DirectWaitsCounted
  <1>1. KernelInv /\ WalkInv /\ FindInv /\ GraphInv => DirectWaitsCounted
    <2> SUFFICES ASSUME KernelInv, WalkInv, FindInv, GraphInv, pc = "done",
                        NEW k \in Analyzer!Comms \X Analyzer!Comms
                 PROVE  /\ Analyzer!Weight(k) = Analyzer!Direct(k)
                        /\ Analyzer!Direct(k) \in Int
      BY DEF DirectWaitsCounted, Analyzer!DirectWaitsCounted
    <2>1. Analyzer!Weight(k) = Analyzer!Direct(k)
      BY DoneCounts DEF GraphIsDirectWaits, Analyzer!GraphIsDirectWaits
    <2>2. Loaded /\ Analyzer!WaitsOf(k) \subseteq Analyzer!Segs
      BY DEF Loaded, WalkInv, Analyzer!WaitsOf
    <2>3. Analyzer!Direct(k) \in Int
      BY <2>2, TimeFits, SameCardinality DEF Analyzer!Direct
    <2> QED BY <2>1, <2>3
  <1> QED BY <1>1, GraphInductive, PTL

=============================================================================
