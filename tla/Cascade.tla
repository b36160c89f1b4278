------------------------------- MODULE Cascade -------------------------------
(***************************************************************************)
(* analyzer/lib/process/process.go from Cascade on, as main calls it: the  *)
(* segments of the threads, thread by thread in the order of their starts, *)
(* become the wait-for graph.                                              *)
(*                                                                         *)
(* Segments says how the segments of one thread are made.                  *)
(***************************************************************************)
EXTENDS Integers, Sequences, FiniteSets

CONSTANTS
  PidList,              \* the threads that are analysed
  Comm,                 \* commMap: the names of the pids the trace mentions
  Word                  \* the values of an unsigned

Pids == {PidList[n] : n \in 1 .. Len(PidList)}
Comms == {Comm[p] : p \in DOMAIN Comm}

VARIABLES
  pc,                   \* "load", "walk", "find", "return", "done", "crashed"
  segs,                 \* segMap: for each thread its segments by their start
  nth,                  \* main: the index of the thread whose segments it walks
  pos,                  \* main: how far it has come in them
  stack,                \* the calls of Cascade: the first runs, the rest wait
  seg,                  \* findAllWaitingSegments: the segment it looks at
  found,                \* waitSegs
  graph                 \* waitForGraph

vars == <<pc, segs, nth, pos, stack, seg, found, graph>>

States == {"RUNNING", "RUNNABLE", "BLOCKED"}
IsSegment(s) == s.pid \in Pids /\ s.state \in States /\ s.stime \in Nat /\ s.etime \in Nat

TypeOK ==
  /\ pc \in {"load", "walk", "find", "return", "done", "crashed"}
  /\ nth \in 1 .. Len(PidList) + 1 /\ pos \in Nat
  /\ \A n \in 1 .. Len(stack) : IsSegment(stack[n])
  /\ \A n \in 1 .. Len(found) : IsSegment(found[n]) /\ found[n].state = "BLOCKED"
  /\ pc = "find" => IsSegment(seg)
  /\ DOMAIN graph \subseteq Comms \X Comms
  /\ \A k \in DOMAIN graph : graph[k] \in 0 .. Word - 1

None == [pid |-> 0, state |-> "RUNNING", stime |-> 0, etime |-> 0, waitFor |-> 0]

Init ==
  /\ pc = "load"
  /\ segs = [p \in Pids |-> [t \in {} |-> None]]
  /\ nth = 1 /\ pos = 0 /\ stack = <<>>
  /\ seg = None /\ found = <<>>
  /\ graph = [k \in {} |-> 0]

Load(map) ==
  /\ pc = "load"
  /\ pc' = "walk"
  /\ segs' = map
  /\ UNCHANGED <<nth, pos, stack, seg, found, graph>>

-----------------------------------------------------------------------------
(* The sorted map.                                                         *)

(* The last segment that starts at t or before, and the first that starts  *)
(* at t or after, if there is one.                                         *)
Floor(map, t) == {map[k] : k \in {k \in DOMAIN map : k <= t /\ \A j \in DOMAIN map : j <= t => j <= k}}
Ceiling(map, t) == {map[k] : k \in {k \in DOMAIN map : k >= t /\ \A j \in DOMAIN map : j >= t => j >= k}}

-----------------------------------------------------------------------------
(* Cascade.                                                                *)

(* main takes the threads in turn; ForEach takes the segments of one in    *)
(* the order of their starts.                                              *)
Walking == pc = "walk" /\ stack = <<>> /\ nth <= Len(PidList)
Rest == Ceiling(segs[PidList[nth]], pos)

Call ==
  /\ Walking
  /\ \E s \in Rest : stack' = <<s>> /\ pos' = s.stime + 1
  /\ UNCHANGED <<pc, segs, nth, seg, found, graph>>

NextPid ==
  /\ Walking /\ Rest = {}
  /\ nth' = nth + 1 /\ pos' = 0
  /\ UNCHANGED <<pc, segs, stack, seg, found, graph>>

NotWaiting ==
  /\ pc = "walk" /\ stack # <<>> /\ Head(stack).state # "BLOCKED"
  /\ stack' = Tail(stack)
  /\ UNCHANGED <<pc, segs, nth, pos, seg, found, graph>>

\* Slip: the waker is put first.
AddWeightReversed(g, w) ==
  IF {w.pid, w.waitFor} \subseteq DOMAIN Comm
    THEN LET k == <<Comm[w.waitFor], Comm[w.pid]>>
             old == IF k \in DOMAIN g THEN g[k] ELSE 0
         IN  [j \in DOMAIN g \cup {k} |-> IF j = k THEN (old + w.etime - w.stime) % Word ELSE g[j]]
    ELSE g

(* addWeight: only the waits of one known thread for another count, under  *)
(* their names.                                                            *)
AddWeight(g, w) ==
  IF {w.pid, w.waitFor} \subseteq DOMAIN Comm
    THEN LET k == <<Comm[w.pid], Comm[w.waitFor]>>
             old == IF k \in DOMAIN g THEN g[k] ELSE 0
         IN  [j \in DOMAIN g \cup {k} |-> IF j = k THEN (old + w.etime - w.stime) % Word ELSE g[j]]
    ELSE g

(* findAllWaitingSegments begins with the segment of the waker that holds  *)
(* the start of the wait, if the waker is analysed and was there.          *)
Waiting ==
  /\ pc = "walk" /\ stack # <<>> /\ Head(stack).state = "BLOCKED"
  /\ LET w == Head(stack)
         first == IF w.waitFor \in Pids THEN Floor(segs[w.waitFor], w.stime) ELSE {}
     IN  /\ graph' = AddWeight(graph, w)
         /\ found' = <<>>
         /\ \/ first = {} /\ pc' = "return" /\ UNCHANGED seg
            \/ pc' = "find" /\ seg' \in first
  /\ UNCHANGED <<segs, nth, pos, stack>>

Collected(s) == IF s.state = "BLOCKED" THEN Append(found, s) ELSE found

\* Slip: the search goes on from the start of the segment itself.
NextSame(w) == Ceiling(segs[w.waitFor], seg.stime)

Following(w) == Ceiling(segs[w.waitFor], seg.stime + 1)

\* Slip: the next segment is looked up before it is known to be needed.
FindAhead ==
  /\ pc = "find"
  /\ LET w == Head(stack) IN
       /\ found' = Collected(seg)
       /\ \/ Following(w) = {} /\ pc' = "crashed" /\ UNCHANGED seg
          \/ /\ seg' \in Following(w)
             /\ pc' = IF seg.etime >= w.etime \/ seg'.stime >= w.etime THEN "return" ELSE "find"
  /\ UNCHANGED <<segs, nth, pos, stack, graph>>

(* One round of its loop.  Ceiling cannot say that there is no segment: it *)
(* converts a nil key, and the analyzer is over.                           *)
Find ==
  /\ pc = "find"
  /\ LET w == Head(stack) IN
       /\ found' = Collected(seg)
       /\ \/ seg.etime >= w.etime /\ pc' = "return" /\ UNCHANGED seg
          \/ seg.etime < w.etime /\ Following(w) = {} /\ pc' = "crashed" /\ UNCHANGED seg
          \/ /\ seg.etime < w.etime
             /\ seg' \in Following(w)
             /\ pc' = IF seg'.stime >= w.etime THEN "return" ELSE "find"
  /\ UNCHANGED <<segs, nth, pos, stack, graph>>

(* What the function returns is not what it has found. *)
Returned(list) == <<>>

Aligned(w, s) ==
  [s EXCEPT !.stime = IF @ < w.stime THEN w.stime ELSE @,
            !.etime = IF @ > w.etime THEN w.etime ELSE @]

(* Cascade goes on with each of the segments that are returned.            *)
Recurse ==
  /\ pc = "return"
  /\ LET w == Head(stack)
         list == Returned(found)
     IN  stack' = [n \in 1 .. Len(list) |-> Aligned(w, list[n])] \o Tail(stack)
  /\ pc' = "walk"
  /\ UNCHANGED <<segs, nth, pos, seg, found, graph>>

Finish ==
  /\ pc = "walk" /\ stack = <<>> /\ nth = Len(PidList) + 1
  /\ pc' = "done"
  /\ UNCHANGED <<segs, nth, pos, stack, seg, found, graph>>

Step == Call \/ NextPid \/ NotWaiting \/ Waiting \/ Find \/ Recurse \/ Finish

-----------------------------------------------------------------------------
(* What holds of them, for segments as Segments makes them.                *)

Segs == UNION {{segs[p][t] : t \in DOMAIN segs[p]} : p \in Pids}

WaitsOf(k) == {s \in Segs : s.state = "BLOCKED" /\ {s.pid, s.waitFor} \subseteq DOMAIN Comm
                            /\ <<Comm[s.pid], Comm[s.waitFor]>> = k}

(* The moments a thread has spent waiting.                                 *)
TimeOf(waits) == UNION {{s.pid} \X (s.stime + 1 .. s.etime) : s \in waits}

Weight(k) == IF k \in DOMAIN graph THEN graph[k] ELSE 0

(* The time that the threads of the one name have waited for those of the  *)
(* other, each moment of a thread once.                                    *)
Direct(k) == Cardinality(TimeOf(WaitsOf(k)))

(* The waits of its waker that a wait shares a moment with.                *)
Overlapping(w) ==
  {s \in Segs : /\ s.pid = w.waitFor /\ s.state = "BLOCKED"
               /\ (s.stime + 1 .. s.etime) \cap (w.stime + 1 .. w.etime) # {}}

(* Some wait may be passed on to a wait of this pair.                      *)
PassedOnTo(k) == \E w \in Segs : w.state = "BLOCKED" /\ Overlapping(w) \cap WaitsOf(k) # {}

(* Waits of several threads add up, those of one do not overlap, and no    *)
(* segment is visited twice: a pair counts its waits, each moment once,    *)
(* and more only if something may be passed on to them.                    *)
DirectWaitsCounted ==
  pc = "done" => \A k \in Comms \X Comms :
    IF PassedOnTo(k) THEN Weight(k) >= Direct(k) ELSE Weight(k) = Direct(k)

(* Nothing is passed on: a pair counts its waits alone.                    *)
GraphIsDirectWaits ==
  pc = "done" => \A k \in Comms \X Comms : Weight(k) = Direct(k)

(* The waker has a segment for the search to begin with. *)
ToldBefore(w) == \E s \in Segs : s.pid = w.waitFor /\ s.stime <= w.stime

(* src/README.md:10: wPerf "uses cascaded re-distribution", for which      *)
(* process.go:361 is to "Find all waiting segments in wakerID that overlap *)
(* with [w.start w.end]".  Where the waker has a segment for the search to *)
(* begin with, a wait counts for the waits of the waker that it overlaps   *)
(* too, so that these weigh more than their own time.                      *)
WaitsPassedOn ==
  pc = "done" => \A k \in Comms \X Comms :
    (\E w \in Segs : w.state = "BLOCKED" /\ ToldBefore(w) /\ Overlapping(w) \cap WaitsOf(k) # {})
      => Weight(k) > Direct(k)

=============================================================================
