\* Seven switches and wake-ups: two more than a wait needs that overlaps a wait
\* of its waker.  Stamp 0 is before the trace, 4 within it or, if it ends earlier,
\* after it.
CONSTANTS
  PidList <- TwoThreads
  Comm <- NamesOfThree
  Word = 64
  Others = {3}
  Stamps = {0, 4}
  MaxTime = 7
SPECIFICATION Spec
INVARIANTS
  DirectWaitsCounted
  CrashesKnown
PROPERTIES
  AnalysisEnds
\* The analysis ends.
CHECK_DEADLOCK FALSE
