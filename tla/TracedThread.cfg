\* A thread on two CPUs, everything but the misleading wake-ups; the stale stamps
\* are earlier and later than the trace.
CONSTANTS
  Pid = 1
  Waker = 2
  CPUs = {c0, c1}
  SoftNr = 3
  StaleStamps = {0, 99}
  WakeUpRaces = {}
  MaxTime = 6
SPECIFICATION Spec
INVARIANTS
  TypeOK
  SegmentsAreTrue
  SegmentsPartition
  FirstSoftirqTold
  WaitsNameWakers
  CrashesKnown
SYMMETRY CPUSymmetry
CHECK_DEADLOCK FALSE
