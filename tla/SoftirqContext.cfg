\* Two CPUs, and a module that is loaded at any moment.
CONSTANTS
  CPUs = {c0, c1}
  KrpList <- TimerAndNet
  Unprobed = {8}
  NR_SOFTIRQS = 10
  MaxTime = 6
SPECIFICATION Spec
INVARIANTS
  TypeOK
  LabelTrue
  SpanTrue
\* The clock stops at MaxTime.
CHECK_DEADLOCK FALSE
