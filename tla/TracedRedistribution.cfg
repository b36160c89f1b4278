CONSTANTS
  PidList <- TwoThreads
  Comm <- NamesOfThree
  Word = 64
  Others = {3}
  Stamps = {0}
  MaxTime = 6
SPECIFICATION Spec
INVARIANTS
  WaitsPassedOn
CHECK_DEADLOCK FALSE
