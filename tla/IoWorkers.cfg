\* Every combination of lists; files and children that fail.
CONSTANTS
  CommandLines <- Usual
  Faults = {"open", "spawn"}
SPECIFICATION Spec
INVARIANTS
  OwnProgram
  ClosedOnce
PROPERTIES
  RunEnds
\* A run ends.
CHECK_DEADLOCK FALSE
