\* The counter starts again at 3; two wake-ups that nobody signalled.
CONSTANTS
  Max = 3
  Word = 8
  MaxSpurious = 2
SPECIFICATION LockSpec
INVARIANTS
  LockTypeOK
  NothingLost
PROPERTIES
  WaiterWoken
  ProducerRuns
