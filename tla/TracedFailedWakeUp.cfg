\* A wake-up that finds the thread in another state than it is meant for.
CONSTANTS
  Pid = 1
  Waker = 2
  CPUs = {c0}
  SoftNr = 3
  StaleStamps = {}
  WakeUpRaces = {"failed"}
  MaxTime = 4
SPECIFICATION Spec
INVARIANT WaitsNameWakers
CHECK_DEADLOCK FALSE
