\* Both instances and three events; the control files can fail, an instance
\* can fail to open, recorder_run can give up before uv_run, and a failed run
\* is followed by another one.
CONSTANTS
  Instances = {"switch", "softirq"}
  InstanceList <- TwoInstances
  EventList <- ThreeEvents
  InstanceOf <- ThreeEventsInstance
  BufRecords = 1
  RingRecords = 1
  MaxRecords = 1
  Faults = {"open"}
  CtlFaults = {"mkdir", "debugfs", "memory", "worker"}
SPECIFICATION Spec
INVARIANTS
  TypeOK
  FilteredWhileEnabled
  CleanReturn
  OneStopper
PROPERTIES
  RecordingEnds
  ExpiryReturns
