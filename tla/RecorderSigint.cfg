\* A run stopped by SIGINT.
CONSTANTS
  Instances = {"switch"}
  InstanceList <- OneInstance
  EventList <- TwoEvents
  InstanceOf <- TwoEventsInstance
  BufRecords = 2
  RingRecords = 2
  MaxRecords = 1
  Faults = {}
  CtlFaults = {}
SPECIFICATION Spec
PROPERTY SigintExits
