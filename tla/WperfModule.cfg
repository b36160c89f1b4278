\* A thread for each file of tx_stat and one for enable of disk_utils; a send
\* passes two of the five probes.
CONSTANTS
  DiskEnablers = {de}
  DiskFilterers = {}
  DiskReaders = {}
  CPUs = {c0}
  Names = {}
  DiskLists = {}
  MaxDisk = 1
  Unnamed = unnamed
  TxEnablers = {te}
  TxFilterers = {tf}
  TxReaders = {tr}
  ProbeList <- FiveProbes
  p = p
  Pids = {p}
  PidLists <- TwoLists
  Paths <- OnePath
  MaxSends = 1
  bad = bad
  Bad = bad
  Nobody = nobody
SPECIFICATION Spec
INVARIANTS
  EnabledMeansArmed
  NothingBeforeEnable
PROPERTIES
  DisabledCountsNothing
\* A failed init is the end.
CHECK_DEADLOCK FALSE
