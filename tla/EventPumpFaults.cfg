\* One instance, every request may fail: a buffer of two records and a ring
\* of three, so that reads are partial, writes short and the ring overruns.
CONSTANTS
  Instances = {switch}
  BufRecords = 2
  RingRecords = 3
  MaxRecords = 6
  Faults = {"open", "read", "write", "short"}
SPECIFICATION Spec
INVARIANTS
  TypeOK
  OneOutstanding
  BufferDiscipline
  NoSilentLoss
  DrainedAtClose
PROPERTY CopySpec
