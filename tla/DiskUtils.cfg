\* One thread per file, and a second one that writes the filter.
CONSTANTS
  Enablers = {e}
  Filterers = {f, g}
  Readers = {r}
  CPUs = {c0}
  Names = {sda, sdb}
  sda = sda
  sdb = sdb
  bad = bad
  Bad = bad
  Lists <- Written
  MaxDisk = 2
  Unnamed = unnamed
  Nobody = nobody
SPECIFICATION Spec
INVARIANTS
  TypeOK
  EnabledMeansArmed
  StrayProbeHarmless
  TableFromOneWrite
  TimesBelong
  OverrunByOneList
\* A table that is overrun is the end.
CHECK_DEADLOCK FALSE
