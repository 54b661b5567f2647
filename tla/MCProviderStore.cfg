CONSTANTS
  Defaults <- MCDefaults
  Imports = {x}
  InvalidEdits = {2}
  MaxEdits = 2
  MaxPages = 2
  MaxEvents = 1
SPECIFICATION FairSpec
INVARIANTS
  TypeOK
  DiskWhole
  RefusedLeavesNoTrace
  QuietShowsDisk
PROPERTIES
  NamesFixed
  EditsSettle
CHECK_DEADLOCK FALSE
