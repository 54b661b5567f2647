CONSTANTS
  HoursPerDay = 4
  HoursPerYear = 16
  HeatmapDays = 2
  ListLimit = 1
  Slots = {s1, s2}
  Workloads <- MCWorkloads
  Sizes = {1, 3}
  DefaultMax = 4
SPECIFICATION Spec
INVARIANTS
  TypeOK
  CutTold
  TokensCounted
  StatsComplete
SYMMETRY Symmetry
CHECK_DEADLOCK FALSE
