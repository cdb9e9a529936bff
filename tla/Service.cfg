SPECIFICATION ServiceSpec
CONSTANTS
  Words = {"a"}
  Builtin = {}
  AutoTarget = "AUTO"
  MaxSuffix = 2
  Keys = {k1, k2}
  Matches = {m1}
  Urls = {}
  SubIds = {}
  Manual = Manual
  Procs = {p1}
  Lists = {"rules"}
  MaxRules = 1
  MaxRows = 1
  Transparent = TRUE
  Faults = TRUE
INVARIANTS
  ServiceTypeOK
  RenderedTargetsResolve
PROPERTIES
  AppliedMeansLoaded
  StoreSpec
\* A process that dies in the middle of a save leaves a file no command can read.
CHECK_DEADLOCK FALSE
