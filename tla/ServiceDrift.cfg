SPECIFICATION ServiceSpec
CONSTANTS
  Words = {"a"}
  Builtin = {}
  AutoTarget = "AUTO"
  MaxSuffix = 2
  Keys = {k1, k2}
  Matches = {m1}
  Urls = {}
  SubIds = {}
  Manual = Manual
  Procs = {p1}
  Lists = {"rules"}
  MaxRules = 1
  MaxRows = 1
  Transparent = TRUE
  Faults = FALSE
PROPERTY RunningServiceFollows
