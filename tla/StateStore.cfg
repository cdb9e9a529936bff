SPECIFICATION MCSpec
CONSTANTS
  Words = {"a", "AUTO"}
  Builtin = {}
  AutoTarget = "AUTO"
  MaxSuffix = 3
  Keys = {k1, k2}
  Matches = {m1}
  Urls = {u1, u2}
  SubIds = {s1, s2}
  Manual = Manual
  Procs = {p1, p2}
  Lists = {"rules", "acl"}
  MaxRules = 2
  MaxRows = 1
  MaxCommands = 3
  Solo = Solo
INVARIANTS
  TypeOK
  StoredIdentities
  StoredTargetsLive
  StoredRulesDistinct
  StoredSubscriptions
PROPERTIES
  RefreshKeepsTheRest
  UnreadableIsPermanent
\* A process that dies in the middle of a save leaves a file no command can read.
CHECK_DEADLOCK FALSE
