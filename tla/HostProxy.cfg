SPECIFICATION Spec
SYMMETRY Symmetry
CONSTANTS
  Procs = {p1, p2}
  a = a
  b = b
  Rests = {a, b}
  Edits <- EditsMC
  MaxCalls = 2
  MaxFaults = 2
  Blank = Blank
  Absent = Absent
  Garbled = Garbled
  Cleared = Cleared
  Partial = Partial
  Nobody = Nobody
INVARIANTS
  TypeOK
  ChangedMeansProgrammed
  RestoredMeansPrevious
  SettingsKept
  WebRequestsSerialized
\* The bounded number of calls runs out.
CHECK_DEADLOCK FALSE
