SPECIFICATION OverlappingSpec
CONSTANTS
  Procs = {p1, p2}
  Configs <- OneConfig
  Faults = FALSE
  Misread = FALSE
  MaxJumps = 2
  MaxCommands = 3
INVARIANTS
  LiveChainsWhole
PROPERTIES
  SuccessIsExact
CHECK_DEADLOCK FALSE
