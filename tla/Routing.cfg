SPECIFICATION Spec
CONSTANTS
  Procs = {p1}
  Configs <- ThreeConfigs
  Faults = TRUE
  Misread = FALSE
  MaxJumps = 2
INVARIANTS
  TypeOK
  LiveChainsWhole
PROPERTIES
  SuccessIsExact
  ProgramsEnd
