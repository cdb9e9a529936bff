SPECIFICATION Spec
CONSTANTS
  Procs = {p1}
  Configs <- ThreeConfigs
  Faults = FALSE
  Misread = TRUE
  MaxJumps = 2
INVARIANT LiveChainsWhole
