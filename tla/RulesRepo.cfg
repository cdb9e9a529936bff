SPECIFICATION Spec
SYMMETRY Symmetry
CONSTANTS
  Procs = {p1, p2}
  first = first
  second = second
  d1 = d1
  d2 = d2
  hash = hash
  bad = bad
  Values <- ValuesMC
  Comments = {hash}
  Order <- OrderMC
  Kind <- KindMC
  Accepted <- AcceptedMC
  Shipped <- ShippedMC
  Tails <- TailsMC
  Missing = Missing
  MaxCalls = 3
  MaxFaults = 1
INVARIANTS
  TypeOK
  RepoRenders
  RenderIsExact
  EditIsExact
PROPERTY
  DamageStays
\* The bounded number of commands runs out.
CHECK_DEADLOCK FALSE
