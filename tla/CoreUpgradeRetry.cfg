SPECIFICATION LifecycleSpec
CONSTANTS
  Procs = {p1}
  Installed = b0
  Good = b1
  Broken = b2
  Silent = b3
  Binaries = {b0, b1, b2, b3}
  Answers = {b0, b1, b2}
  Works = {b0, b1}
  None = None
  Listings <- MCListings
  Settings = {"", "3"}
  Goarch = "amd64"
  Faults = TRUE
INVARIANT KeptBackup
