SPECIFICATION Spec
SYMMETRY Symmetry
CONSTANTS
  Devices = {d1, d2}
  Addresses = {a1, a2}
  Threads = {io, ui}
  Stores = {"file", "prefs"}
  DiskMayFill = FALSE
  MaxStarts = 3
INVARIANTS
  TypeOK
  FileIsCurrent
PROPERTIES
  IdentityStable
  PersistsAcrossRestart
CHECK_DEADLOCK FALSE
