SPECIFICATION Spec
CONSTANTS
  Devices = {d1}
  Addresses = {a1}
  Threads = {io}
  Stores = {"file"}
  DiskMayFill = TRUE
  MaxStarts = 2
INVARIANT Restarts
CHECK_DEADLOCK FALSE
