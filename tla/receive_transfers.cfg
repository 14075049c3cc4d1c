SPECIFICATION Spec
SYMMETRY Symmetry
CONSTANTS
  Devices = {d1}
  Transfers = {t1, t2}
  Envelopes = {e1, e2, e3}
  Files = {f1, f2}
  Versions = {v1, v2}
  Callers = {c1}
  MaxFileSize = 2
  MaxTransfers = 2
  MaxStaging = 3
  MaxInbox = 2
  IdleTimeout = 0
  MaxNow = 1
  MaxRestarts = 1
INVARIANTS
  TypeOK
  TablesAgree
  SingleOwner
  NoDanglingFile
  DeliveredIntact
  WithinLimits
PROPERTIES
  NoRevival
  InboxLoss
  
CHECK_DEADLOCK FALSE
