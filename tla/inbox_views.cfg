SPECIFICATION SpecViews
SYMMETRY Symmetry
CONSTANTS
  Devices = {d1}
  Transfers = {}
  Envelopes = {e1, e2}
  Files = {}
  Versions = {v1}
  Callers = {c1}
  MaxFileSize = 1
  MaxTransfers = 1
  MaxStaging = 1
  MaxInbox = 1
  IdleTimeout = 0
  MaxNow = 0
  MaxRestarts = 0
  Apps = {"desktop", "android"}
  Refreshes = {r1, r2}
  MaxLoop = 2
INVARIANT NothingHidden
CHECK_DEADLOCK FALSE
