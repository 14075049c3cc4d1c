SPECIFICATION Spec
SYMMETRY Symmetry
CONSTANTS
  Devices = {d1, d2, d3}
  Displayers = {d1}
  Removers = {d1}
  PairingTtl = 0
  MaxSessions = 2
  MaxClicks = 2
  MaxNow = 1
  MaxFaults = 2
INVARIANTS
  SessionNotLost
  PendingIsVisible
PROPERTY OnlyOpenSession
CHECK_DEADLOCK FALSE
