SPECIFICATION FairSpec
CONSTANTS
  Devices = {d1, d2}
  Displayers = {d1, d2}
  Removers = {d1, d2}
  PairingTtl = 0
  MaxSessions = 1
  MaxClicks = 1
  MaxNow = 0
  MaxFaults = 2
INVARIANTS
  TypeOK
  PairedByConsent
 
CHECK_DEADLOCK FALSE
