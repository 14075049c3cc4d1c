SPECIFICATION SpecStatus
SYMMETRY Symmetry
CONSTANTS
  Devices = {d1}
  InitiallyPaired = {d1}
  Discoverable = {d1}
  Backends = {"avahi", "mdns", "nsd"}
  Paths = {wifi, lan}
  MaxEvents = 2
INVARIANTS
  TypesOK
  ShownAgrees
  
  WholeIsReported
  
