SPECIFICATION FairSpec
CONSTANTS
  Nodes = {a, b}
  Senders = {a, b}
  Stoppers = {a, b}
  Capacity = 1
  MaxSends = 2
INVARIANTS
  TypeOK
  NothingLost
  AcksTruthful
PROPERTIES
  QuietAfterStop
  HandledUnlessStuck
  StopsUnlessStuck
CHECK_DEADLOCK FALSE
