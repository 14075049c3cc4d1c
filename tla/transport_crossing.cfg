SPECIFICATION FairSpec
CONSTANTS
  Nodes = {a, b}
  Senders = {a, b}
  Stoppers = {}
  Capacity = 1
  MaxSends = 3
PROPERTY AllHandled
CHECK_DEADLOCK FALSE
