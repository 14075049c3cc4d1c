SPECIFICATION Spec
CONSTANTS
  Peers = {p1}
  MaxPackets = 2
PROPERTY GoodbyeIsHeard
CHECK_DEADLOCK FALSE
