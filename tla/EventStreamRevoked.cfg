SPECIFICATION FairSpec
CONSTANTS
  Devices = {a}
  Pages = {p1}
  Capacity = 2
  Faults = {}
  MaxVersion = 3
PROPERTIES
  RevokedAreDisconnected
CHECK_DEADLOCK FALSE
