SPECIFICATION FairSpec
CONSTANTS
  Devices = {a}
  Pages = {p1}
  Capacity = 2
  Faults = {"drop"}
  MaxVersion = 4
INVARIANTS
  NothingSkipped
  OneLateEvent
PROPERTIES
  NextEventCutsOff
  ViewsCatchUp
  EndedSessionsAreForgotten
CHECK_DEADLOCK FALSE
