SPECIFICATION FairSpec
CONSTANTS
  Devices = {a, b, c}
  NoDevice = NoDevice
  Requests = {r1, r2}
  NoRequest = NoRequest
  MaxRestarts = 2
  Calls = {"register", "remove"}
  Faults = {"db", "crash"}
  Dropped = {}
INVARIANTS
  PinShownAdmits
  HostCanAct
  MembersAreWhole
PROPERTIES
  RequestsFinish
CHECK_DEADLOCK FALSE
