SPECIFICATION Spec
CONSTANTS
  Devices = {a, b, c}
  NoDevice = NoDevice
  Requests = {r1, r2}
  NoRequest = NoRequest
  MaxRestarts = 2
  Calls = {"register", "remove", "reset_host", "reset_all"}
  Faults = {"db", "crash"}
  Dropped = {"register", "remove", "reset_host"}
SYMMETRY Symmetry
INVARIANTS
  TypeOK
  OneGuestPerPin
  RemovalIsPermanent
  MembersStay
CHECK_DEADLOCK FALSE
