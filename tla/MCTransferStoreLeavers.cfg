SPECIFICATION Spec
CONSTANTS
  NoDevice = NoDevice
  NoTransfer = NoTransfer
  NoRequest = NoRequest
  Devices = {h, a, b}
  FirstDevices = {h}
  FirstHost = h
  Transfers = {t1}
  Requests = {r1, r2}
  Calls = {"upload", "join", "remove", "reset_host", "reset_all"}
  Faults = {"db", "drop", "crash", "hostless"}
  FileSizes = {1, 2}
  MaxFile = 1
  MaxBatch = 1
  MaxBatchFiles = 1
  MaxStorage = 1
SYMMETRY Symmetry
PROPERTY
  ImplementsLifecycle
