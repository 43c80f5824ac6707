SPECIFICATION Spec
CONSTANTS
  NoDevice = NoDevice
  NoTransfer = NoTransfer
  NoRequest = NoRequest
  Devices = {h, a}
  FirstDevices = {h, a}
  FirstHost = h
  Transfers = {t1, t2}
  Requests = {r1, r2}
  Calls = {"upload", "delete", "clear", "review"}
  Faults = {"db", "drop", "crash"}
  FileSizes = {1, 2}
  MaxFile = 1
  MaxBatch = 1
  MaxBatchFiles = 1
  MaxStorage = 1
SYMMETRY Symmetry
INVARIANTS
  ListedHasFile
  LiveRowHasFile
  DeletionIsPermanent
PROPERTIES
  UploadsStayWithinStorage
  AudienceNeverWidens
  ImplementsLifecycle
