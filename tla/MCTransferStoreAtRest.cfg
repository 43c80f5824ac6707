SPECIFICATION FairSpec
CONSTANTS
  NoDevice = NoDevice
  NoTransfer = NoTransfer
  NoRequest = NoRequest
  Devices = {h}
  FirstDevices = {h}
  FirstHost = h
  Transfers = {t1, t2}
  Requests = {r1, r2}
  Calls = {"upload", "local", "delete", "review"}
  Faults = {"crash"}
  FileSizes = {0, 1, 2}
  MaxFile = 1
  MaxBatch = 2
  MaxBatchFiles = 2
  MaxStorage = 1
INVARIANTS
  TypeOK
  SoleWriter
  MemoryMatchesRows
  StoreWithinLimit
PROPERTIES
  RequestsFinish
  ExpiredIsRemoved
