SPECIFICATION Spec
CONSTANTS
  NoDevice = NoDevice
  NoTransfer = NoTransfer
  NoRequest = NoRequest
  Devices = {h, a, b}
  FirstDevices = {h, a, b}
  FirstHost = h
  Transfers = {t1}
  Requests = {r1, r2}
  Calls = {"upload", "review", "remove"}
  Faults = {"crash"}
  FileSizes = {1, 2}
  MaxFile = 1
  MaxBatch = 1
  MaxBatchFiles = 1
  MaxStorage = 1
PROPERTY AudienceNeverWidens
