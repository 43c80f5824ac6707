SPECIFICATION MCSpec
CONSTANTS
  Runtimes = {"browser", "desktop"}
  NoDevice = NoDevice
  NoFolder = NoFolder
  Folders = {x}
  Default = Default
  MaxJoins = 2
  MaxCalls = 2
  MaxInvoked = 1
  MaxResets = 1
INVARIANTS
  DoneAsAsked
  StartAsHostMakesHost
  FolderFormIsRight
PROPERTIES
  OnlyFormerCallsEndSession
CHECK_DEADLOCK FALSE
