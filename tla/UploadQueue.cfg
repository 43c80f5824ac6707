SPECIFICATION FairSpec
CONSTANTS
  Files = {f, g, h}
  TooLarge = {h}
  NoFile = NoFile
  Shares = {s}
  Runtimes = {"browser", "desktop", "android"}
  MaxStarts = 3
  MaxPages = 2
  MaxEvents = 4
INVARIANTS
  SuccessWasStored
  StoredOnce
  RetryKeepsContent
PROPERTIES
  PickerComesBack
CHECK_DEADLOCK FALSE
