SPECIFICATION FairSpec
CONSTANTS
  Activities = {a}
  Items = {i1, i2, i3}
  NoItem = NoItem
  MaxItems = 2
  MaxFiles = 2
  MaxJobs = 2
  MaxJoins = 1
INVARIANTS
  StagedIsKept
  StorageIsBounded
PROPERTIES
  StagedIsSettled
CHECK_DEADLOCK FALSE
