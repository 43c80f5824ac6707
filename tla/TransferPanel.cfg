SPECIFICATION Spec
CONSTANTS
  NoDevice = NoDevice
  MaxTransfers = 1
  MaxJoins = 2
  MaxBoots = 2
  Kinds = {"image", "file"}
  PageSize = 3
  MaxListed = 7
INVARIANTS
  OffersMatchPolicy
  PreviewsWork
  AllCanBeReached
CHECK_DEADLOCK FALSE
