SPECIFICATION FairSpec
CONSTANTS
  BufferSize = 3
  MaxInt = 7
  SizeMod = 32
  Sizes = {0, 1, 2, 3, 4, 6, 9, 17}
  Fresh <- MCFresh
  MaxBytes = 7
  MaxFaults = 2
INVARIANTS
  TypeOK
  NothingLost
  OrderKept
PROPERTIES
  WriteReturns
CHECK_DEADLOCK FALSE
