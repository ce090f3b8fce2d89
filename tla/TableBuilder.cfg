SPECIFICATION Spec
CONSTANTS
  BufferSize = 3
  MaxInt = 15
  SizeMod = 32
  Fresh = {0, 1}
  MaxFaults = 1
  EntrySizes = {1, 2}
  BlockLimit = 3
  TailSize = 1
  TrailerSize = 1
  IndexEntrySize = 1
  FooterSize = 1
  Pointers = {"unset", "set"}
  FreshPending = {FALSE, TRUE}
  MaxEntries = 4
INVARIANTS
  TypeOK
  PendingMeansEmpty
  IndexDescribesBlocks
  IndexFindsBlocks
  FilterKnowsTheBlock
CHECK_DEADLOCK FALSE
