SPECIFICATION Spec
CONSTANTS
  BufferSize = 3
  MaxInt = 15
  SizeMod = 32
  Fresh = {0}
  MaxFaults = 0
  EntrySizes = {2}
  BlockLimit = 3
  TailSize = 1
  TrailerSize = 1
  IndexEntrySize = 1
  FooterSize = 1
  Pointers = {"set"}
  FreshPending = {FALSE}
  MaxEntries = 2
INVARIANTS
  FinishedTableIsInTheFile
CHECK_DEADLOCK FALSE
