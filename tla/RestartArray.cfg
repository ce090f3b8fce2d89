SPECIFICATION Spec
CONSTANTS
  Base = 6
  GroupSize = 2
  Keys <- MCKeys
  Values <- MCValues
  MaxEntries = 5
INVARIANTS
  RestartArrayIsAtTheEnd
