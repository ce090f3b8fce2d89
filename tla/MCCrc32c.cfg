SPECIFICATION Spec
CONSTANTS
  Pieces <- MCPieces
  Types <- MCTypes
  MaxPieces = 3
INVARIANTS
  ChecksumIsTheCrc
  TrailerHoldsTheCrc
CHECK_DEADLOCK FALSE
