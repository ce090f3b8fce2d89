SPECIFICATION ArenaSpec
CONSTANTS
  MaxSize = 12
  Align = 4
  PointerSize = 4
  Needs = {2, 5}
  Addresses = {4, 16, 28}
INVARIANTS
  ArenaTypeOK
  PiecesAreDisjoint
  AlignedPieceHasRoom
CHECK_DEADLOCK FALSE
