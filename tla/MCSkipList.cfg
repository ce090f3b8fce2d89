SPECIFICATION Spec
CONSTANTS
  Key = {1, 2, 3}
  Node = {n1, n2, n3}
  MaxLevel = 3
  head = head
  Null = Null
SYMMETRY Symmetry
INVARIANTS
  TypeOK
  LevelsHoldTheNodes
  LevelFitsTheList
  ReaderFindsTheKey
CHECK_DEADLOCK FALSE
