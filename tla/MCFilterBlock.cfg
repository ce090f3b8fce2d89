SPECIFICATION FairSpec
CONSTANTS
  a = a
  b = b
  c = c
  Key = {a, b, c}
  Hash <- MCHash
  BitsPerKey = 40
  BlockOffset = {0, 1500, 2047, 2048, 6500}
  MaxKeys = 2
INVARIANTS
  TypeOK
  NoFalseNegatives
  StartBlockAssertion
  MatchesComeFromTheWindow
PROPERTIES
  StartBlockReturns
CHECK_DEADLOCK FALSE
