SPECIFICATION Spec
CONSTANTS
  NoEntry = NoEntry
  Key = {k1}
  Entry = {e1, e2}
  Charge = {2}
  Capacities = {0}
  Buckets = {"null"}
  Length = 4
  MaxPins = 1
INVARIANTS
  CapacityZeroTurnsCacheOff
CHECK_DEADLOCK FALSE
