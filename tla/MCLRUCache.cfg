SPECIFICATION FairSpec
CONSTANTS
  NoEntry = NoEntry
  Key = {k1, k2, k3}
  Entry = {e1, e2, e3}
  Charge = {2}
  Capacities = {0, 3}
  Buckets = {"null", "heads", "growing"}
  Length = 2
  MaxPins = 2
INVARIANTS
  TypeOK
  RefsAccountForHolders
  ListsHoldTheCache
  TableMatchesCache
  UsageIsTotalCharge
  DestructorFreesTheCache
PROPERTIES
  ImplementsPinnedCache
  LoopsEnd
CHECK_DEADLOCK FALSE
