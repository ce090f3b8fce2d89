SPECIFICATION FairSpec
CONSTANTS
  Caller = {c1, c2}
  Worker = {w1, w2}
  Item = {i1, i2, r1}
  Reschedules = {r1}
  SemStarts = {0, 1}
  Nobody = Nobody
INVARIANTS
  TypeOK
  RunInOrder
  NeverTakesFromEmpty
  SomeoneIsWorking
PROPERTIES
  EveryItemRuns
  ScheduleReturns
CHECK_DEADLOCK FALSE
