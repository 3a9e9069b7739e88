SPECIFICATION FairSpec
CONSTANTS
  k1 = k1
  k2 = k2
  w1 = w1
  w2 = w2
  hourly = hourly
  never = never
  uuid = uuid
  Schedules = {k1, k2}
  Schedulers = {w1, w2}
  Crons <- MCCrons
  NextFire <- MCNextFire
  BatchIds = {uuid}
  Limit = 1
  MaxTime = 3
  MaxEdits = 1
  MaxFaults = 1
INVARIANTS
  TypeOK
  OncePerInstant
  EditsStand
PROPERTIES
  EarlyRunsAreStale
  EveryDueRuns
CHECK_DEADLOCK FALSE
