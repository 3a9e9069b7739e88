SPECIFICATION FairSpec
CONSTANTS
  s1 = s1
  s2 = s2
  w1 = w1
  w2 = w2
  Scans <- MCScans
  Workers <- MCWorkers
  NoWorker = NoWorker
  MaxRetry = 1
  Concurrency = 1
  MaxStops = 2
INVARIANTS
  TypeOK
  AckedIsCompleted
  RunningIsAttended
  RowIsTruthful
PROPERTIES
  CompletedStands
  JobSpec
  EveryTaskSettles
CHECK_DEADLOCK FALSE
