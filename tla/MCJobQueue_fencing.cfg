SPECIFICATION FairSpec
CONSTANTS
  w1 = w1
  w2 = w2
  mail = mail
  report = report
  Workers = {w1, w2}
  Names <- TwoNames
  Defs <- FirstDefinesMore
  MaxAttempts <- SecondTry
  MaxJobs = 1
  LeaseMs = 2
  MaxDelay = 0
  Concurrency = 2
  MaxLapses = 1
  MaxCrashes = 1
  MaxFailures = 1
  MaxStops = 1
  MaxFaults = 2
INVARIANTS
  OneRunPerQueue
  StoppedMeansIdle
  ExclusiveWhileRenewed
  AttemptLeftWhileRenewed
PROPERTIES
  NeverSettledUnderRunner
  Delivers
  EveryJobSettles
  StopResolves
CHECK_DEADLOCK FALSE
