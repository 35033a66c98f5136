SPECIFICATION FairSpec
CONSTANTS
  w1 = w1
  w2 = w2
  NoOne = NoOne
  Workers <- MCWorkers
  Records = 4
  Wanted <- MCWanted
  MaxPages <- MCMaxPages
  BatchSize = 2
  Concurrency = 2
  MaxTrouble = 1
INVARIANTS
  NothingIsLeft
  HandlersHoldTheLease
PROPERTIES
  SweepsFinish
