CONSTANTS
  a1 = a1
  a2 = a2
  w1 = w1
  w2 = w2
  w3 = w3
  Main = main
  Asyncs <- TwoAsyncs
  Client = "finishes"
  Workers <- ThreeWorkers
  Size = 4
  MinRange = 2
  MaxDispatch = 2
  MaxBuilds = 3
  MaxClock = 5
SPECIFICATION LoopSpec
CHECK_DEADLOCK FALSE
INVARIANTS
  CountsTellTheTruth
  OneCallback
  RunsItsCopy
PROPERTIES
  AsyncEnds
  FinishReturns
  NewestRuns
  ReloadsEnd
