CONSTANTS
  a1 = a1
  a2 = a2
  w1 = w1
  w2 = w2
  w3 = w3
  Main = main
  Asyncs <- OneAsync
  Client = "finishes"
  Workers <- ThreeWorkers
  Size = 6
  MinRange = 1
  MaxDispatch = 1
SPECIFICATION FairSpec
CHECK_DEADLOCK FALSE
INVARIANT CallbackAfterTask
