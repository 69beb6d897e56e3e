CONSTANTS
  t1 = t1
  t2 = t2
  p1 = p1
  p2 = p2
  p3 = p3
  p4 = p4
  n1 = n1
  n2 = n2
  NULL = NULL
  Threads <- TwoThreads
  Ptrs <- FourPtrs
  Sizes = {1, 2}
  Slots = 3
  Hash <- Colliding
  MaxCalls = 4
  Importers <- TwoImporters
  Defaults <- FirstOnly
  Loaders <- TwoImporters
  Names <- TwoNames
  MaxSlot = 3
  MaxAsset = 5
SPECIFICATION ResourcesSpec
CHECK_DEADLOCK FALSE
INVARIANTS
  RecordsHeld
  CountsAgree
  LookupsAgree
  DefaultKept
  AllFreed
PROPERTIES
  FreesJudged
  RecordsSpec
