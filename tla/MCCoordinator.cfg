CONSTANTS
  t1 = t1
  Tools <- MCTools
  MaxQueries = 2
  MaxIterations = 4
  MaxSteps = 2
SPECIFICATION FairSpec
CHECK_DEADLOCK FALSE
INVARIANTS
  PromptListsTools
  StepsOfThisQuery
  PromptOrdersCurrentStep
  IndexCountsSuccesses
  IterationsCountRequests
PROPERTIES
  DoneStepsKept
  QueryReturns
  ImplementsSession
