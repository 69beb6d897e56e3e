CONSTANTS
  t1 = t1
  Tools <- MCTools
  MaxQueries = 2
  MaxIterations = 2
  MaxSteps = 1
SPECIFICATION Spec
CHECK_DEADLOCK FALSE
INVARIANT FailureIsReported
