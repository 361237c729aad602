SPECIFICATION FairSpec
CONSTANTS
  Axes = {1, 2}
  PoolSize <- Pool
  StepCost <- Roots
  NULL = NULL
  Maps <- MCMaps
  Points <- Ends
  MaxSearches = 2
INVARIANTS PathIsClear NoCircle GivenUpIsCut
PROPERTY SearchReturns
CHECK_DEADLOCK FALSE
