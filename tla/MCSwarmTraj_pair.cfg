SPECIFICATION FairSpec
CONSTANTS
  NumDrones = 2
  Length = 3
  Places <- Line
  Paths <- Trajectories
  Along <- AlongLine
  Early <- LateSwerve
  HoverAt <- HoverLine
  TakeOffs <- TakeOffLine
  Near <- NearLine
  NoPath <- Nowhere
  Ordered = {0}
  Restarts = {1}
  Stopped = {0, 1}
  MaxStamp = 2
INVARIANTS HeldIsClear BelievesNewest
PROPERTIES NeverOlder DropIsHarmless StartPropagates
