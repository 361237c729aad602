SPECIFICATION FairSpec
CONSTANTS
  g1 = g1
  g2 = g2
  NoGoal = NoGoal
  None = None
  StopTraj = StopTraj
  Goals <- MCGoals
  DroneId <- Third
  Others <- Predecessors
  Launches <- AnyLaunch
  Waypoints <- Route
  FailSafe = TRUE
  MaxNest = 2
INVARIANTS ExecFliesCurrentGoal ReplanHasStart PreviewIsCurrent StartIsUndisturbed StopIsFlown MandatoryStopIsFinal SequentialStart FliesForATarget
PROPERTIES GoalIsServed EmergencyIsEscaped
