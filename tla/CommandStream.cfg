SPECIFICATION FairSpec
CONSTANTS
  Poses = {p1}
  Origin = Origin
  NoPose = NoPose
  HeartbeatTimeout = 1
  SilenceTimeout = 1
  CmdTimeout = 1
  Durations = {4}
INVARIANTS OneSource NoFlightWithoutPlanner
PROPERTIES JoystickContinues PilotTakesOver
