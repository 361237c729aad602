SPECIFICATION FairSpec
CONSTANTS
  Launches <- Both
  Speeds = {"still", "fast"}
INVARIANTS HoverPoseIsFresh ManualIsReleased
PROPERTIES PilotAllows PilotGetsDrone SilenceEndsCmd
