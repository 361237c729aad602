SPECIFICATION Spec
CONSTANTS
  Launches <- Piloted
  Speeds = {"still"}
PROPERTIES TakeoffFromGround
