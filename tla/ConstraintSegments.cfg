SPECIFICATION Spec
CONSTANTS
  Cols = 6
  MaxSegments = 3
INVARIANTS ObstaclesAreCut SegmentsArePushed
