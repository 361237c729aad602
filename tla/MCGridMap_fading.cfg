SPECIFICATION Spec
CONSTANTS
  Axes = {1}
  UpdateRange = 2
  InfGrid = 1
  Flag = 32767
  Word = 65536
  Error = 65000
  Reach = 3
  Centers <- Line
  MaxTouched = 1
INVARIANT NeverNegative
CONSTRAINT Followed
