SPECIFICATION TaskSpec
CONSTANTS
  t1 = t1
  t2 = t2
  t3 = t3
  Nothing = Nothing
  Track = Track
  Stop = Stop
  Terminals <- MCTerminals
  Later <- AlongThePlate
  Launches <- AllTasks
INVARIANTS CommitFliesFrozen FliesForItsStage HeldWhileLocked
