SPECIFICATION FairSpec
CONSTANTS
  NumDevices = 1
  QueueSize = 1
  PipeCap = 1
  DevicesFail = FALSE
  MaxMsgs <- Two
PROPERTY SentImmediately
