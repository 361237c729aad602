SPECIFICATION FairSpec
CONSTANTS
  NumDevices = 2
  QueueSize = 1
  PipeCap = 1
  DevicesFail = TRUE
  MaxMsgs <- ThreeAndOne
INVARIANTS Conservation
PROPERTIES StrictOrder NextSendFlushes CallerReturns
