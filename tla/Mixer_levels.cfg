SPECIFICATION Spec
CONSTANTS
  Out = 5
  In = 3
  Inputs = 8
  Mixes = 8
  Levels = TRUE
  MaxDevices = 2
  ToolRequests <- MCToolRequests
  OtherRequests <- MCOtherRequests
  MaxRequests = 2
PROPERTY LevelsReturned
CHECK_DEADLOCK FALSE
