SPECIFICATION Spec
CONSTANTS
  Out = 5
  In = 3
  Inputs = 8
  Mixes = 8
  Levels = FALSE
  MaxDevices = 2
  ToolRequests <- MCToolRequests
  OtherRequests <- MCOtherRequests
  MaxRequests = 2
INVARIANTS MixerInStep ToolTells
PROPERTIES MixesFresh RequestsServed
