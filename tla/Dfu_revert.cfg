SPECIFICATION Spec
CONSTANTS
  SubPages = 2
  MaxErase = 2
  Data <- MCData
  Images <- MCImages
  Factory <- MCFactory
  Files <- MCFiles
  MaxRuns = 2
  MaxFaults = 1
INVARIANT RevertReverts
CHECK_DEADLOCK FALSE
