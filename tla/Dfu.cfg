SPECIFICATION Spec
CONSTANTS
  SubPages = 2
  MaxErase = 2
  Data <- MCData
  Images <- MCImages
  Factory <- MCFactory
  Files <- MCFiles
  MaxRuns = 3
  MaxFaults = 2
INVARIANTS TypeOK TransfersExact
PROPERTIES ImageSpec ToolEnds
CHECK_DEADLOCK FALSE
