SPECIFICATION Spec
CONSTANTS
  Chans = 1
  SubSlot = 4
  MaxSubSlot = 4
  Rates = {5}
  DefaultRate = 5
  FrameTime = 2
  One = 2
  Speeds = {5}
  Lag = 0
  Lead = 2
  Paced = TRUE
  Prompt = TRUE
INVARIANTS FifoConsistent ArmedIsOldest
PROPERTIES NoDropOutsideUnderflow StreamHeard
