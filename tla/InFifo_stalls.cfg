SPECIFICATION Spec
CONSTANTS
  Chans = 1
  SubSlot = 4
  MaxSubSlot = 4
  Rates = {2, 3}
  DefaultRate = 3
  FrameTime = 2
  One = 2
  Speeds = {3}
  Lag = 0
  Lead = 0
  Paced = FALSE
  Prompt = FALSE
INVARIANTS AssertsHold WritesHitNoPacket
