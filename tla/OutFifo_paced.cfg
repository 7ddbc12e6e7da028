SPECIFICATION Spec
CONSTANTS
  Chans = 1
  SubSlot = 3
  MaxPacket = 12
  Lens = {2, 4, 11}
  MaxBacklog = 72
INVARIANTS ArmedSpaceFree FifoConsistent
PROPERTIES EndpointRearmed
