SPECIFICATION Spec
CONSTANTS
  Statuses = {144, 240, 243}
  Codes = {1, 8}
  FifoSize = 4
  BufferWords = 2
  PacketWords = 2
  MaxEvents = 4
  MaxWords = 2
INVARIANTS MessagesWhole InOrder FlowControlled
PROPERTY MidiServed
CHECK_DEADLOCK FALSE
