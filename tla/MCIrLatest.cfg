SPECIFICATION Spec
CONSTANTS
  FIELD_BITS = 2
  TIMER_TIMEOUT_MS = 6
  PULSE_RANGE = 32
  BUFFER_ELEMENT_CNT = 3
  LEADER_MS = 4
  PAUSE_MS = 3
  Commands <- MCCommands
  ADDRESS <- MCAddress
  Repeat = Repeat
  NoFrame = NoFrame
  MaxFrames = 2
  MaxLost = 0
PROPERTIES
  MostRecentFirst
