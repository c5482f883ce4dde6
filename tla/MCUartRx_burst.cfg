CONSTANTS
  Radix = 3
  Header = 2
  MinLen = 1
  MaxLen = 3
  DmaSize = 10
  RingSize = 14
  Frame <- ShortFrames
  Window = 2
  MaxFrames = 3
  MaxNoise = 0
  Gaps = TRUE
CHECK_DEADLOCK FALSE
SPECIFICATION Spec
PROPERTY ReceiverRearmed
