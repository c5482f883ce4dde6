CONSTANTS
  Radix = 3
  Header = 2
  MinLen = 1
  MaxLen = 3
  DmaSize = 13
  RingSize = 14
  Frame <- Frames
  Window = 2
  MaxFrames = 3
  MaxNoise = 1
  Gaps = TRUE
CHECK_DEADLOCK FALSE
SPECIFICATION FairSpec
INVARIANTS TypeOK FitsBuffer Lossless
PROPERTIES AllParsed ReceiverRearmed
