CONSTANTS
  b1 = b1
  b2 = b2
  b3 = b3
  NoBuf = NoBuf
  Buf <- TwoBufs
  PoolOrder <- TwoOrder
  Producers = {"main", "bleParse", "uartParse"}
  MsgPoolSize = 2
  QSize = 7
  RetryPasses = 2
  MaxTimes = 3
  Timely = TRUE
  PhoneUpg = TRUE
SPECIFICATION FairSpec
INVARIANTS ExclusiveOwnership NoLeak FrameIntegrity
PROPERTIES NoPostLost KeepsPromise PoolReplenished
