CONSTANTS
  b1 = b1
  b2 = b2
  b3 = b3
  NoBuf = NoBuf
  Buf <- ThreeBufs
  PoolOrder <- ThreeOrder
  Producers = {"main", "bleParse", "uartParse"}
  MsgPoolSize = 0
  QSize = 7
  RetryPasses = 2
  MaxTimes = 3
  Timely = FALSE
  PhoneUpg = FALSE
SPECIFICATION Spec
INVARIANTS TypeOK ExclusiveOwnership
