CONSTANTS
  b1 = b1
  b2 = b2
  b3 = b3
  NoBuf = NoBuf
  Buf <- ThreeBufs
  PoolOrder <- ThreeOrder
  Producers = {"bleEvent", "uartParse"}
  MsgPoolSize = 3
  QSize = 7
  RetryPasses = 2
  MaxTimes = 3
  Timely = TRUE
  PhoneUpg = FALSE
SPECIFICATION Spec
PROPERTY RequestIsListed
