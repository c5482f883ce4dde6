CONSTANTS
  b1 = b1
  b2 = b2
  b3 = b3
  NoBuf = NoBuf
  Buf <- TwoBufs
  PoolOrder <- TwoOrder
  Producers = {"bleParse", "uartParse"}
  MsgPoolSize = 0
  QSize = 7
  RetryPasses = 2
  MaxTimes = 3
  Timely = TRUE
  PhoneUpg = FALSE
SPECIFICATION Spec
PROPERTY PostDuringSend
