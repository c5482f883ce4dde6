CONSTANTS
  a = a
  b = b
  tooLong = tooLong
  NoImage = NoImage
  Image <- OneImage
  Size <- OneSize
  Limit = 4
  PageLen = 2
  PoolSize = 2
  MaxTimes = 3
  SnMod = 8
  Sessions = 1
  Faults = {"crashDelay"}
  MaxFaults = 1
CHECK_DEADLOCK FALSE
SPECIFICATION Spec
PROPERTY ReportsInstallation
