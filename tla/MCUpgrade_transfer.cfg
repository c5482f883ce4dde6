CONSTANTS
  a = a
  b = b
  tooLong = tooLong
  NoImage = NoImage
  Image <- Images
  Size <- Sizes
  Limit = 4
  PageLen = 2
  PoolSize = 2
  MaxTimes = 3
  SnMod = 8
  Sessions = 2
  Faults = {"lose", "corrupt", "late", "busy", "mark", "crash", "flash"}
  MaxFaults = 3
CHECK_DEADLOCK FALSE
SPECIFICATION Spec
INVARIANTS TypeOK SlotIsPrefix RunsWholeImage
PROPERTY ReportsInstallation
