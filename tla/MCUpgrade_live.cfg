CONSTANTS
  a = a
  b = b
  tooLong = tooLong
  NoImage = NoImage
  Image <- OneImage
  Size <- OneSize
  Limit = 4
  PageLen = 2
  PoolSize = 3
  MaxTimes = 3
  SnMod = 8
  Sessions = 1
  Faults = {"lose", "corrupt", "late", "flash", "clear"}
  MaxFaults = 2
CHECK_DEADLOCK FALSE
SPECIFICATION FairSpec
PROPERTIES UpgradeCompletes UsesOutbox
