CONSTANTS
  Key = {1, 2, 3}
  Value = {"v"}
  KeyLen <- MCKeyLen
  ValueLen <- MCValueLen
  None = None
  MemtableSizeThreshold = 64
  UsizeMod = 65536
  BlockSize = 64
  BloomLoaded = TRUE
  Unreadable = Unreadable
  CompressedLen <- MCCompressedLen
  Hash1 <- MCHash1
  Hash2 <- MCHash2
  HashMod = 65536
  BitCount = 64
  HashCount = 2
  Thread = {t1}
  Expected = {0}
  Compressions = {"lz4"}
  CacheLimit = 1
  Ops = {"range"}
SPECIFICATION Spec
INVARIANTS RangeReturnsAll
CHECK_DEADLOCK FALSE
