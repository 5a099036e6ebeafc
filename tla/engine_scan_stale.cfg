CONSTANTS
  Key = {1, 2}
  Value = {"v"}
  KeyLen <- MCKeyLen
  ValueLen <- MCValueLen
  None = None
  Idle = Idle
  MemtableSizeThreshold = 36
  UsizeMod = 65536
  BlockSize = 64
  BloomLoaded = FALSE
  Unreadable = Unreadable
  CompressedLen <- MCCompressedLen
  Client = {c1}
  Calls = {"put", "scan"}
  MaxMemtables = 1
  MaxLevels = 2
  MaxKeySize = 4
  MaxValueSize = 4
  Compression = "none"
  FlushResults = {"ok"}
  MaxWrites = 5
SPECIFICATION Spec
INVARIANTS ScanReturnsNewest
CHECK_DEADLOCK FALSE
