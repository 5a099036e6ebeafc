CONSTANTS
  Key = {1}
  Value = {"v"}
  KeyLen <- MCKeyLen
  ValueLen <- MCValueLen
  None = None
  Idle = Idle
  MemtableSizeThreshold = 17
  UsizeMod = 65536
  BlockSize = 64
  BloomLoaded = FALSE
  Unreadable = Unreadable
  CompressedLen <- MCCompressedLen
  Client = {c1, c2}
  Calls = {"put", "get"}
  MaxMemtables = 1
  MaxLevels = 2
  MaxKeySize = 4
  MaxValueSize = 4
  Compression = "none"
  FlushResults = {"ok"}
  MaxWrites = 4
SPECIFICATION Spec
INVARIANTS GetIsFresh
CHECK_DEADLOCK FALSE
