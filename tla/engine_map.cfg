CONSTANTS
  Key = {1, 2, 3}
  Value = {"v"}
  KeyLen <- MCKeyLen
  ValueLen <- MCValueLen
  None = None
  Idle = Idle
  MemtableSizeThreshold = 20
  UsizeMod = 65536
  BlockSize = 8
  BloomLoaded = FALSE
  Unreadable = Unreadable
  CompressedLen <- MCCompressedLen
  Client = {c1}
  Calls <- MCCalls
  MaxMemtables = 2
  MaxLevels = 2
  MaxKeySize = 4
  MaxValueSize = 4
  Compression = "zstd"
  FlushResults = {"ok", "err"}
  MaxWrites = 5
SPECIFICATION Spec
INVARIANTS TypeOK GetFindsWhatIsLeft
PROPERTIES ImplementsMap
CHECK_DEADLOCK FALSE
