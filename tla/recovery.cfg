CONSTANTS
  Key = {1}
  Value = {"v"}
  KeyLen <- MCKeyLen
  ValueLen <- MCValueLen
  None = None
  Idle = Idle
  MemtableSizeThreshold = 18
  UsizeMod = 65536
  BlockSize = 64
  BloomLoaded = FALSE
  Unreadable = Unreadable
  CompressedLen <- MCCompressedLen
  Client = {c1}
  Calls = {"put", "delete", "close"}
  MaxMemtables = 1
  MaxLevels = 2
  MaxKeySize = 4
  MaxValueSize = 4
  Compression = "none"
  FlushResults = {"ok", "err"}
  MaxWrites = 3
  MaxSequence = 4
  MaxSecond = 1
  MaxCrashes = 1
  L0CompactionThreshold = 1
  L0SstableSize = 18
  LevelSizeMultiplier = 1
SPECIFICATION RecoverySpec
INVARIANTS RecoveryTypeOK TablesHaveFiles CloseReachesDisk NewestFirst
PROPERTIES DiskKeeps OpenRestores
CHECK_DEADLOCK FALSE
