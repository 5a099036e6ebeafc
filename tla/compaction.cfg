CONSTANTS
  Key = {1, 2}
  Value = {"empty", "v"}
  KeyLen <- MCKeyLen
  ValueLen <- MCValueLen
  None = None
  Idle = Idle
  MemtableSizeThreshold = 18
  UsizeMod = 65536
  BlockSize = 64
  BloomLoaded = FALSE
  Unreadable = Unreadable
  CompressedLen <- MCCompressedLen
  Client = {c1}
  Calls = {"put", "delete", "scan", "close"}
  MaxMemtables = 1
  MaxLevels = 3
  MaxKeySize = 4
  MaxValueSize = 4
  Compression = "none"
  FlushResults = {"ok"}
  MaxWrites = 4
  MaxSequence = 99
  L0CompactionThreshold = 1
  L0SstableSize = 18
  LevelSizeMultiplier = 3
SPECIFICATION CompactionSpec
INVARIANTS CompactorTypeOK SnapshotStands LevelsSorted LevelLookup LevelsByAge NewestFirst
PROPERTIES ScanTakesHighest CompactionKeeps
CHECK_DEADLOCK FALSE
