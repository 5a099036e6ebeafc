CONSTANTS
  Key <- MCKey
  Value = {"short", "long"}
  KeyLen <- MCKeyLen
  ValueLen <- MCValueLen
  None = None
  MemtableSizeThreshold = 40
  UsizeMod = 65536
  Writer = {w1, w2}
  MaxWrites = 3
  MaxIters = 1
SPECIFICATION FairSpec
INVARIANTS TypeOK CountersCoverData SequencesDistinct
PROPERTIES WritersReturn
CHECK_DEADLOCK FALSE
