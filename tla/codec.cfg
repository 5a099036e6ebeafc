CONSTANTS
  ByteBits = 3
  Width <- MCWidth
  Samples <- MCSamples
  MaxItems = 2
SPECIFICATION Spec
INVARIANTS ReadsBack CutIsNoticed CursorInItem VarintsShortest
CHECK_DEADLOCK FALSE
