SPECIFICATION Spec
CONSTANTS
  Operations <- MCOperations
  Blocks <- MCBlocks
  MaxStreams = 2
  ByteSpan = 3
  NoName = "none"
INVARIANT RecordHeadsUnique
CHECK_DEADLOCK FALSE
