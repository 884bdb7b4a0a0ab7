SPECIFICATION Spec
CONSTANTS
  Operations <- MCOperations
  Blocks <- MCBlocks
  MaxStreams = 2
  ByteSpan = 3
  NoName = "none"
INVARIANTS
  TypeOK
  EmittedVariantsUnique
  StreamNamesStayUnique
  EmittedStreamsResolve
  ClosersCarryTheirToken
  RootBytesUnmoved
CHECK_DEADLOCK FALSE
