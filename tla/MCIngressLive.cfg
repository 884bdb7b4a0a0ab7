SPECIFICATION FairSpec
CONSTANTS
  ContractSpan = 3
  RevisionSpan = 3
  ByteSpan = 2
  LengthSpan = 12
  Peers = {p1, p2}
  Nobody = Nobody
  Binding <- MCBinding
  OperationCount = 3
  Bodies <- MCBodies
  Messages <- FewMessages
  MaxFrames = 2
INVARIANT VerdictsAreRight
PROPERTIES AbstractSpec EveryMessageAnswered RequestFramesHandled
CHECK_DEADLOCK FALSE
