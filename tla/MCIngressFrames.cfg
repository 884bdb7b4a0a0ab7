SPECIFICATION Spec
CONSTANTS
  ContractSpan = 3
  RevisionSpan = 3
  ByteSpan = 2
  LengthSpan = 12
  Peers = {p1, p2}
  Nobody = Nobody
  Binding <- MCBinding
  OperationCount = 3
  Bodies <- MCBodies
  Messages <- MCMessages
  MaxFrames = 1
INVARIANTS TypeOK VerdictsAreRight ForeignArchivesUnread RouteMismatchUnreachable SameMessageSameVerdict
PROPERTY AbstractSpec
CHECK_DEADLOCK FALSE
