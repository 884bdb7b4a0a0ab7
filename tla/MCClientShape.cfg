SPECIFICATION Spec
CONSTANTS
  Invocations = {c1, c2}
  NoRequest = NoRequest
  WorkingHeads <- MCWorkingHeads
  MetaHeads <- MCMetaHeads
  UnroutableHeads <- MCUnroutableHeads
  Oversized <- MCOversized
  Arguments <- MCArguments
  Sockets = {"Working", "Meta"}
  RepliesByExchange = FALSE
SYMMETRY AnyOrder
INVARIANTS
  TypeOK
  SuccessMeansCommitted
  UsageErrorsSendNothing
  CommittedRequestsFitTheirSocket
  WholeReplyDecides
PROPERTY AbstractSpec
CHECK_DEADLOCK FALSE
