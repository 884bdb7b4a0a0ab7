SPECIFICATION FairSpec
CONSTANTS
  Invocations = {c1, c2}
  NoRequest = NoRequest
  WorkingHeads <- MCWorkingHeads
  MetaHeads <- MCMetaHeads
  UnroutableHeads <- MCUnroutableHeads
  Oversized <- MCOversized
  Arguments <- FewArguments
  Sockets = {"Working"}
  RepliesByExchange = FALSE
PROPERTY EveryInvocationEnds
CHECK_DEADLOCK FALSE
