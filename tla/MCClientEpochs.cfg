SPECIFICATION Spec
CONSTANTS
  Invocations = {c1, c2}
  NoRequest = NoRequest
  WorkingHeads <- MCWorkingHeads
  MetaHeads <- MCMetaHeads
  UnroutableHeads <- MCUnroutableHeads
  Oversized <- MCOversized
  Arguments <- OneArgument
  Sockets = {"Working"}
  RepliesByExchange = TRUE
INVARIANT StaleRepliesRefused
CHECK_DEADLOCK FALSE
