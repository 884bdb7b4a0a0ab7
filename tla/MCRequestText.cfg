SPECIFICATION Spec
CONSTANTS
  Working = "Working"
  Meta = "Meta"
  Declared <- MCDeclared
  Replies <- MCReplies
  Observable = {"Working"}
  Tokens <- MCTokens
  Documents <- MCDocuments
  MaxOperations = 3
INVARIANTS
  TypeOK
  BuiltRequestsSurviveText
  AcceptedTextIsUnambiguous
  RefusedTextIsNoRequest
  PrintedRepliesReadBack
CHECK_DEADLOCK FALSE
