SPECIFICATION Spec

CONSTANTS
  Span = 3
  MaxConnections = 3
  MaxMinted = 4
  MaxInFlight = 2

INVARIANTS
  TypeOK
  NothingWaitsInVain

PROPERTIES
  RepliesAnswerTheirRequest
  EventsAscend

CHECK_DEADLOCK FALSE
