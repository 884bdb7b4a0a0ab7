SPECIFICATION Spec
CONSTANTS
  TokenSpan = 2
  MaxCalls = 6
INVARIANTS TypeOK DeliveriesMatchHistory ClosingIsHonest TokensDistinctWithinSpan
PROPERTY ClosesOneObserver
CHECK_DEADLOCK FALSE
