SPECIFICATION FairSpec
CONSTANTS
  MaxPerTurn <- MCMaxPerTurn
  MaxReplies <- MCMaxReplies
  MaxWire <- MCMaxWire
INVARIANTS
  StreamsWhole
  NothingOutlives
  ReportedOnce
PROPERTIES
  LoopReturns
\* A connection that is gone stays gone.
CHECK_DEADLOCK FALSE
