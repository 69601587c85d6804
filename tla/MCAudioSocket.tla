--------------------------- MODULE MCAudioSocket ---------------------------
EXTENDS AudioSocket

MCMaxPerTurn == 2    \* DEFAULT_MAX_PER_TURN: two thresholds, first and second
MCMaxReplies == 2    \* a second reply meets the stream and the report of the first
MCMaxWire == 2
=============================================================================
