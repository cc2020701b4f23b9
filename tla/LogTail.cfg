\* Four pieces of every kind and a truncation; at first the last line is sent.
\* No deadlock check: once the log is gone or the stream has ended nothing happens.
SPECIFICATION FairSpec
CONSTANTS
  TailLines = 1
  MaxPieces = 4
  MaxTruncates = 1
CHECK_DEADLOCK FALSE
INVARIANTS InOrder NothingPassedOver
PROPERTIES Follows
