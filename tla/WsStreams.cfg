\* Two clients that come and go, a stop and a second channel; a channel retains
\* two messages, so that clients lag.
SPECIFICATION FairSpec
CONSTANTS
  Client = {k1, k2}
  Capacity = 2
  MaxOutputs = 2
  MaxChannels = 2
  MaxNotes = 1
CHECK_DEADLOCK FALSE
INVARIANTS SeenInOrder MissedOnlyInGapOrLag RemovedChannelQuiet NobodyStranded
PROPERTIES CatchesUp
