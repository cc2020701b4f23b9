CONSTANTS
  MaxBlocks = 2
  MaxPieces = 2
  MaxTurns = 2
  MaxInputs = 1
  MaxLosses = 2
SPECIFICATION ChatSpec
INVARIANTS TypeOK   
PROPERTY ImplementsTranscript
CHECK_DEADLOCK FALSE
