CONSTANTS
  MaxPieces = 3
  MaxDepth = 2
SPECIFICATION FairSpec
INVARIANTS TypeOK StreamKept PublishMatchesFile PiecesInOrder
PROPERTIES TransferEnds
CHECK_DEADLOCK FALSE
