CONSTANTS
  small = small
  large = large
  NoImage = NoImage
  Images = {small, large}
  Hex = {large}
  PiecesOf <- MCPieces
  MaxDepth = 3
SPECIFICATION Spec
INVARIANTS TypeOK WholeImageSent StopObeyed FailureTold
CHECK_DEADLOCK FALSE
