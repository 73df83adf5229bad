CONSTANTS
  Size = 16
  PosMod = 32
  Frames <- MCFrames
  Noise <- MCNoise
  MaxSent = 3
SPECIFICATION Spec
INVARIANTS TypeOK FramesArrive
PROPERTIES ImplementsFraming
CHECK_DEADLOCK FALSE
