SPECIFICATION ChainSpec
CONSTANTS
  Psdus <- SomePsdus
  Seeds = {1, 64, 127}
  Noise <- AllNoise
INVARIANTS
  Undone
  PsduReceived
CHECK_DEADLOCK FALSE
