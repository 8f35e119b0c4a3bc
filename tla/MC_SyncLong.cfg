SPECIFICATION FairSpec
CONSTANTS
  F = 2
  CP = 1
  SYNC_LENGTH = 5
  MIN_GAP = 7
  MAX_SAMPLES = 14
  MaxItems = 20
  MaxIn = 6
  MaxOut = 2
  Garbage = {0, 3}
INVARIANTS
  NoCheckFails
  TagsOnVectors
  FramesOnGrid
  OffsetsOfFrame
PROPERTIES
  Drains
CHECK_DEADLOCK FALSE
