SPECIFICATION FairSpec
CONSTANTS
  Encodings = {0, 2}
  Sizes = {1, 4, 9}
  MAX_PSDU_SIZE = 4
  DATA_CARRIERS = 2
  LAST_SEED = 2
  Buffer = 7
  MaxMessages = 3
  MaxChanges = 1
INVARIANTS
  PacketsWhole
  HeaderFitsPacket
  NeverThrows
PROPERTIES
  EveryMessageHandled
CHECK_DEADLOCK FALSE
