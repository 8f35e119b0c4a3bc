SPECIFICATION RxSpec
CONSTANTS
  Headers <- AllHeaders
  MaxFrames = 3
  MaxVectors = 5
  MaxCall = 2
  MaxRoom = 2
  Switching = FALSE
  MAX_PSDU_SIZE = 4
  MaxMacCall = 2
  Garbage = {0, 2}
PROPERTIES
  FrameStartHasItsHeader
CHECK_DEADLOCK FALSE
