SPECIFICATION SoftSpec
CONSTANTS
  Headers <- AllHeaders
  MaxFrames = 2
  MaxVectors = 5
  MaxCall = 4
  MaxRoom = 2
  Switching = TRUE
  NLRs = {1, 3}
  Thresholds = {0, 2}
  Algorithms = {"LS_s", "LMS_s"}
  MaxSets = 2
INVARIANTS
  EmitsItsSymbols
  TagOnFirstSymbol
  EstimateOfFrame
  ZeroedOnlyIfDetected
  ZeroedThroughFrame
  MeasuredOnFrame
CHECK_DEADLOCK FALSE
