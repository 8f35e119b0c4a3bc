SPECIFICATION SoftSpec
CONSTANTS
  Lengths <- FieldLengths
  Flips <- UpToThree
  MAX_PSDU_SIZE = 1528
  Words <- TwoWords
  Frames <- ThreeFrames
  Errors <- EveryFourth
  Changes <- UpToSeven
  Good = 7
  Bad = 100
INVARIANTS
  HeaderAsSent
  OddErrorsFound
  BestWord
  
CHECK_DEADLOCK FALSE
