SPECIFICATION FairSpec
CONSTANTS
  Lengths <- MCLengths
  MaxOutput = 2
  MaxItems = 5
  MaxSets = 2
INVARIANTS
  ReadsSupplied
  WindowsSlide
  LostOnlyInRace
PROPERTIES
  TakenOver
CHECK_DEADLOCK FALSE
