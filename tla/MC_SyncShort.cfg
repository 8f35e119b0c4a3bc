SPECIFICATION Spec
CONSTANTS
  MIN_PLATEAU = 2
  MIN_GAP = 4
  MAX_SAMPLES = 7
  MaxCall = 3
  MaxItems = 18
INVARIANTS
  InStep
PROPERTIES
  NoPlateauMissed
  TagAtPlateau
  RefinesTaggedStream
