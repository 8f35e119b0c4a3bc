SPECIFICATION Spec
CONSTANTS
  MaxSets = 3
INVARIANTS
  BlocksFollow
  WidgetsFollow
  ConstructorUndisturbed
CHECK_DEADLOCK FALSE
