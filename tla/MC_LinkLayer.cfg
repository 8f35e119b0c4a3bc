SPECIFICATION Spec
CONSTANTS
  Stations = {"station"}
  Types = {"data", "qos", "management"}
  Lengths = {23, 33, 34}
  SeqNumbers = 4
  MayRetry = TRUE
  MaxNumbered = 6
  MaxHeard = 3
INVARIANTS
  TapOnceInOrder
  LossesCounted
CHECK_DEADLOCK FALSE
