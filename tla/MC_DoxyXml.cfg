SPECIFICATION Spec
CONSTANTS
  Words <- MCWords
  Special <- MCSpecial
  Numbers <- MCNumbers
  MaxKids = 3
  MaxParts = 4
  MaxDepth = 2
INVARIANTS
  UnknownLeavesNoTrace
  ExportKeepsAll
  DescriptionIsVisibleText
CHECK_DEADLOCK FALSE
