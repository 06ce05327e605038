\* README's promise about a worker dragged into a tab of the operator's.
SPECIFICATION Spec
CONSTANTS
  t1 = t1
  t2 = t2
  Tasks <- OneTask
  Seq <- OneNumber
  MaxPanesPerTab = 2
  Drags = TRUE
  MaxPanes = 3
  MaxMoves = 2
  MaxRestarts = 0
PROPERTIES
  RetiredAsPane
CHECK_DEADLOCK FALSE
