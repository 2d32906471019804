SPECIFICATION SplitSpec
CHECK_DEADLOCK FALSE
CONSTANTS
  Shapes <- SplitShapes
  MaxElements = 4
  Budget = 4
  Overlap = 1
  Room = 1
  Floor = 1
  Wrap = 1
  Title = 0
INVARIANTS EveryElementSurvives
