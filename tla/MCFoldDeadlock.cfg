SPECIFICATION FoldSpec
CHECK_DEADLOCK FALSE
CONSTANTS
  DocumentTokens = 6
  MinTokens = 1
  MaxInput = 3
  MaxRecursion = 2
  SummarySizes = {1, 2}
  JoinTokens = 1
  FoldModes = {"shared"}
  Permits = 2
PROPERTIES FoldEnds
