SPECIFICATION Spec
CONSTANTS
  s1 = s1
  s2 = s2
  Sources = {s1}
  MaxVersion = 2
  Recurs = FALSE
  OldPlans = {}
  YieldsNothing = {}
  Stores = {TRUE}
INVARIANTS TrueProvenance
