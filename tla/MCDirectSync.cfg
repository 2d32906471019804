SPECIFICATION Spec
CONSTANTS
  s1 = s1
  s2 = s2
  Sources = {s1, s2}
  MaxVersion = 2
  Recurs = FALSE
  OldPlans = {TRUE}
  YieldsNothing = {}
  Stores = {TRUE, FALSE}
SYMMETRY Symmetric
INVARIANTS UnchangedIsCurrent SameEndState NoMixing
PROPERTIES NeverEmptied
