SPECIFICATION Spec
CONSTANTS
  a = a
  b = b
  x = x
  y = y
  w1 = w1
  s1 = s1
  s2 = s2
  Writers = {w1}
  Sources = {s1, s2}
  Ids = {1, 2, 3}
  Tokens = {a, b}
  Bodies = {x, y}
  Productions <- FewProductions
  UpsertBatch = 1
  Blank = Blank
  Absent = Absent
  Unknown = Unknown
  NoCall = NoCall
  None = None
  Dirty = Dirty
  NoJob = NoJob
INVARIANTS IInv NeverLooksUnchanged
PROPERTIES OldStaysUntilNewLanded ContractSpec
