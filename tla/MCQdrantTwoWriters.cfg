SPECIFICATION Spec
CONSTANTS
  a = a
  b = b
  x = x
  y = y
  w1 = w1
  s1 = s1
  s2 = s2
  Writers = {w1, w2}
  Sources = {s1}
  Ids = {1, 2, 3, 4}
  Tokens = {a, b}
  Bodies = {x, y}
  Productions <- PlainProductions
  UpsertBatch = 1
  Blank = Blank
  Absent = Absent
  Unknown = Unknown
  NoCall = NoCall
  w2 = w2
INVARIANTS NeverLooksUnchanged
