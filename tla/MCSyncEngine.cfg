SPECIFICATION EngineSpec
CONSTANTS
  s1 = s1
  s2 = s2
  s3 = s3
  Sources = {s1, s2}
  MaxCopies = 2
  MaxAsked = 4
  Limit = 1
  FailsOnCancel = TRUE
  NoTask = NoTask
  a = a
  b = b
  x = x
  y = y
  w1 = w1
  Blank = Blank
  Absent = Absent
  Unknown = Unknown
  NoCall = NoCall
INVARIANTS StreamInv AliveBound NoneLeftRunning EveryNameReportedOnce
PROPERTIES RunEnds Heals
