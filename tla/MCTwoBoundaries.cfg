SPECIFICATION FairSpec
CONSTANTS
  s1 = s1
  Sources = {s1}
  MaxVersion = 2
  Hands = 1
  ChunkLess = {2}
INVARIANTS TrueContent
PROPERTIES NothingLost Converges
