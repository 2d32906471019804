CONSTANTS
  c1 = c1
  c2 = c2
  Calls = {c1, c2}
  Width = 2
  Limit = 2
  Shared = TRUE
  Slots = 2
  Helpers = {"run_ordered", "one by one", "run_many", "run_many skip", "stream"}
  m1 = m1
  m2 = m2
  m3 = m3
  m4 = m4
  Mentions = {m1, m2, m3, m4}
  Identity <- IdentityTexts
  TopK = 2
  MaxRounds = 2
  a1 = a1
  a2 = a2
  ea = ea
  b1 = b1
  eb = eb
  Nodes = {a1, a2, b1}
  Edges = {ea, eb}
  Source <- SourceOfMention
  Type <- TypeOfMention
  Ends <- EdgeEnds
  InPlace = {TRUE, FALSE}
  MaxSyncs = 1
  MaxKills = 1
  LastDay = 3
  MaxDates = 3
  HalvableTexts <- Paragraphs
  MaxAttempts = 2
  MaxHalvings = 2
  MinChars = 3
  LocalIds = {0, 1, 2}
  Payloads = {"x", "y"}
  References <- EdgeReferences
  Legal <- LegalPairs
  MaxNodes = 2
  MaxEdges = 1
  FileSources = {"s", "t"}
  MentionIds <- IdsOfVersions
  MaxJobs = 3
  MaxDeaths = 1
  MaxReads = 1
SPECIFICATION ExtractionSpec
CHECK_DEADLOCK FALSE
INVARIANTS
  NothingLeftRunning WithinBudget ReturnsAll
  ClustersAreComponents GraphIsConsistent DatesMeanDays
  HalvingIsOneCall EdgesKeepTheirEnds MentionFilesAreWhole
PROPERTIES
  NoLateStart CallsEnd EntitiesAreDerived
