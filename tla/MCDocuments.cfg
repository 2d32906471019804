CONSTANTS
  Parts = {"split", "mineru", "content", "footnotes", "headings", "merge", "summary", "chunks", "parsers", "sync"}
  Shapes <- SplitShapes
  MaxElements = 4
  Budget = 6
  Overlap = 1
  Room = 1
  Floor = 1
  Wrap = 1
  Title = 0
  TextSpans <- SpansOfText
  ImageSpans <- SpansOfImage
  TableSpans <- SpansOfTable
  ChartSpans <- SpansOfChart
  FootnoteTexts <- FootnoteForms
  DiscardedHandler <- HandlerOfDiscarded
  SourceDir = {TRUE, FALSE}
  MaxBlocks = 2
  MaxPages = 2
  Forms <- ContentForms
  Names = {"", "t"}
  MaxTotal = 3
  Pages <- NotedPages
  NoteLists <- ListsOfNotes
  Marks <- MarksOfNotes
  Resolvers = {"simple", "llm"}
  SamePage = TRUE
  MaxRuns = 2
  Looks <- HeadingLooks
  Options <- TitleOptions
  MaxHeads = 3
  MaxLevels = 2
  MaxTitlePage = 1
  BatchSize = 2
  MaxPasses = 2
  MergeForms <- FormsToMerge
  MergeOptions <- OptionsOfMerge
  MaxA = 3
  MaxB = 2
  DocumentTokens = 5
  MinTokens = 1
  MaxInput = 3
  MaxRecursion = 2
  SummarySizes = {1, 2, 5}
  JoinTokens = 1
  FoldModes = {"sequential", "private"}
  Permits = 2
  Contents <- ContentsToChunk
  SourceKeys <- KeysOfSources
  Answers <- AnswersOfModel
  PromptLimit = 2
  MaxChunked = 2
  Configs <- ParserConfigs
  Parsers <- ParsersToRegister
  Patterns <- PatternFiles
  SourceFiles = {"a.pdf", "a_m.json"}
  Keeping = {"restored"}
  MaxRegistered = 3
  MaxLoads = 1
  s1 = s1
  Sources = {s1}
  MaxVersion = 3
  Recurs = FALSE
  OldPlans = {TRUE}
  YieldsNothing = {2}
  Stores = {TRUE, FALSE}
SPECIFICATION DocumentsSpec
CHECK_DEADLOCK FALSE
INVARIANTS
  SplitsCoverDocument ParseIsFaithful ContentIsWhole MergeIsFaithful SummaryIsWhole ChunksAreKnown
PROPERTIES
  RefsAreExact OutlineKept FoldEnds RegistryDecides Converges
