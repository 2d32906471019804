SPECIFICATION FairSpec
CONSTANTS
  s1 = s1
  s2 = s2
  s3 = s3
  Sources = {s1, s2}
  MaxCopies = 2
  MaxAsked = 3
  Limit = 2
  FailsOnCancel = TRUE
  NoTask = NoTask
PROPERTIES CancellationPropagates
