SPECIFICATION MCSpec
CONSTANTS
  Segments = {1, 2, 3}
  Lower <- MCLower
  AutoExpandDepth = 1
  Paths <- MCPaths
  Texts <- MCTexts
  Clips <- MCClips
  PageRows = 2
  MaxCompared = 1
  HistoryMax = 2
  MaxTopics = 2
  MaxCount = 3
  MaxActs = 3
INVARIANTS
  SubtreeSums
  MarksAreMatches
  RowsAreFresh
  ClosedByUser
  BoxShowsTheMessage
PROPERTIES
  FlashMeansNewer
  AllMatchesCompared
CHECK_DEADLOCK FALSE
