SPECIFICATION MCSpec
CONSTANTS
  Conns = {1, 2}
  Names = {a, b}
  MaxTopics = 2
  HistorySize = 2
  MaxNamesPerPoll = 1
  CountMod = 16
  MaxIngest = 3
  MaxEpoch = 2
  MaxWatchedRows = 2
  MaxCompared = 2
  WritesMayFail = FALSE
  FirstView = {a}
  Views = {{a}, {b}}
  MaxPreviews = 1
  MaxDown = 2
  MaxActs = 2
  MaxRestarts = 1
  Acts = {"scroll", "select", "compare", "tab"}
PROPERTIES
  PageCatchesUp
CHECK_DEADLOCK FALSE
