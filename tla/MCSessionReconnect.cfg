SPECIFICATION Spec
CONSTANTS
  Conns = {1, 2}
  Names = {a, b}
  MaxTopics = 1
  HistorySize = 2
  MaxNamesPerPoll = 2
  CountMod = 16
  MaxIngest = 1
  MaxEpoch = 1
  MaxWatchedRows = 2
  MaxCompared = 2
  WritesMayFail = FALSE
  FirstView = {a, b}
  Views = {{a, b}}
  MaxPreviews = 2
  MaxDown = 2
  MaxActs = 2
  MaxRestarts = 1
  Acts = {"select"}
INVARIANTS
  NothingOfAnotherTable
  RecordedWhileOpen
SYMMETRY Symmetry
CHECK_DEADLOCK FALSE
