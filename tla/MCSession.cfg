SPECIFICATION Spec
CONSTANTS
  Conns = {1}
  Names = {a, b}
  MaxTopics = 2
  HistorySize = 2
  MaxNamesPerPoll = 2
  CountMod = 16
  MaxIngest = 2
  MaxEpoch = 2
  MaxWatchedRows = 2
  MaxCompared = 1
  WritesMayFail = FALSE
  FirstView = {a, b}
  Views = {{a, b}, {}}
  MaxPreviews = 2
  MaxDown = 2
  MaxActs = 2
  MaxRestarts = 0
  Acts = {"select", "compare", "tab", "scroll"}
INVARIANTS
  CountsFindTheirTopics
  WantsAgree
SYMMETRY Symmetry
CHECK_DEADLOCK FALSE
