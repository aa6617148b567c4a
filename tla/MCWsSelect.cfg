SPECIFICATION LiveSpec
CONSTANTS
  Conns = {c1, c2}
  Names = {a}
  MaxTopics = 1
  HistorySize = 1
  MaxNamesPerPoll = 1
  CountMod = 16
  MaxIngest = 1
  MaxEpoch = 1
  MaxWatchedRows = 1
  MaxCompared = 1
  WritesMayFail = FALSE
  Kinds = {"select"}
  MaxInFlight = 1
  MaxSent = 2
INVARIANTS
  SelectionsCounted
PROPERTIES
  SelectionsEnd
CHECK_DEADLOCK FALSE
