SPECIFICATION Spec
CONSTANTS
  Conns = {c1}
  Names = {a, b}
  MaxTopics = 2
  HistorySize = 1
  MaxNamesPerPoll = 1
  CountMod = 16
  MaxIngest = 2
  MaxEpoch = 2
  MaxWatchedRows = 1
  MaxCompared = 1
  WritesMayFail = TRUE
  Kinds = {"watch", "compare", "select"}
  MaxInFlight = 1
  MaxSent = 2
INVARIANTS
  TicksAnswerTheirEpoch
CHECK_DEADLOCK FALSE
