SPECIFICATION Spec
CONSTANTS
  Readers = {r1, r2}
  Names = {a, b, c}
  MaxTopics = 2
  HistorySize = 2
  MaxNamesPerPoll = 1
  CountMod = 16
  MaxIngest = 4
  MaxEpoch = 2
INVARIANTS
  TypeOK
  IndexAgrees
  MirrorExact
  SelectionsCounted
  HistoryContiguous
  HistoryReachesBack
PROPERTIES
  ImplementsFeed
SYMMETRY Symmetry
CHECK_DEADLOCK FALSE
