SPECIFICATION MCSpec
CONSTANTS
  Reqs = {r1, r2}
  Profiles = {p}
  MaxRequests = 2
  MaxSessions = 2
  DisconnectTimesOut = TRUE
INVARIANTS
  StatusDescribesConnection
  OneConnectionInTurn
  TreeOfOneBrokerInTurn
PROPERTIES
  RequestsEnd
CHECK_DEADLOCK FALSE
