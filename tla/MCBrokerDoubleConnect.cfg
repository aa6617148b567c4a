SPECIFICATION Spec
CONSTANTS
  Reqs = {r1, r2}
  Profiles = {p}
  MaxRequests = 2
  MaxSessions = 1
  DisconnectTimesOut = FALSE
INVARIANTS
  OneConnection
CHECK_DEADLOCK FALSE
