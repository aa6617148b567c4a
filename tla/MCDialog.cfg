SPECIFICATION Spec
CONSTANTS
  Reqs = {r1, r2}
  Ids = {1, 2}
  NoId = 0
  Rests = {"x"}
  Passwords = {"secret"}
  NoPassword = ""
  Stored <- MCStored
  NoReq = nobody
  MaxAsks = 2
INVARIANTS
  FileIsWhole
  MemoryIsFile
PROPERTIES
  KeepsItsPromise
  RequestsAnswered
  DeleteWasConfirmed
  PasswordKept
  SavedIsSelected
CHECK_DEADLOCK FALSE
