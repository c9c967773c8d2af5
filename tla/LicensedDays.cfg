SPECIFICATION SpecOfDays
SYMMETRY RequestSymmetry
INVARIANT OneClaimPerDay
 
PROPERTY OnlySuccessMovesSuccess
PROPERTY LicenceKept
CONSTANTS
  m1 = m1
  k1 = k1
  Requests = {r1, r2}
  CrossesMidnight = FALSE
  NoRow = NoRow
  Null = Null
  Earlier = Earlier
  MaxTime = 1
  Modules = {m1}
  SharesWith <- Alone
  Keys = {k1}
  Stored <- OneStored
  Kinds = {"checkInAll", "checkIn", "removeKey"}
  Beside <- AllBeside
  GraceDays = 1
  None = None
  NoCache = NoCache
  MaxRequests = 3
  MaxBeside = 3
  MaxAborts = 1
  MaxOnceDead = 3
\* MaxRequests ends every behaviour.
CHECK_DEADLOCK FALSE
