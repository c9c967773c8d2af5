SPECIFICATION Spec
SYMMETRY RequestSymmetry
INVARIANT LicensedByStoredKey
INVARIANT ListenersKnow
CONSTANTS
  m1 = m1
  m2 = m2
  k1 = k1
  k2 = k2
  Modules = {m1, m2}
  SharesWith <- Sharing
  Keys = {k1, k2}
  Stored <- OneStored
  Requests = {r1, r2}
  Kinds = {"checkInAll", "checkIn", "addKey", "updateKey", "removeKey"}
  Beside <- CheckInsBeside
  GraceDays = 0
  None = None
  NoRow = NoRow
  NoCache = NoCache
  MaxTime = 1
  MaxRequests = 3
  MaxBeside = 2
  MaxAborts = 1
  MaxOnceDead = 1
\* MaxRequests ends every behaviour.
CHECK_DEADLOCK FALSE
