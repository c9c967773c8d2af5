SPECIFICATION Spec
SYMMETRY RequestSymmetry
INVARIANT LogExplains
INVARIANT ReversalsUndo
INVARIANT ReversedOnce
INVARIANT ArchiveKeeps
CONSTANTS
  Entities = {e1}
  Columns = {name, created_at}
  Values = {0, 1}
  Defaulted = {created_at}
  Default = Default
  NoEntity = NoEntity
  NoRow = NoRow
  KeepEvents = 0
  KeepChanges = 1
  Requests = {r1, r2}
  MaxRequests = 4
  MaxTime = 2
  MaxFaults = 1
\* MaxRequests ends every behaviour.
CHECK_DEADLOCK FALSE
