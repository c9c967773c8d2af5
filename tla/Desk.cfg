SPECIFICATION SpecOfDesk
SYMMETRY RequestSymmetry
INVARIANT RowsHaveFiles
INVARIANT NothingLeftBehind
INVARIANT AttachedByParties
INVARIANT LimitKept
CONSTANTS
  staff = staff
  client = client
  other = other
  People = {staff, client, other}
  Staff = {staff}
  Agents = {}
  Reporters = {client}
  GameAssignee = NoOne
  NoOne = NoOne
  Refs = {ref}
  NoRef = NoRef
  NoRow = NoRow
  NoMessage = NoMessage
  Initial <- NoTickets
  Requests = {r1}
  Kinds <- DeskKinds
  MaxTickets = 1
  MaxRequests = 3
  MaxFaults = 0
  ApiLimit = 1
  StaffLimit = 1
  FileRequests = {f1, f2}
  MaxUploads = 3
  MaxFileRequests = 3
  MaxFileFaults = 2
\* MaxRequests ends every behaviour.
CHECK_DEADLOCK FALSE
