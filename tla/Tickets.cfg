SPECIFICATION Spec
SYMMETRY RequestSymmetry
INVARIANT ClosedAtTells
INVARIANT FollowUpReopens
PROPERTY LeavesQaForCause
PROPERTY ClaimsDontSteal
CONSTANTS
  staff = staff
  agent = agent
  client = client
  People = {staff, agent, client}
  Staff = {staff}
  Agents = {agent}
  Reporters = {client}
  GameAssignee = agent
  NoOne = NoOne
  Refs = {ref}
  NoRef = NoRef
  NoRow = NoRow
  NoMessage = NoMessage
  Initial <- OneTicket
  Requests = {r1, r2}
  Kinds <- AllKinds
  MaxTickets = 2
  MaxRequests = 4
  MaxFaults = 1
\* MaxRequests ends every behaviour.
CHECK_DEADLOCK FALSE
