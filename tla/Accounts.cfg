SPECIFICATION Spec
SYMMETRY RequestSymmetry
INVARIANT RolesAsPosted
PROPERTY AdminRemains
PROPERTY ProvisioningSparesAdmins
PROPERTY UsedLinksRefused
CONSTANTS
  Users = {u1, u2}
  Seeded = {u1}
  Roles = {admin, member}
  Admin = admin
  NoRow = NoRow
  Requests = {r1, r2}
  MaxRequests = 3
  MaxTokens = 2
  MaxFaults = 1
\* MaxRequests ends every behaviour once the tokens are expired.
CHECK_DEADLOCK FALSE
