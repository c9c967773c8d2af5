SPECIFICATION Spec
SYMMETRY RequestSymmetry
INVARIANT NewestWorks
INVARIANT DiesAsTold
INVARIANT DeactivationRevokes
PROPERTY OnlyLoses
CONSTANTS
  admin = admin
  agent = agent
  name = name
  Users = {admin, agent}
  Admins = {admin}
  RotateAny = {}
  Names = {name}
  Initial <- OneKeyEach
  Graces = {1}
  Lifetimes = {1}
  Requests = {r1, r2}
  Kinds <- AllKinds
  Never = Never
  NoRow = NoRow
  FullRowSave = TRUE
  MaxKeys = 4
  MaxTime = 2
  MaxRequests = 3
  MaxFaults = 1
\* MaxRequests ends every behaviour.
CHECK_DEADLOCK FALSE
