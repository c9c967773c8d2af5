SPECIFICATION Spec
SYMMETRY ProcessSymmetry
INVARIANT WholeFileOnce
INVARIANT RecordedInOrder
INVARIANT FailsOnFaultsOnly
CONSTANTS
  base1 = base1
  base2 = base2
  crm1 = crm1
  lms1 = lms1
  Files = {base1, base2, crm1}
  Position <- InOrder
  Version <- OwnVersions
  Length <- Lengths
  Adapters = {"postgresql", "sqlite", "mysql"}
  Processes = {p1, p2}
  MaxRuns = 3
  MaxFaults = 2
\* MaxRuns ends every behaviour.
CHECK_DEADLOCK FALSE
