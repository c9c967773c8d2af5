SPECIFICATION Spec
INVARIANT FailsOnFaultsOnly
CONSTANTS
  base1 = base1
  base2 = base2
  crm1 = crm1
  lms1 = lms1
  Files = {crm1, lms1}
  Position <- TwoModules
  Version <- SameVersion
  Length <- OneStatement
  Adapters = {"postgresql", "sqlite", "mysql"}
  Processes = {p1}
  MaxRuns = 2
  MaxFaults = 0
CHECK_DEADLOCK FALSE
