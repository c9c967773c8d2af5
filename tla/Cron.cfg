SPECIFICATION FairSpec
INVARIANT NoOverlap
PROPERTY NoCatchUp
PROPERTY SerialSpec
PROPERTY NoDrift
CONSTANTS
  Jobs = {j1}
  CliRunners = {t1}
  WebRunners = {w1}
  CronModes = {"manual", "auto"}
  Admins = {a1}
  Frequencies <- EveryTwo
  TaskResults <- OneResult
  Unparseable = Unparseable
  Never = Never
  NoRow = NoRow
  Free = Free
  FullRowSave = TRUE
  MaxTime = 4
  MaxEdits = 1
  MaxAborts = 1
PROPERTY DueJobsRun
