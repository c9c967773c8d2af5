--------------------------- MODULE CronScheduler ---------------------------
(***************************************************************************)
(* The scheduled-job runner: CronRunner::runDueJobs() as it is called by   *)
(* every `./run cron run` process (one per minute, from the OS crontab)    *)
(* and by the backend's "Run now" request, with the Cron screen's create,  *)
(* update and bulk-update requests running beside them.                    *)
(*                                                                         *)
(* Each runner reads the enabled cron_jobs rows ONCE, then works through   *)
(* that snapshot: it tests isDue() on the row in its hands, takes the      *)
(* job's advisory lock without waiting, runs the task, writes the row      *)
(* back, appends to cron_run_log and releases the lock.  Every database    *)
(* statement is one step, so other runners, administrators, the clock and  *)
(* crashes come between any two of them.                                   *)
(*                                                                         *)
(* Time is counted in minutes.  A frequency is the number of minutes that  *)
(* strtotime() adds, or Unparseable when strtotime() returns false.  The   *)
(* screen stores any string, and strtotime() reads more of them than these:*)
(* an absolute date, a number of months, a step back or of no length.  Jobs*)
(* with such a frequency are not modelled.                                 *)
(***************************************************************************)
EXTENDS Integers, Sequences, SequencesExt

CONSTANTS
  Jobs,          \* ids of cron_jobs rows
  CliRunners,    \* `./run cron run` processes
  WebRunners,    \* "Run now" requests
  CronModes,     \* values the setting 'cron_mode' takes
  Admins,        \* requests to CronController's create, update, bulk
  Frequencies,   \* frequencies an administrator may type, in minutes
  TaskResults,   \* how tasks end: some of Statuses
  Unparseable,   \* a frequency strtotime() does not understand
  Never,         \* last_run_at IS NULL
  NoRow,         \* no such row, or no row in hand
  Free,          \* the advisory lock is not held
  FullRowSave,   \* TRUE: Model::save() writes every column; FALSE: changed ones
  MaxTime,       \* bound: the clock stops here
  MaxEdits,      \* bound: requests administrators make
  MaxAborts      \* bound: crashes and exceptions

Runners == CliRunners \cup WebRunners
Statuses == {"success", "error"}

Rows ==
  [id: Jobs, enabled: BOOLEAN, frequency: Frequencies \cup {Unparseable},
   last_run_at: Nat \cup {Never}, last_status: Statuses \cup {"none"}]

Writes == [loaded: Rows, saved: Rows]

LogEntries == [status: Statuses, ran_at: Nat]

ASSUME FrequenciesAssumption ==
  /\ Frequencies \subseteq Nat \ {0}
  /\ Unparseable \notin Nat
  /\ Never \notin Nat

ASSUME NullsAssumption ==
  /\ NoRow \notin Rows
  /\ Free \notin Runners

ASSUME BoundsAssumption ==
  /\ CronModes \subseteq {"manual", "auto"}
  /\ TaskResults \subseteq Statuses
  /\ FullRowSave \in BOOLEAN
  /\ MaxTime \in Nat
  /\ MaxEdits \in Nat
  /\ MaxAborts \in Nat

VARIABLES
  now,           \* the clock
  cron_mode,     \* the setting 'cron_mode'
  cron_jobs,     \* the table: a row, or NoRow
  cron_run_log,  \* per job, its log rows in the order they were inserted
  lock,          \* per job, the connection that holds its advisory lock
  pc,            \* per runner, the statement it is at
  todo,          \* per runner, the rows of its snapshot not yet visited
  job,           \* per runner, the model object it is executing
  outcome,       \* per runner, $status and $ranAt of the task it has run
  pending,       \* per administrator, the rows loaded and still to be saved
  edits, aborts  \* counted against MaxEdits and MaxAborts

runnerVars == <<pc, todo, job, outcome>>
adminVars == <<pending, edits>>
vars == <<now, cron_mode, cron_jobs, cron_run_log, lock, pc, todo, job,
          outcome, pending, edits, aborts>>

NoOutcome == [status |-> "error", ran_at |-> 0]

(* The statements between taking a job's lock and releasing it. *)
Executing == {"task", "save", "log", "unlock"}

TypeOK ==
  /\ now \in 0..MaxTime
  /\ cron_mode \in CronModes
  /\ cron_jobs \in [Jobs -> Rows \cup {NoRow}]
  /\ cron_run_log \in [Jobs -> Seq(LogEntries)]
  /\ lock \in [Jobs -> Runners \cup {Free}]
  /\ pc \in [Runners -> {"idle", "find", "loop"} \cup Executing]
  /\ todo \in [Runners -> SUBSET Rows]
  /\ job \in [Runners -> Rows \cup {NoRow}]
  /\ outcome \in [Runners -> LogEntries]
  /\ pending \in [Admins -> SUBSET Writes]
  /\ edits \in 0..MaxEdits
  /\ aborts \in 0..MaxAborts

(***************************************************************************)
(* The schedule.                                                           *)
(***************************************************************************)

(* CronJobs::isDue(): a job that never ran is due; otherwise one frequency *)
(* must have passed since last_run_at, and an unparseable one never does.  *)
IsDue(row, time) ==
  \/ row.last_run_at = Never
  \/ /\ row.last_run_at # Never
     /\ row.frequency # Unparseable
     /\ time >= row.last_run_at + row.frequency

(* Wrong versions of nextAnchor(): the finish time, as it was before the   *)
(* drift was noticed; one period too few.                                  *)
NextAnchor_FinishTime(row, ran_at) == ran_at

NextAnchor_OneTooFew(row, ran_at) ==
  IF row.frequency = Unparseable THEN ran_at ELSE ran_at - row.frequency

(* CronRunner::nextAnchor(): what last_run_at holds after a run that ended *)
(* at time ran_at -- the time the job was due, unless the run ended a      *)
(* whole period or more after it.                                          *)
NextAnchor(row, ran_at) ==
  IF row.last_run_at = Never \/ row.frequency = Unparseable
  THEN ran_at
  ELSE LET due == row.last_run_at + row.frequency
       IN  IF ran_at >= due + row.frequency THEN ran_at ELSE due

(* Model::save() on an object loaded as `loaded` and now holding `saved`,  *)
(* when the table holds `stored`.                                          *)
Stored(stored, loaded, saved) ==
  LET Merged(col) == IF saved[col] = loaded[col] THEN stored[col] ELSE saved[col]
  IN  IF FullRowSave
      THEN saved
      ELSE [id |-> saved.id,
            enabled |-> Merged("enabled"),
            frequency |-> Merged("frequency"),
            last_run_at |-> Merged("last_run_at"),
            last_status |-> Merged("last_status")]

(***************************************************************************)
(* The initial states: a fresh install, where each job has been seeded     *)
(* (and never ran) or is not registered yet.                               *)
(***************************************************************************)
NewRow(j, enabled, frequency) ==
  [id |-> j, enabled |-> enabled, frequency |-> frequency,
   last_run_at |-> Never, last_status |-> "none"]

NewRows ==
  {NewRow(j, e, f) :
     j \in Jobs, e \in BOOLEAN, f \in Frequencies \cup {Unparseable}}

Init ==
  /\ now = 0
  /\ cron_mode \in CronModes
  /\ cron_jobs \in [Jobs -> NewRows \cup {NoRow}]
  /\ \A j \in Jobs : cron_jobs[j] # NoRow => cron_jobs[j].id = j
  /\ cron_run_log = [j \in Jobs |-> <<>>]
  /\ lock = [j \in Jobs |-> Free]
  /\ pc = [r \in Runners |-> "idle"]
  /\ todo = [r \in Runners |-> {}]
  /\ job = [r \in Runners |-> NoRow]
  /\ outcome = [r \in Runners |-> NoOutcome]
  /\ pending = [a \in Admins |-> {}]
  /\ edits = 0
  /\ aborts = 0

(***************************************************************************)
(* The runners.                                                            *)
(***************************************************************************)
Goto(r, from, to) ==
  /\ pc[r] = from
  /\ pc' = [pc EXCEPT ![r] = to]

(* CronTask::runAction(): the CLI does not look at cron_mode. *)
StartCli(r) ==
  /\ r \in CliRunners
  /\ Goto(r, "idle", "find")
  /\ UNCHANGED <<now, cron_mode, cron_jobs, cron_run_log, lock, todo, job,
                 outcome, adminVars, aborts>>

(* CronController::runNowAction(): refused unless cron_mode is 'manual'. *)
StartRunNow(r) ==
  /\ r \in WebRunners
  /\ cron_mode = "manual"
  /\ Goto(r, "idle", "find")
  /\ UNCHANGED <<now, cron_mode, cron_jobs, cron_run_log, lock, todo, job,
                 outcome, adminVars, aborts>>

EnabledRows == {cron_jobs[j] : j \in {i \in Jobs : /\ cron_jobs[i] # NoRow
                                                   /\ cron_jobs[i].enabled}}

(* The one query of runDueJobs(); the loop never reads the table again. *)
Find(r) ==
  /\ Goto(r, "find", "loop")
  /\ todo' = [todo EXCEPT ![r] = EnabledRows]
  /\ UNCHANGED <<now, cron_mode, cron_jobs, cron_run_log, lock, job, outcome,
                 adminVars, aborts>>

Visit(r, row) ==
  /\ pc[r] = "loop"
  /\ row \in todo[r]
  /\ todo' = [todo EXCEPT ![r] = @ \ {row}]

(* The two `continue`s: not due, or another runner holds the job's lock. *)
Skip(r, row) ==
  /\ Visit(r, row)
  /\ ~IsDue(row, now) \/ lock[row.id] # Free
  /\ UNCHANGED <<now, cron_mode, cron_jobs, cron_run_log, lock, pc, job,
                 outcome, adminVars, aborts>>

(* Wrong: the lock is not consulted.                                       *)
TakeLock_Unguarded(r, row) ==
  /\ Visit(r, row)
  /\ IsDue(row, now)
  /\ lock' = [lock EXCEPT ![row.id] = r]
  /\ Goto(r, "loop", "task")
  /\ job' = [job EXCEPT ![r] = row]
  /\ UNCHANGED <<now, cron_mode, cron_jobs, cron_run_log, outcome, adminVars,
                 aborts>>

(* pg_try_advisory_lock(id) or GET_LOCK(.., 0) succeeds. *)
TakeLock(r, row) ==
  /\ Visit(r, row)
  /\ IsDue(row, now)
  /\ lock[row.id] = Free
  /\ lock' = [lock EXCEPT ![row.id] = r]
  /\ Goto(r, "loop", "task")
  /\ job' = [job EXCEPT ![r] = row]
  /\ UNCHANGED <<now, cron_mode, cron_jobs, cron_run_log, outcome, adminVars,
                 aborts>>

(* The task method returns or throws (an unknown target throws as well). *)
RunTask(r) ==
  /\ Goto(r, "task", "save")
  /\ \E status \in TaskResults :
       outcome' = [outcome EXCEPT ![r] = [status |-> status, ran_at |-> now]]
  /\ UNCHANGED <<now, cron_mode, cron_jobs, cron_run_log, lock, todo, job,
                 adminVars, aborts>>

AfterRun(r) ==
  [job[r] EXCEPT !.last_run_at = NextAnchor(job[r], outcome[r].ran_at),
                 !.last_status = outcome[r].status]

(* Wrong: the lock is released before the log row is written.              *)
SaveJob_EarlyUnlock(r) ==
  /\ Goto(r, "save", "log")
  /\ cron_jobs' = [cron_jobs EXCEPT ![job[r].id] =
                     Stored(@, job[r], AfterRun(r))]
  /\ job' = [job EXCEPT ![r] = AfterRun(r)]
  /\ lock' = [lock EXCEPT ![job[r].id] = Free]
  /\ UNCHANGED <<now, cron_mode, cron_run_log, todo, outcome, adminVars,
                 aborts>>

(* $job->save(): the object loaded by Find, with this run's result. *)
SaveJob(r) ==
  /\ Goto(r, "save", "log")
  /\ cron_jobs' = [cron_jobs EXCEPT ![job[r].id] =
                     Stored(@, job[r], AfterRun(r))]
  /\ job' = [job EXCEPT ![r] = AfterRun(r)]
  /\ UNCHANGED <<now, cron_mode, cron_run_log, lock, todo, outcome, adminVars,
                 aborts>>

SaveLog(r) ==
  /\ Goto(r, "log", "unlock")
  /\ cron_run_log' = [cron_run_log EXCEPT ![job[r].id] =
                        Append(@, outcome[r])]
  /\ UNCHANGED <<now, cron_mode, cron_jobs, lock, todo, job, outcome,
                 adminVars, aborts>>

Unlock(r) ==
  /\ Goto(r, "unlock", "loop")
  /\ lock' = [lock EXCEPT ![job[r].id] = Free]
  /\ job' = [job EXCEPT ![r] = NoRow]
  /\ outcome' = [outcome EXCEPT ![r] = NoOutcome]
  /\ UNCHANGED <<now, cron_mode, cron_jobs, cron_run_log, todo, adminVars,
                 aborts>>

EndPass(r) ==
  /\ todo[r] = {}
  /\ Goto(r, "loop", "idle")
  /\ UNCHANGED <<now, cron_mode, cron_jobs, cron_run_log, lock, todo, job,
                 outcome, adminVars, aborts>>

(* Wrong: the lock is a file or a column that nobody clears after a crash. *)
Abort_KeepsLock(r) ==
  /\ aborts < MaxAborts
  /\ aborts' = aborts + 1
  /\ pc[r] # "idle"
  /\ pc' = [pc EXCEPT ![r] = "idle"]
  /\ todo' = [todo EXCEPT ![r] = {}]
  /\ job' = [job EXCEPT ![r] = NoRow]
  /\ outcome' = [outcome EXCEPT ![r] = NoOutcome]
  /\ UNCHANGED <<now, cron_mode, cron_jobs, cron_run_log, lock, adminVars>>

(* A crash, or an exception from a statement outside the task: the rest of *)
(* the pass is lost, and the lock goes with the finally block or with the  *)
(* closed connection.                                                      *)
Abort(r) ==
  /\ aborts < MaxAborts
  /\ aborts' = aborts + 1
  /\ pc[r] # "idle"
  /\ pc' = [pc EXCEPT ![r] = "idle"]
  /\ lock' = [j \in Jobs |-> IF lock[j] = r THEN Free ELSE lock[j]]
  /\ todo' = [todo EXCEPT ![r] = {}]
  /\ job' = [job EXCEPT ![r] = NoRow]
  /\ outcome' = [outcome EXCEPT ![r] = NoOutcome]
  /\ UNCHANGED <<now, cron_mode, cron_jobs, cron_run_log, adminVars>>

(***************************************************************************)
(* The Cron screen and the clock.                                          *)
(***************************************************************************)
Request(a) ==
  /\ pending[a] = {}
  /\ edits < MaxEdits
  /\ edits' = edits + 1

(* createAction(): the row is new, so its last_run_at is NULL. *)
Create(a, j) ==
  /\ Request(a)
  /\ cron_jobs[j] = NoRow
  /\ \E e \in BOOLEAN, f \in Frequencies \cup {Unparseable} :
       cron_jobs' = [cron_jobs EXCEPT ![j] = NewRow(j, e, f)]
  /\ UNCHANGED <<now, cron_mode, cron_run_log, lock, runnerVars, pending,
                 aborts>>

Edited(row, enabled, frequency) ==
  [loaded |-> row,
   saved |-> [row EXCEPT !.enabled = enabled, !.frequency = frequency]]

(* updateAction() up to fillFromRequest(): one row is in memory. *)
LoadOne(a, j) ==
  /\ Request(a)
  /\ cron_jobs[j] # NoRow
  /\ \E e \in BOOLEAN, f \in Frequencies \cup {Unparseable} :
       pending' = [pending EXCEPT ![a] = {Edited(cron_jobs[j], e, f)}]
  /\ UNCHANGED <<now, cron_mode, cron_jobs, cron_run_log, lock, runnerVars,
                 aborts>>

(* bulkAction() up to its loop: the selected rows are in memory, and       *)
(* `enabled` is the only column it sets.                                   *)
LoadMany(a, ids) ==
  /\ Request(a)
  /\ \E e \in BOOLEAN :
       pending' = [pending EXCEPT ![a] =
         {Edited(cron_jobs[j], e, cron_jobs[j].frequency) :
            j \in {i \in ids : cron_jobs[i] # NoRow}}]
  /\ UNCHANGED <<now, cron_mode, cron_jobs, cron_run_log, lock, runnerVars,
                 aborts>>

(* The save() of either request. *)
SaveEdit(a, w) ==
  /\ w \in pending[a]
  /\ cron_jobs' = [cron_jobs EXCEPT ![w.loaded.id] =
                     Stored(@, w.loaded, w.saved)]
  /\ pending' = [pending EXCEPT ![a] = @ \ {w}]
  /\ UNCHANGED <<now, cron_mode, cron_run_log, lock, runnerVars, edits,
                 aborts>>

(* The Settings screen: a request of its own. *)
SetCronMode(a) ==
  /\ Request(a)
  /\ cron_mode' \in CronModes \ {cron_mode}
  /\ UNCHANGED <<now, cron_jobs, cron_run_log, lock, runnerVars, pending,
                 aborts>>

Tick ==
  /\ now < MaxTime
  /\ now' = now + 1
  /\ UNCHANGED <<cron_mode, cron_jobs, cron_run_log, lock, runnerVars,
                 adminVars, aborts>>

(***************************************************************************)
(* The specification.                                                      *)
(***************************************************************************)
RunnerStep(r) ==
  \/ Find(r)
  \/ \E row \in todo[r] : Skip(r, row) \/ TakeLock(r, row)
  \/ RunTask(r)
  \/ SaveJob(r)
  \/ SaveLog(r)
  \/ Unlock(r)
  \/ EndPass(r)

AdminStep(a) ==
  \/ \E j \in Jobs : Create(a, j) \/ LoadOne(a, j)
  \/ \E ids \in SUBSET Jobs \ {{}} : LoadMany(a, ids)
  \/ \E w \in pending[a] : SaveEdit(a, w)
  \/ SetCronMode(a)

Next ==
  \/ \E r \in Runners : StartCli(r) \/ StartRunNow(r) \/ RunnerStep(r)
                         \/ Abort(r)
  \/ \E a \in Admins : AdminStep(a)
  \/ Tick

Spec == Init /\ [][Next]_vars

(* The crontab starts another CLI process after one has ended, and a       *)
(* process that does not crash goes on to its next statement; tasks end.   *)
(* Nothing makes a clock tick, an administrator act or a process crash.    *)
Fairness ==
  /\ \A r \in CliRunners : WF_vars(StartCli(r))
  /\ \A r \in Runners : WF_vars(RunnerStep(r))

FairSpec == Spec /\ Fairness

(***************************************************************************)
(* Properties.                                                             *)
(***************************************************************************)
Executors(j) == {r \in Runners : pc[r] \in Executing /\ job[r].id = j}

(* A row is stored under its own id, and rows that a runner or an          *)
(* administrator holds in memory are rows of the table (cron_jobs has no   *)
(* delete).                                                                *)
RowsKnown ==
  /\ \A j \in Jobs : cron_jobs[j] # NoRow => cron_jobs[j].id = j
  /\ \A r \in Runners : \A row \in todo[r] : cron_jobs[row.id] # NoRow
  /\ \A r \in Runners :
       pc[r] \in Executing =>
         job[r] # NoRow /\ cron_jobs[job[r].id] # NoRow
  /\ \A a \in Admins : \A w \in pending[a] :
       cron_jobs[w.loaded.id] # NoRow /\ w.saved.id = w.loaded.id

(* A runner that is inside a job holds that job's lock.                    *)
LockHeld ==
  \A r \in Runners : pc[r] \in Executing => lock[job[r].id] = r

(* The inductive invariant of the proofs.                                  *)
IInv == TypeOK /\ RowsKnown /\ LockHeld

(* Two runners are never inside the same job at once, however long the     *)
(* task takes and whatever crashes: the reason for the advisory lock in    *)
(* CronRunner::runDueJobs().                                               *)
NoOverlap ==
  \A j \in Jobs : \A r, s \in Executors(j) : r = s

(* cron_run_log lists a job's runs in the order they ended: a run's time   *)
(* is taken and its log row inserted before the lock is released.          *)
LogInOrder ==
  \A j \in Jobs : \A m, n \in DOMAIN cron_run_log[j] :
    m <= n => cron_run_log[j][m].ran_at <= cron_run_log[j][n].ran_at

(* A run leaves its job settled: at the time it ended, the job is not due  *)
(* again by the row that its save stores -- no immediate catch-up          *)
(* (CronRunner::nextAnchor()), also when the run was made from a row that  *)
(* another runner or an administrator had overtaken.                       *)
NoCatchUp ==
  [][\A r \in Runners :
       pc[r] = "save" /\ pc'[r] = "log" =>
         ~IsDue(cron_jobs'[job[r].id], outcome[r].ran_at)]_vars

LastRun(j) == cron_jobs[j].last_run_at
HasRun(j) == cron_jobs[j] # NoRow /\ cron_jobs[j].last_run_at # Never

(* A job keeps its clock time: a run that nobody's save overtook since its *)
(* row was read moves last_run_at by exactly one period or, after falling  *)
(* a whole period behind, by two periods or more, however long the tasks   *)
(* took and whatever the job's schedule was before (nextAnchor()).         *)
NoDrift ==
  [][\A r \in Runners : LET j == job[r].id IN
       /\ pc[r] = "save" /\ pc'[r] = "log"
       /\ cron_jobs[j] = job[r]
       /\ HasRun(j) /\ cron_jobs[j].frequency # Unparseable
       =>
         \/ LastRun(j)' = LastRun(j) + cron_jobs[j].frequency
         \/ LastRun(j)' >= LastRun(j) + 2 * cron_jobs[j].frequency]_vars

EnabledAndDue(j) ==
  /\ cron_jobs[j] # NoRow
  /\ cron_jobs[j].enabled
  /\ IsDue(cron_jobs[j], now)

(* Every job that is enabled and due is run, or disabled, or its schedule  *)
(* is edited, as long as the crontab keeps starting runners and tasks end. *)
DueJobsRun ==
  \A j \in Jobs : EnabledAndDue(j) ~> ~EnabledAndDue(j)

(* The promise of the scheduler: SerialExecutions, each job's executions   *)
(* one at a time and their outcomes recorded by the one that runs.         *)
Serial == INSTANCE SerialExecutions
            WITH executors <- [j \in Jobs |-> Executors(j)],
                 history <- cron_run_log,
                 Outcomes <- LogEntries

SerialSpec == Serial!Spec
=============================================================================
