------------------------ MODULE CronSchedulerProofs ------------------------
(***************************************************************************)
(* Proofs about CronScheduler, for every set of jobs, runners and          *)
(* administrators, every frequency, both ways of saving a row and every    *)
(* value of the bounds.                                                    *)
(***************************************************************************)
EXTENDS CronScheduler, TLAPS

(***************************************************************************)
(* The schedule.                                                           *)
(***************************************************************************)

(* CronRunner::nextAnchor(): once a row has been given its new last_run_at *)
(* the job is not due at the time its run ended -- whatever the frequency, *)
(* however late or slow the run was.                                       *)
THEOREM AnchorSettles ==
  ASSUME NEW row \in Rows, NEW ran_at \in Nat, NEW status \in Statuses
  PROVE  ~IsDue([row EXCEPT !.last_run_at = NextAnchor(row, ran_at),
                            !.last_status = status], ran_at)
<1> DEFINE next == NextAnchor(row, ran_at)
<1> DEFINE run == [row EXCEPT !.last_run_at = next, !.last_status = status]
<1>1. row.frequency = Unparseable \/ row.frequency \in Nat \ {0}
  BY FrequenciesAssumption DEF Rows
<1>2. /\ next \in Nat
      /\ row.frequency # Unparseable => ran_at < next + row.frequency
  <2>1. CASE row.last_run_at = Never \/ row.frequency = Unparseable
    BY <1>1, <2>1 DEF NextAnchor
  <2>2. CASE row.last_run_at # Never /\ row.frequency # Unparseable
    <3>1. row.last_run_at \in Nat /\ row.frequency \in Nat \ {0}
      BY <1>1, <2>2 DEF Rows
    <3> QED
      BY <2>2, <3>1 DEF NextAnchor
  <2> QED
    BY <2>1, <2>2
<1>3. run.last_run_at = next /\ run.frequency = row.frequency
  BY DEF Rows
<1>4. next # Never
  BY <1>2, FrequenciesAssumption
<1>5. ~IsDue(run, ran_at)
  <2>1. row.frequency = Unparseable => ~IsDue(run, ran_at)
    BY <1>3, <1>4 DEF IsDue
  <2>2. row.frequency # Unparseable => ~(ran_at >= next + row.frequency)
    BY <1>1, <1>2
  <2> QED
    BY <1>3, <1>4, <2>1, <2>2 DEF IsDue
<1> QED
  BY <1>5

(* A run that ends within one period of its due time moves last_run_at to  *)
(* that due time; a later one moves it by at least two periods.            *)
THEOREM AnchorKeepsClockTime ==
  ASSUME NEW row \in Rows, NEW ran_at \in Nat,
         row.last_run_at # Never, row.frequency # Unparseable
  PROVE  LET next == NextAnchor(row, ran_at)
         IN  \/ next = row.last_run_at + row.frequency
             \/ next >= row.last_run_at + 2 * row.frequency
<1>1. row.last_run_at \in Nat /\ row.frequency \in Nat \ {0}
  BY FrequenciesAssumption DEF Rows
<1> QED
  BY <1>1 DEF NextAnchor

(***************************************************************************)
(* The inductive invariant.                                                *)
(***************************************************************************)
LEMMA InitIInv == Init => IInv
<1> SUFFICES ASSUME Init PROVE IInv
  OBVIOUS
<1> USE DEF Init
<1>1. NewRows \subseteq Rows
  BY DEF NewRows, NewRow, Rows
<1>2. NoOutcome \in LogEntries
  BY DEF NoOutcome, LogEntries, Statuses
<1>3. TypeOK
  BY <1>1, <1>2, BoundsAssumption DEF TypeOK
<1>4. RowsKnown /\ LockHeld
  BY DEF RowsKnown, LockHeld, Executing
<1> QED
  BY <1>3, <1>4 DEF IInv

(* Model::save() keeps a row a row of the same job.                        *)
LEMMA StoredRow ==
  ASSUME NEW stored \in Rows, NEW loaded \in Rows, NEW saved \in Rows
  PROVE  Stored(stored, loaded, saved) \in Rows
         /\ Stored(stored, loaded, saved).id = saved.id
  BY DEF Stored, Rows

LEMMA AfterRunRow ==
  ASSUME TypeOK, NEW r \in Runners, job[r] \in Rows
  PROVE  AfterRun(r) \in Rows /\ AfterRun(r).id = job[r].id
<1> DEFINE row == job[r]
<1> DEFINE next == NextAnchor(row, outcome[r].ran_at)
<1>1. outcome[r].ran_at \in Nat /\ outcome[r].status \in Statuses
  BY DEF TypeOK, LogEntries
<1>2. next \in Nat
  <2>1. /\ row.last_run_at \in Nat \cup {Never}
        /\ row.frequency \in Nat \cup {Unparseable}
    BY FrequenciesAssumption DEF Rows
  <2> HIDE DEF row
  <2> QED
    BY <1>1, <2>1 DEF NextAnchor
<1>3. AfterRun(r) = [row EXCEPT !.last_run_at = next,
                                !.last_status = outcome[r].status]
  BY DEF AfterRun
<1> HIDE DEF next
<1> QED
  BY <1>1, <1>2, <1>3 DEF Rows

LEMMA NextIInv == IInv /\ [Next]_vars => IInv'
<1> SUFFICES ASSUME IInv, [Next]_vars PROVE IInv'
  OBVIOUS
<1> USE DEF IInv
<1>t. TypeOK /\ RowsKnown /\ LockHeld
  OBVIOUS
<1>n. NoRow \notin Rows /\ Free \notin Runners
  BY NullsAssumption
<1>1. ASSUME NEW r \in Runners, StartCli(r) \/ StartRunNow(r) PROVE IInv'
  <2>1. TypeOK'
    BY <1>t, <1>1 DEF TypeOK, StartCli, StartRunNow, Goto, adminVars
  <2>2. RowsKnown' /\ LockHeld'
    BY <1>t, <1>1 DEF TypeOK, RowsKnown, LockHeld, Executing, StartCli,
       StartRunNow, Goto, adminVars
  <2> QED BY <2>1, <2>2
<1>2. ASSUME NEW r \in Runners, Find(r) PROVE IInv'
  <2>1. EnabledRows \subseteq Rows
        /\ \A row \in EnabledRows : cron_jobs[row.id] # NoRow
    BY <1>t DEF EnabledRows, TypeOK, RowsKnown
  <2>2. TypeOK'
    BY <1>t, <1>2, <2>1 DEF TypeOK, Find, Goto, adminVars
  <2>3. RowsKnown' /\ LockHeld'
    BY <1>t, <1>2, <2>1 DEF TypeOK, RowsKnown, LockHeld, Executing, Find,
       Goto, adminVars
  <2> QED BY <2>2, <2>3
<1>3. ASSUME NEW r \in Runners, NEW row \in todo[r], Skip(r, row) PROVE IInv'
  <2>1. TypeOK'
    BY <1>t, <1>3 DEF TypeOK, Skip, Visit, adminVars
  <2>2. RowsKnown' /\ LockHeld'
    BY <1>t, <1>3 DEF TypeOK, RowsKnown, LockHeld, Executing, Skip, Visit,
       adminVars
  <2> QED BY <2>1, <2>2
<1>4. ASSUME NEW r \in Runners, NEW row \in todo[r], TakeLock(r, row)
      PROVE  IInv'
  <2>1. row \in Rows /\ row.id \in Jobs
    BY <1>t, <1>4 DEF TypeOK, Rows
  <2>2. TypeOK'
    BY <1>t, <1>4, <2>1 DEF TypeOK, TakeLock, Visit, Goto, Executing, adminVars
  <2>3. RowsKnown'
    BY <1>t, <1>n, <1>4, <2>1 DEF TypeOK, RowsKnown, Executing, TakeLock,
       Visit, Goto, adminVars
  <2>4. LockHeld'
    BY <1>t, <1>n, <1>4, <2>1 DEF TypeOK, LockHeld, Executing, TakeLock,
       Visit, Goto
  <2> QED BY <2>2, <2>3, <2>4
<1>5. ASSUME NEW r \in Runners, RunTask(r) PROVE IInv'
  <2>1. TypeOK'
    <3>1. outcome' \in [Runners -> LogEntries]
      BY <1>t, <1>5, BoundsAssumption DEF TypeOK, RunTask, LogEntries
    <3> QED
      BY <1>t, <1>5, <3>1 DEF TypeOK, RunTask, Goto, Executing, adminVars
  <2>2. RowsKnown' /\ LockHeld'
    BY <1>t, <1>5 DEF TypeOK, RowsKnown, LockHeld, Executing, RunTask, Goto,
       adminVars
  <2> QED BY <2>1, <2>2
<1>6. ASSUME NEW r \in Runners, SaveJob(r) PROVE IInv'
  <2> DEFINE j == job[r].id
  <2> DEFINE new == Stored(cron_jobs[j], job[r], AfterRun(r))
  <2>1. job[r] \in Rows /\ j \in Jobs /\ cron_jobs[j] \in Rows
    BY <1>t, <1>6 DEF TypeOK, RowsKnown, Executing, SaveJob, Goto, Rows
  <2>2. AfterRun(r) \in Rows /\ AfterRun(r).id = j
    BY <1>t, <2>1, AfterRunRow
  <2>3. new \in Rows /\ new.id = j
    BY <2>1, <2>2, StoredRow
  <2>4. /\ cron_jobs' = [cron_jobs EXCEPT ![j] = new]
        /\ job' = [job EXCEPT ![r] = AfterRun(r)]
    BY <1>6 DEF SaveJob
  <2> HIDE DEF new
  <2>5. TypeOK'
    BY <1>t, <1>6, <2>1, <2>2, <2>3, <2>4 DEF TypeOK, SaveJob, Goto, Executing,
       adminVars
  <2>6. RowsKnown'
    BY <1>t, <1>n, <1>6, <2>1, <2>2, <2>3, <2>4 DEF TypeOK, RowsKnown, SaveJob,
       Goto, Executing, adminVars
  <2>7. LockHeld'
    BY <1>t, <1>6, <2>1, <2>2, <2>4 DEF TypeOK, LockHeld, SaveJob, Goto,
       Executing
  <2> QED BY <2>5, <2>6, <2>7
<1>7. ASSUME NEW r \in Runners, SaveLog(r) PROVE IInv'
  <2>1. job[r].id \in Jobs
    BY <1>t, <1>7 DEF TypeOK, RowsKnown, Executing, SaveLog, Goto, Rows
  <2>2. cron_run_log' \in [Jobs -> Seq(LogEntries)]
    BY <1>t, <1>7, <2>1 DEF TypeOK, SaveLog
  <2>3. TypeOK'
    BY <1>t, <1>7, <2>2 DEF TypeOK, SaveLog, Goto, Executing, adminVars
  <2>4. RowsKnown' /\ LockHeld'
    BY <1>t, <1>7 DEF TypeOK, RowsKnown, LockHeld, Executing, SaveLog, Goto,
       adminVars
  <2> QED BY <2>3, <2>4
<1>8. ASSUME NEW r \in Runners, Unlock(r) PROVE IInv'
  <2>1. job[r].id \in Jobs /\ lock[job[r].id] = r
    BY <1>t, <1>8 DEF TypeOK, RowsKnown, LockHeld, Executing, Unlock, Goto, Rows
  <2>2. NoOutcome \in LogEntries
    BY DEF NoOutcome, LogEntries, Statuses
  <2>3. TypeOK'
    BY <1>t, <1>8, <2>1, <2>2 DEF TypeOK, Unlock, Goto, Executing, adminVars
  <2>4. RowsKnown'
    BY <1>t, <1>8 DEF TypeOK, RowsKnown, Executing, Unlock, Goto, adminVars
  <2>5. LockHeld'
    BY <1>t, <1>n, <1>8, <2>1 DEF TypeOK, RowsKnown, LockHeld, Executing, Unlock, Goto
  <2> QED BY <2>3, <2>4, <2>5
<1>9. ASSUME NEW r \in Runners, EndPass(r) PROVE IInv'
  <2>1. TypeOK'
    BY <1>t, <1>9 DEF TypeOK, EndPass, Goto, adminVars
  <2>2. RowsKnown' /\ LockHeld'
    BY <1>t, <1>9 DEF TypeOK, RowsKnown, LockHeld, Executing, EndPass, Goto,
       adminVars
  <2> QED BY <2>1, <2>2
<1>10. ASSUME NEW r \in Runners, Abort(r) PROVE IInv'
  <2>1. NoOutcome \in LogEntries
    BY DEF NoOutcome, LogEntries, Statuses
  <2>2. TypeOK'
    BY <1>t, <1>10, <2>1, BoundsAssumption DEF TypeOK, Abort, adminVars
  <2>3. RowsKnown'
    BY <1>t, <1>10 DEF TypeOK, RowsKnown, Executing, Abort, adminVars
  <2>4. LockHeld'
    BY <1>t, <1>n, <1>10 DEF TypeOK, RowsKnown, LockHeld, Executing, Abort, Rows
  <2> QED BY <2>2, <2>3, <2>4
<1>11. ASSUME NEW a \in Admins, NEW j \in Jobs, Create(a, j) PROVE IInv'
  <2>1. PICK e \in BOOLEAN, f \in Frequencies \cup {Unparseable} :
          cron_jobs' = [cron_jobs EXCEPT ![j] = NewRow(j, e, f)]
    BY <1>11 DEF Create
  <2>2. NewRow(j, e, f) \in Rows /\ NewRow(j, e, f).id = j
    BY DEF NewRow, Rows
  <2>3. TypeOK'
    BY <1>t, <1>11, <2>1, <2>2, BoundsAssumption DEF TypeOK, Create, Request,
       runnerVars
  <2>4. RowsKnown'
    BY <1>t, <1>n, <1>11, <2>1, <2>2 DEF TypeOK, RowsKnown, Create, runnerVars
  <2>5. LockHeld'
    BY <1>t, <1>11 DEF LockHeld, Create, runnerVars
  <2> QED BY <2>3, <2>4, <2>5
<1>12. ASSUME NEW a \in Admins, NEW j \in Jobs, LoadOne(a, j) PROVE IInv'
  <2>1. PICK e \in BOOLEAN, f \in Frequencies \cup {Unparseable} :
          pending' = [pending EXCEPT ![a] = {Edited(cron_jobs[j], e, f)}]
    BY <1>12 DEF LoadOne
  <2> DEFINE w == Edited(cron_jobs[j], e, f)
  <2>2. w \in Writes /\ w.loaded.id = j /\ w.saved.id = j
    <3>1. cron_jobs[j] \in Rows /\ cron_jobs[j].id = j
      BY <1>t, <1>12 DEF LoadOne, TypeOK, RowsKnown
    <3> QED
      BY <3>1 DEF Edited, Writes, Rows
  <2>6. pending' = [pending EXCEPT ![a] = {w}] /\ cron_jobs[j] # NoRow
    BY <1>12, <2>1 DEF LoadOne
  <2> HIDE DEF w
  <2>7. /\ edits < MaxEdits /\ edits' = edits + 1
        /\ UNCHANGED <<now, cron_mode, cron_jobs, cron_run_log, lock, runnerVars,
                       aborts>>
    BY <1>12 DEF LoadOne, Request
  <2>8. pending' \in [Admins -> SUBSET Writes]
    BY <1>t, <2>2, <2>6 DEF TypeOK
  <2>3. TypeOK'
    BY <1>t, <2>7, <2>8, BoundsAssumption DEF TypeOK, runnerVars
  <2>4. RowsKnown'
    BY <1>t, <1>12, <2>2, <2>6 DEF TypeOK, RowsKnown, LoadOne, runnerVars
  <2>5. LockHeld'
    BY <1>t, <1>12 DEF LockHeld, LoadOne, runnerVars
  <2> QED BY <2>3, <2>4, <2>5
<1>13. ASSUME NEW a \in Admins, NEW ids \in SUBSET Jobs, LoadMany(a, ids)
       PROVE  IInv'
  <2>1. PICK e \in BOOLEAN :
          pending' = [pending EXCEPT ![a] =
            {Edited(cron_jobs[j], e, cron_jobs[j].frequency) :
               j \in {i \in ids : cron_jobs[i] # NoRow}}]
    BY <1>13 DEF LoadMany
  <2> DEFINE W == {Edited(cron_jobs[j], e, cron_jobs[j].frequency) :
                     j \in {i \in ids : cron_jobs[i] # NoRow}}
  <2>2. ASSUME NEW w \in W
        PROVE  /\ w \in Writes
               /\ w.saved.id = w.loaded.id
               /\ cron_jobs[w.loaded.id] # NoRow
    <3>1. PICK j \in Jobs : /\ cron_jobs[j] # NoRow
                            /\ w = Edited(cron_jobs[j], e, cron_jobs[j].frequency)
      OBVIOUS
    <3>2. cron_jobs[j] \in Rows /\ cron_jobs[j].id = j
      BY <1>t, <3>1 DEF TypeOK, RowsKnown
    <3> QED
      BY <3>1, <3>2 DEF Edited, Writes, Rows
  <2>3. pending' = [pending EXCEPT ![a] = W]
    BY <2>1
  <2> HIDE DEF W
  <2>4. TypeOK'
    BY <1>t, <1>13, <2>2, <2>3, BoundsAssumption DEF TypeOK, LoadMany, Request,
       runnerVars
  <2>5. RowsKnown'
    BY <1>t, <1>13, <2>2, <2>3 DEF TypeOK, RowsKnown, LoadMany, runnerVars
  <2>6. LockHeld'
    BY <1>t, <1>13 DEF LockHeld, LoadMany, runnerVars
  <2> QED BY <2>4, <2>5, <2>6
<1>14. ASSUME NEW a \in Admins, NEW w \in pending[a], SaveEdit(a, w)
       PROVE  IInv'
  <2> DEFINE j == w.loaded.id
  <2> DEFINE new == Stored(cron_jobs[j], w.loaded, w.saved)
  <2>1. /\ w.loaded \in Rows /\ w.saved \in Rows /\ w.saved.id = j
        /\ j \in Jobs /\ cron_jobs[j] \in Rows
    BY <1>t DEF TypeOK, RowsKnown, Writes, Rows
  <2>2. new \in Rows /\ new.id = j
    BY <2>1, StoredRow
  <2>3. cron_jobs' = [cron_jobs EXCEPT ![j] = new]
    BY <1>14 DEF SaveEdit
  <2> HIDE DEF new
  <2>4. TypeOK'
    BY <1>t, <1>14, <2>1, <2>2, <2>3 DEF TypeOK, SaveEdit, runnerVars
  <2>5. RowsKnown'
    BY <1>t, <1>n, <1>14, <2>1, <2>2, <2>3 DEF TypeOK, RowsKnown, SaveEdit,
       runnerVars
  <2>6. LockHeld'
    BY <1>t, <1>14 DEF LockHeld, SaveEdit, runnerVars
  <2> QED BY <2>4, <2>5, <2>6
<1>15. CASE Tick \/ \E a \in Admins : SetCronMode(a)
  <2>1. TypeOK'
    BY <1>t, <1>15, BoundsAssumption DEF TypeOK, SetCronMode, Request, Tick,
       runnerVars, adminVars
  <2>2. RowsKnown' /\ LockHeld'
    BY <1>t, <1>15 DEF RowsKnown, LockHeld, SetCronMode, Tick, runnerVars,
       adminVars
  <2> QED BY <2>1, <2>2
<1>16. CASE UNCHANGED vars
  BY <1>t, <1>16 DEF TypeOK, RowsKnown, LockHeld, vars
<1> QED
  BY <1>1, <1>2, <1>3, <1>4, <1>5, <1>6, <1>7, <1>8, <1>9, <1>10, <1>11, <1>12,
     <1>13, <1>14, <1>15, <1>16 DEF Next, RunnerStep, AdminStep

THEOREM InvariantHolds == Spec => []IInv
<1>1. QED
  BY InitIInv, NextIInv, PTL DEF Spec

(* Type correctness of every variable.                                     *)
THEOREM TypeCorrect == Spec => []TypeOK
<1>1. IInv => TypeOK
  BY DEF IInv
<1> QED
  BY <1>1, InvariantHolds, PTL

(* Two runners are never inside the same job at once.                      *)
THEOREM MutualExclusion == Spec => []NoOverlap
<1>1. IInv => NoOverlap
  BY DEF IInv, LockHeld, NoOverlap, Executors
<1> QED
  BY <1>1, InvariantHolds, PTL

(***************************************************************************)
(* The run log.  Its order is inductive once it is known that no log row   *)
(* is younger than the clock, nor younger than the outcome of a run that   *)
(* has ended and is still to be logged.                                    *)
(***************************************************************************)
LogBounded ==
  /\ \A j \in Jobs : \A n \in DOMAIN cron_run_log[j] :
       cron_run_log[j][n].ran_at <= now
  /\ \A r \in Runners :
       pc[r] \in {"save", "log"} =>
         /\ outcome[r].ran_at <= now
         /\ \A n \in DOMAIN cron_run_log[job[r].id] :
              cron_run_log[job[r].id][n].ran_at <= outcome[r].ran_at

LogInv == LogBounded /\ LogInOrder

LEMMA NextLogInv == IInv /\ IInv' /\ LogInv /\ [Next]_vars => LogInv'
<1> SUFFICES ASSUME IInv, IInv', LogInv, [Next]_vars PROVE LogInv'
  OBVIOUS
<1>t. TypeOK /\ TypeOK' /\ RowsKnown /\ LockHeld /\ LogBounded /\ LogInOrder
  BY DEF IInv, LogInv
<1>1. ASSUME NEW r \in Runners,
             StartCli(r) \/ StartRunNow(r) \/ Find(r) \/ EndPass(r)
      PROVE  LogInv'
  <2>1. /\ UNCHANGED <<now, cron_run_log, job, outcome>>
        /\ pc'[r] \notin {"save", "log"}
        /\ \A s \in Runners \ {r} : pc'[s] = pc[s]
    BY <1>t, <1>1 DEF TypeOK, StartCli, StartRunNow, Find, EndPass, Goto
  <2> QED
    BY <1>t, <2>1 DEF LogInv, LogBounded, LogInOrder
<1>2. ASSUME NEW r \in Runners, NEW row \in todo[r],
             Skip(r, row) \/ TakeLock(r, row)
      PROVE  LogInv'
  <2>1. CASE Skip(r, row)
    BY <1>t, <2>1 DEF LogInv, LogBounded, LogInOrder, Skip
  <2>2. CASE TakeLock(r, row)
    <3>1. /\ UNCHANGED <<now, cron_run_log, outcome>>
          /\ pc'[r] \notin {"save", "log"}
          /\ \A s \in Runners \ {r} : pc'[s] = pc[s] /\ job'[s] = job[s]
      BY <1>t, <2>2 DEF TypeOK, TakeLock, Visit, Goto
    <3> QED
      BY <1>t, <3>1 DEF LogInv, LogBounded, LogInOrder
  <2> QED BY <1>2, <2>1, <2>2
<1>3. ASSUME NEW r \in Runners, RunTask(r) PROVE LogInv'
  <2>1. /\ pc[r] = "task" /\ pc' = [pc EXCEPT ![r] = "save"]
        /\ UNCHANGED <<now, cron_run_log, job>>
        /\ \A s \in Runners \ {r} : outcome'[s] = outcome[s] /\ pc'[s] = pc[s]
        /\ outcome'[r].ran_at = now
    BY <1>t, <1>3 DEF TypeOK, RunTask, Goto
  <2>2. job[r].id \in Jobs
    BY <1>t, <2>1 DEF TypeOK, RowsKnown, Executing, Rows
  <2>3. now \in Nat
    BY <1>t, BoundsAssumption DEF TypeOK
  <2> QED
    BY <1>t, <2>1, <2>2, <2>3 DEF LogInv, LogBounded, LogInOrder
<1>4. ASSUME NEW r \in Runners, SaveJob(r) PROVE LogInv'
  <2>1. /\ UNCHANGED <<now, cron_run_log, outcome>>
        /\ \A s \in Runners : s # r => pc'[s] = pc[s] /\ job'[s] = job[s]
        /\ pc[r] = "save"
        /\ job' = [job EXCEPT ![r] = AfterRun(r)]
    BY <1>t, <1>4 DEF TypeOK, SaveJob, Goto
  <2>2. job'[r].id = job[r].id
    <3>1. job[r] \in Rows
      BY <1>t, <2>1 DEF TypeOK, RowsKnown, Executing
    <3> QED
      BY <1>t, <2>1, <3>1, AfterRunRow DEF TypeOK
  <2> QED
    BY <1>t, <2>1, <2>2 DEF LogInv, LogBounded, LogInOrder
<1>5. ASSUME NEW r \in Runners, SaveLog(r) PROVE LogInv'
  <2> DEFINE j == job[r].id
  <2> DEFINE log == cron_run_log[j]
  <2>1. /\ pc[r] = "log" /\ pc' = [pc EXCEPT ![r] = "unlock"]
        /\ UNCHANGED <<now, job, outcome>>
        /\ cron_run_log' = [cron_run_log EXCEPT ![j] = Append(log, outcome[r])]
    BY <1>5 DEF SaveLog, Goto
  <2>2. j \in Jobs
    BY <1>t, <2>1 DEF TypeOK, RowsKnown, Executing, Rows
  <2>3. log \in Seq(LogEntries) /\ outcome[r] \in LogEntries
    BY <1>t, <2>2 DEF TypeOK
  <2>4. \A s \in Runners \ {r} : pc[s] \in {"save", "log"} => job[s].id # j
    BY <1>t, <2>1 DEF LockHeld, Executing
  <2> DEFINE new == Append(log, outcome[r])
  <2>5. /\ DOMAIN new = DOMAIN log \cup {Len(log) + 1}
        /\ Len(log) \in Nat
        /\ DOMAIN log = 1..Len(log)
        /\ new[Len(log) + 1] = outcome[r]
        /\ \A n \in DOMAIN log : new[n] = log[n]
    BY <2>3, SMTT(40)
  <2>6. /\ \A n \in DOMAIN log : log[n].ran_at <= outcome[r].ran_at
        /\ outcome[r].ran_at <= now
        /\ \A n \in DOMAIN log : log[n].ran_at <= now
        /\ outcome[r].ran_at \in Nat
    BY <1>t, <2>1, <2>2, <2>3 DEF LogBounded, LogEntries
  <2>7. \A m, n \in DOMAIN new : m <= n => new[m].ran_at <= new[n].ran_at
    <3> SUFFICES ASSUME NEW m \in DOMAIN new, NEW n \in DOMAIN new, m <= n
                 PROVE  new[m].ran_at <= new[n].ran_at
      OBVIOUS
    <3>1. CASE n = Len(log) + 1
      <4>1. CASE m = Len(log) + 1
        BY <2>5, <2>6, <3>1, <4>1
      <4>2. CASE m \in DOMAIN log
        BY <2>5, <2>6, <3>1, <4>2
      <4> QED BY <2>5, <4>1, <4>2
    <3>2. CASE n \in DOMAIN log
      <4>1. m \in DOMAIN log
        BY <2>5, <3>2
      <4>2. log[m].ran_at <= log[n].ran_at
        BY <1>t, <2>2, <3>2, <4>1 DEF LogInOrder
      <4> QED BY <2>5, <3>2, <4>1, <4>2
    <3> QED BY <2>5, <3>1, <3>2
  <2>8. \A n \in DOMAIN new : new[n].ran_at <= now
    BY <2>5, <2>6
  <2>9. /\ cron_run_log'[j] = new
        /\ \A k \in Jobs \ {j} : cron_run_log'[k] = cron_run_log[k]
    BY <1>t, <2>1, <2>2 DEF TypeOK
  <2> HIDE DEF new, log
  <2>10. LogInOrder'
    BY <1>t, <2>2, <2>7, <2>9 DEF LogInOrder
  <2>11. LogBounded'
    <3>1. \A k \in Jobs : \A n \in DOMAIN cron_run_log'[k] :
            cron_run_log'[k][n].ran_at <= now
      BY <1>t, <2>2, <2>8, <2>9 DEF LogBounded
    <3>2. ASSUME NEW s \in Runners, pc'[s] \in {"save", "log"}
          PROVE  /\ s # r /\ pc[s] \in {"save", "log"}
                 /\ job[s].id \in Jobs \ {j}
      <4>1. s # r /\ pc[s] \in {"save", "log"}
        BY <1>t, <2>1, <3>2 DEF TypeOK
      <4> QED
        BY <1>t, <2>4, <4>1 DEF TypeOK, RowsKnown, Executing, Rows
    <3> QED
      BY <1>t, <2>1, <2>9, <3>1, <3>2, SMTT(40) DEF LogBounded
  <2> QED BY <2>10, <2>11 DEF LogInv
<1>6. ASSUME NEW r \in Runners, Unlock(r) \/ Abort(r) PROVE LogInv'
  <2> DEFINE Left == /\ UNCHANGED <<now, cron_run_log>>
                     /\ pc'[r] \notin {"save", "log"}
                     /\ \A s \in Runners \ {r} :
                          /\ pc'[s] = pc[s]
                          /\ job'[s] = job[s]
                          /\ outcome'[s] = outcome[s]
  <2>1. Left
    <3>1. CASE Unlock(r)
      BY <1>t, <3>1 DEF TypeOK, Unlock, Goto
    <3>2. CASE Abort(r)
      BY <1>t, <3>2 DEF TypeOK, Abort
    <3> QED BY <1>6, <3>1, <3>2
  <2> QED
    BY <1>t, <2>1 DEF LogInv, LogBounded, LogInOrder
<1>7. ASSUME UNCHANGED <<now, cron_run_log, runnerVars>> PROVE LogInv'
  BY <1>t, <1>7 DEF runnerVars, LogInv, LogBounded, LogInOrder
<1>8. ASSUME Tick PROVE LogInv'
  <2>1. /\ now \in Nat /\ now' = now + 1
        /\ UNCHANGED <<cron_run_log, pc, job, outcome>>
    BY <1>t, <1>8, BoundsAssumption DEF Tick, TypeOK, runnerVars
  <2>2. /\ \A j \in Jobs : \A n \in DOMAIN cron_run_log[j] :
             cron_run_log[j][n].ran_at \in Nat
        /\ \A r \in Runners : outcome[r].ran_at \in Nat
    <3>1. ASSUME NEW j \in Jobs, NEW n \in DOMAIN cron_run_log[j]
          PROVE  cron_run_log[j][n].ran_at \in Nat
      <4>1. cron_run_log[j] \in Seq(LogEntries)
        BY <1>t DEF TypeOK
      <4>2. cron_run_log[j][n] \in LogEntries
        BY <4>1
      <4> QED BY <4>2 DEF LogEntries
    <3>2. \A r \in Runners : outcome[r].ran_at \in Nat
      BY <1>t DEF TypeOK, LogEntries
    <3> QED BY <3>1, <3>2
  <2> QED
    BY <1>t, <2>1, <2>2 DEF LogInv, LogBounded, LogInOrder
<1>9. ASSUME NEW a \in Admins, AdminStep(a) PROVE LogInv'
  BY <1>7, <1>9 DEF AdminStep, Create, LoadOne, LoadMany, SaveEdit, SetCronMode
<1>10. CASE UNCHANGED vars
  BY <1>7, <1>10 DEF vars, runnerVars
<1> QED
  BY <1>1, <1>2, <1>3, <1>4, <1>5, <1>6, <1>8, <1>9, <1>10 DEF Next, RunnerStep

(* cron_run_log lists a job's runs in the order they ended.                *)
THEOREM RunLogOrdered == Spec => []LogInOrder
<1>1. Init => LogInv
  BY DEF Init, LogInv, LogBounded, LogInOrder
<1>2. LogInv => LogInOrder
  BY DEF LogInv
<1> QED
  BY <1>1, <1>2, NextLogInv, InvariantHolds, PTL DEF Spec

(***************************************************************************)
(* Refinement.                                                             *)
(***************************************************************************)
LEMMA SerialStep ==
  IInv /\ IInv' /\ [Next]_vars => [Serial!Next]_(Serial!vars)
<1> SUFFICES ASSUME IInv, IInv', [Next]_vars
             PROVE  Serial!Next \/ UNCHANGED Serial!vars
  OBVIOUS
<1> DEFINE E == [j \in Jobs |-> Executors(j)]
<1>t. TypeOK /\ TypeOK' /\ RowsKnown /\ LockHeld
  BY DEF IInv
<1>e. ASSUME NEW r \in Runners, pc[r] \in Executing
      PROVE  /\ job[r].id \in Jobs
             /\ E[job[r].id] = {r}
             /\ \A k \in Jobs \ {job[r].id} : r \notin E[k]
  <2>1. job[r].id \in Jobs
    BY <1>t, <1>e DEF TypeOK, RowsKnown, Rows
  <2>2. r \in Executors(job[r].id)
    BY <1>e DEF Executors
  <2>3. ASSUME NEW s \in Executors(job[r].id) PROVE s = r
    BY <1>t, <1>e DEF LockHeld, Executors
  <2> QED BY <2>1, <2>2, <2>3 DEF Executors
<1>u. ASSUME NEW r \in Runners, cron_run_log' = cron_run_log,
             \A s \in Runners \ {r} : pc'[s] = pc[s] /\ job'[s] = job[s],
             \/ pc[r] \notin Executing /\ pc'[r] \notin Executing
             \/ /\ pc[r] \in Executing /\ pc'[r] \in Executing
                /\ job'[r].id = job[r].id
      PROVE  UNCHANGED Serial!vars
  <2>1. ASSUME NEW j \in Jobs PROVE Executors(j)' = Executors(j)
    BY <1>u DEF Executors
  <2> QED BY <1>u, <2>1 DEF Serial!vars
<1>1. ASSUME NEW r \in Runners,
             StartCli(r) \/ StartRunNow(r) \/ Find(r) \/ EndPass(r)
      PROVE  UNCHANGED Serial!vars
  <2>1. /\ cron_run_log' = cron_run_log
        /\ \A s \in Runners \ {r} : pc'[s] = pc[s] /\ job'[s] = job[s]
        /\ pc[r] \notin Executing /\ pc'[r] \notin Executing
    BY <1>t, <1>1 DEF TypeOK, StartCli, StartRunNow, Find, EndPass, Goto, Executing
  <2> QED BY <1>u, <2>1
<1>2. ASSUME NEW r \in Runners, NEW row \in todo[r], Skip(r, row)
      PROVE  UNCHANGED Serial!vars
  BY <1>2 DEF Skip, Serial!vars, Executors
<1>3. ASSUME NEW r \in Runners, NEW row \in todo[r], TakeLock(r, row)
      PROVE  Serial!Begin(r, row.id)
  <2>1. row \in Rows /\ row.id \in Jobs
    BY <1>t DEF TypeOK, Rows
  <2>2. /\ pc[r] = "loop" /\ pc'[r] = "task" /\ job'[r] = row
        /\ \A s \in Runners \ {r} : pc'[s] = pc[s] /\ job'[s] = job[s]
        /\ lock[row.id] = Free /\ cron_run_log' = cron_run_log
    BY <1>t, <1>3, <2>1 DEF TypeOK, TakeLock, Visit, Goto
  <2>3. Executors(row.id) = {}
    BY <1>t, <2>2, NullsAssumption DEF LockHeld, Executors
  <2>4. Executors(row.id)' = {r}
    BY <2>2, <2>3 DEF Executors, Executing
  <2>5. ASSUME NEW k \in Jobs \ {row.id} PROVE Executors(k)' = Executors(k)
    BY <2>2 DEF Executors, Executing
  <2>6. E' = [E EXCEPT ![row.id] = {r}]
    BY <2>1, <2>4, <2>5
  <2>7. E[row.id] = {}
    BY <2>1, <2>3
  <2> QED BY <2>2, <2>6, <2>7 DEF Serial!Begin
<1>4. ASSUME NEW r \in Runners, RunTask(r) PROVE UNCHANGED Serial!vars
  <2>1. /\ cron_run_log' = cron_run_log /\ job' = job
        /\ \A s \in Runners \ {r} : pc'[s] = pc[s]
        /\ pc[r] \in Executing /\ pc'[r] \in Executing
    BY <1>t, <1>4 DEF TypeOK, RunTask, Goto, Executing
  <2> QED BY <1>u, <2>1
<1>5. ASSUME NEW r \in Runners, SaveJob(r) PROVE UNCHANGED Serial!vars
  <2>1. /\ cron_run_log' = cron_run_log
        /\ \A s \in Runners \ {r} : pc'[s] = pc[s] /\ job'[s] = job[s]
        /\ pc[r] \in Executing /\ pc'[r] \in Executing
        /\ job'[r] = AfterRun(r)
    BY <1>t, <1>5 DEF TypeOK, SaveJob, Goto, Executing
  <2>2. job'[r].id = job[r].id
    <3>1. job[r] \in Rows
      BY <1>t, <2>1 DEF TypeOK, RowsKnown
    <3> QED BY <1>t, <2>1, <3>1, AfterRunRow
  <2> QED BY <1>u, <2>1, <2>2
<1>6. ASSUME NEW r \in Runners, SaveLog(r) PROVE Serial!Record(r, job[r].id)
  <2> DEFINE j == job[r].id
  <2>1. /\ pc[r] = "log" /\ pc' = [pc EXCEPT ![r] = "unlock"] /\ job' = job
        /\ cron_run_log' = [cron_run_log EXCEPT ![j] =
                              Append(cron_run_log[j], outcome[r])]
    BY <1>6 DEF SaveLog, Goto
  <2>2. j \in Jobs /\ E[j] = {r}
    BY <1>e, <2>1 DEF Executing
  <2>3. E' = E
    <3>1. ASSUME NEW k \in Jobs PROVE Executors(k)' = Executors(k)
      BY <1>t, <2>1 DEF Executors, Executing, TypeOK
    <3> QED BY <3>1
  <2>4. cron_run_log[j] \in Seq(LogEntries) /\ outcome[r] \in LogEntries
    BY <1>t, <2>2 DEF TypeOK
  <2>5. cron_run_log'[j] = Append(cron_run_log[j], outcome[r])
    BY <1>t, <2>1, <2>2 DEF TypeOK
  <2>6. /\ Len(cron_run_log'[j]) = Len(cron_run_log[j]) + 1
        /\ cron_run_log'[j][Len(cron_run_log[j]) + 1] = outcome[r]
    BY <2>4, <2>5
  <2> HIDE DEF j
  <2> QED BY <2>1, <2>2, <2>3, <2>4, <2>6 DEF Serial!Record, j
<1>7. ASSUME NEW r \in Runners, Unlock(r) \/ (Abort(r) /\ pc[r] \in Executing)
      PROVE  Serial!End(r, job[r].id)
  <2>1. /\ cron_run_log' = cron_run_log
        /\ pc[r] \in Executing /\ pc'[r] \notin Executing
        /\ \A s \in Runners \ {r} : pc'[s] = pc[s] /\ job'[s] = job[s]
    <3>1. CASE Unlock(r)
      BY <1>t, <3>1 DEF TypeOK, Unlock, Goto, Executing
    <3>2. CASE Abort(r) /\ pc[r] \in Executing
      BY <1>t, <3>2 DEF TypeOK, Abort, Executing
    <3> QED BY <1>7, <3>1, <3>2
  <2>2. job[r].id \in Jobs /\ E[job[r].id] = {r}
    BY <1>e, <2>1
  <2>3. ASSUME NEW k \in Jobs
        PROVE  Executors(k)' = IF k = job[r].id THEN {} ELSE Executors(k)
    <3>1. Executors(k)' = Executors(k) \ {r}
      BY <2>1 DEF Executors
    <3>2. k = job[r].id => Executors(k) = {r}
      BY <2>2
    <3>3. k # job[r].id => r \notin Executors(k)
      BY DEF Executors
    <3> QED BY <3>1, <3>2, <3>3
  <2>4. E' = [E EXCEPT ![job[r].id] = {}]
    BY <2>2, <2>3
  <2> QED BY <2>1, <2>2, <2>4 DEF Serial!End
<1>8. ASSUME NEW r \in Runners, Abort(r), pc[r] \notin Executing
      PROVE  UNCHANGED Serial!vars
  <2>1. /\ cron_run_log' = cron_run_log
        /\ \A s \in Runners \ {r} : pc'[s] = pc[s] /\ job'[s] = job[s]
        /\ pc'[r] \notin Executing
    BY <1>t, <1>8 DEF TypeOK, Abort, Executing
  <2> QED BY <1>u, <1>8, <2>1
<1>9. ASSUME UNCHANGED <<cron_run_log, runnerVars>>
      PROVE  UNCHANGED Serial!vars
  BY <1>9 DEF runnerVars, Serial!vars, Executors
<1>10. ASSUME NEW a \in Admins, AdminStep(a) PROVE UNCHANGED Serial!vars
  BY <1>9, <1>10 DEF AdminStep, Create, LoadOne, LoadMany, SaveEdit, SetCronMode
<1>11. CASE Tick \/ UNCHANGED vars
  BY <1>9, <1>11 DEF Tick, vars, runnerVars
<1>12. ASSUME NEW r \in Runners, NEW j \in Jobs,
              Serial!Begin(r, j) \/ Serial!Record(r, j) \/ Serial!End(r, j)
       PROVE  Serial!Next
  BY <1>12 DEF Serial!Next
<1>13. \A r \in Runners : \A row \in todo[r] : row.id \in Jobs
  BY <1>t DEF TypeOK, Rows
<1>14. \A r \in Runners : SaveLog(r) \/ Unlock(r) => pc[r] \in Executing
  BY DEF SaveLog, Unlock, Goto, Executing
<1> QED
  BY <1>e, <1>1, <1>2, <1>3, <1>4, <1>5, <1>6, <1>7, <1>8, <1>10, <1>11, <1>12,
     <1>13, <1>14 DEF Next, RunnerStep

(* The runner implements SerialExecutions: a job's executions follow one   *)
(* another, each recorded only by the process that makes it.               *)
THEOREM RunnerIsSerial == Spec => SerialSpec
<1>1. Init => Serial!Init
  <2>1. ASSUME Init, NEW j \in Jobs PROVE Executors(j) = {}
    BY <2>1 DEF Init, Executors, Executing
  <2> QED BY <2>1 DEF Init, Serial!Init
<1> QED
  BY <1>1, SerialStep, InvariantHolds, PTL DEF Spec, SerialSpec, Serial!Spec

(***************************************************************************)
(* The schedule after a run.                                               *)
(***************************************************************************)
(* Only SaveJob takes a runner from its task to the log, with the row it   *)
(* holds and the row that is stored of the same, known job.                *)
LEMMA SaveStep ==
  ASSUME IInv, [Next]_vars, NEW r \in Runners, pc[r] = "save", pc'[r] = "log"
  PROVE  /\ job[r] \in Rows /\ job[r].id \in Jobs
         /\ cron_jobs[job[r].id] \in Rows
         /\ outcome[r] \in LogEntries
         /\ cron_jobs' = [cron_jobs EXCEPT ![job[r].id] =
                            Stored(@, job[r], AfterRun(r))]
         /\ job'[r].id = job[r].id
<1>t. TypeOK /\ RowsKnown
  BY DEF IInv
<1>1. SaveJob(r)
  <2>1. ASSUME NEW s \in Runners, StartCli(s) \/ StartRunNow(s) \/ RunnerStep(s)
        PROVE  s = r
    BY <1>t, <2>1 DEF TypeOK, StartCli, StartRunNow, RunnerStep, Find, Skip,
       TakeLock, Visit, RunTask, SaveJob, SaveLog, Unlock, EndPass, Goto
  <2>2. ASSUME NEW s \in Runners, Abort(s) PROVE FALSE
    BY <1>t, <2>2 DEF TypeOK, Abort
  <2>3. ASSUME NEW a \in Admins, AdminStep(a) PROVE FALSE
    BY <2>3 DEF AdminStep, Create, LoadOne, LoadMany, SaveEdit, SetCronMode,
       runnerVars
  <2>4. CASE Tick \/ UNCHANGED vars
    BY <2>4 DEF Tick, vars, runnerVars
  <2>5. ASSUME StartCli(r) \/ StartRunNow(r) \/ RunnerStep(r)
        PROVE  SaveJob(r)
    BY <1>t, <2>5 DEF TypeOK, StartCli, StartRunNow, RunnerStep, Find, Skip,
       TakeLock, Visit, RunTask, SaveLog, Unlock, EndPass, Goto
  <2> QED
    BY <2>1, <2>2, <2>3, <2>4, <2>5 DEF Next
<1>2. job[r] \in Rows /\ job[r].id \in Jobs /\ cron_jobs[job[r].id] \in Rows
  BY <1>t DEF TypeOK, RowsKnown, Executing, Rows
<1>3. job'[r] = AfterRun(r) /\ AfterRun(r).id = job[r].id
  BY <1>t, <1>1, <1>2, AfterRunRow DEF TypeOK, SaveJob
<1> QED
  BY <1>t, <1>1, <1>2, <1>3 DEF TypeOK, SaveJob

(* Saves that write every column leave a job that is not due at the time   *)
(* its run ended, whoever changed the row in between.                      *)
THEOREM RunsSettle ==
  ASSUME FullRowSave PROVE Spec => NoCatchUp
<1>1. ASSUME IInv, [Next]_vars, NEW r \in Runners, pc[r] = "save", pc'[r] = "log"
      PROVE  ~IsDue(cron_jobs'[job[r].id], outcome[r].ran_at)
  <2>1. /\ job[r] \in Rows /\ job[r].id \in Jobs
        /\ outcome[r] \in LogEntries
        /\ cron_jobs' = [cron_jobs EXCEPT ![job[r].id] =
                           Stored(@, job[r], AfterRun(r))]
    BY <1>1, SaveStep
  <2>2. cron_jobs \in [Jobs -> Rows \cup {NoRow}]
    BY <1>1 DEF IInv, TypeOK
  <2>3. cron_jobs'[job[r].id] = AfterRun(r)
    BY <2>1, <2>2 DEF Stored
  <2>4. outcome[r].ran_at \in Nat /\ outcome[r].status \in Statuses
    BY <2>1 DEF LogEntries
  <2>5. ~IsDue(AfterRun(r), outcome[r].ran_at)
    BY <2>1, <2>4, AnchorSettles DEF AfterRun
  <2> QED
    BY <2>3, <2>5
<1>2. IInv /\ [Next]_vars =>
        [\A r \in Runners :
           pc[r] = "save" /\ pc'[r] = "log" =>
             ~IsDue(cron_jobs'[job[r].id], outcome[r].ran_at)]_vars
  BY <1>1
<1> QED
  BY <1>2, InvariantHolds, PTL DEF Spec, NoCatchUp

(* A run that nobody overtook keeps the job's clock time.                  *)
THEOREM JobsKeepClockTime == Spec => NoDrift
<1> DEFINE Kept(r) ==
      LET j == job[r].id IN
      /\ pc[r] = "save" /\ pc'[r] = "log"
      /\ cron_jobs[j] = job[r]
      /\ HasRun(j) /\ cron_jobs[j].frequency # Unparseable
      =>
        \/ LastRun(j)' = LastRun(j) + cron_jobs[j].frequency
        \/ LastRun(j)' >= LastRun(j) + 2 * cron_jobs[j].frequency
<1>1. ASSUME IInv, [Next]_vars, NEW r \in Runners PROVE Kept(r)
  <2> DEFINE row == job[r]
  <2> DEFINE next == NextAnchor(row, outcome[r].ran_at)
  <2> SUFFICES ASSUME pc[r] = "save", pc'[r] = "log", cron_jobs[row.id] = row,
                      HasRun(row.id), cron_jobs[row.id].frequency # Unparseable
               PROVE  \/ LastRun(row.id)' = row.last_run_at + row.frequency
                      \/ LastRun(row.id)' >= row.last_run_at + 2 * row.frequency
    BY DEF LastRun
  <2>1. /\ row \in Rows /\ row.id \in Jobs
        /\ outcome[r] \in LogEntries
        /\ cron_jobs' = [cron_jobs EXCEPT ![row.id] = Stored(@, row, AfterRun(r))]
    BY <1>1, SaveStep
  <2>2. cron_jobs \in [Jobs -> Rows \cup {NoRow}]
    BY <1>1 DEF IInv, TypeOK
  <2>3. AfterRun(r).last_run_at = next
    BY <2>1 DEF AfterRun, Rows
  <2>4. Stored(row, row, AfterRun(r)).last_run_at = AfterRun(r).last_run_at
    BY DEF Stored
  <2>5. LastRun(row.id)' = next
    <3>1. cron_jobs'[row.id] = Stored(row, row, AfterRun(r))
      <4>1. cron_jobs' = [cron_jobs EXCEPT ![row.id] =
                           Stored(cron_jobs[row.id], row, AfterRun(r))]
        BY <2>1
      <4> HIDE DEF row
      <4> QED
        BY <2>1, <2>2, <4>1
    <3> QED
      BY <1>1, <2>3, <2>4, <3>1, SaveStep DEF LastRun
  <2>6. row.last_run_at # Never /\ row.frequency # Unparseable
    BY DEF HasRun
  <2>7. outcome[r].ran_at \in Nat
    BY <2>1 DEF LogEntries
  <2> QED
    BY <2>1, <2>5, <2>6, <2>7, AnchorKeepsClockTime
<1>2. IInv /\ [Next]_vars => [\A r \in Runners : Kept(r)]_vars
  BY <1>1
<1> QED
  BY <1>2, InvariantHolds, PTL DEF Spec, NoDrift
=============================================================================
