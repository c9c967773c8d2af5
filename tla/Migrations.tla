----------------------------- MODULE Migrations -----------------------------
(* `./run migrate run` (MigrateTask): the migration files of the base and  *)
(* of the installed modules, applied in order, each recorded in            *)
(* schema_migrations.                                                      *)
(*                                                                         *)
(* Several runs may be under way (a deploy's and an operator's). A file is *)
(* a number of statements, some of which fail when they are executed a     *)
(* second time (CREATE TABLE) and some of which do not (INSERT, UPDATE).   *)
(* On PostgreSQL and SQLite a file and its record are one transaction; on  *)
(* MySQL every statement commits.                                          *)
EXTENDS Naturals

CONSTANTS
  Files,       \* the files on disk
  Position,    \* per file, its place in migrationFiles(): base, then modules by
               \* key, each by file name
  Version,     \* per file, its name without the module's key
  Length,      \* per file, its number of statements
  Adapters,    \* subset of {"postgresql", "sqlite", "mysql"}
  Processes,   \* runs of the command
  MaxRuns,     \* bound: times the command is started
  MaxFaults    \* bound: crashes, and statements that fail

ASSUME FilesAssumption ==
  /\ Position \in [Files -> Nat]
  /\ \A f, g \in Files : Position[f] = Position[g] => f = g
  /\ Length \in [Files -> Nat \ {0}]
  /\ MaxRuns \in Nat /\ MaxFaults \in Nat

Statements == UNION {{f} \X (1..Length[f]) : f \in Files}

VARIABLES
  adapter,            \* config.database.adapter
  schema_migrations,  \* the files recorded as applied
  executed,           \* per statement, how often its effect has been committed
  run,                \* per process, its local state
  raced,              \* history: two runs have been under way at once
  runs, faults        \* counted against MaxRuns and MaxFaults

vars == <<adapter, schema_migrations, executed, run, raced, runs, faults>>

(* todo: the pending files; next: the statement to execute; tx: the        *)
(* statements the open transaction has executed; recording: it has also    *)
(* recorded the file; failed: the last run ended with an error.            *)
RunStates ==
  [pc: {"idle", "pending", "apply", "record", "commit"},
   todo: SUBSET Files, next: Nat, tx: SUBSET Statements, recording: BOOLEAN,
   failed: BOOLEAN]

Idle == [pc |-> "idle", todo |-> {}, next |-> 1, tx |-> {},
         recording |-> FALSE, failed |-> FALSE]

Failed == [Idle EXCEPT !.failed = TRUE]

TypeOK ==
  /\ adapter \in Adapters
  /\ schema_migrations \in SUBSET Files
  /\ executed \in [Statements -> Nat]
  /\ run \in [Processes -> RunStates]
  /\ \A p \in Processes :
       run[p].todo = {} <=> run[p].pc \in {"idle", "pending"}
  /\ raced \in BOOLEAN
  /\ runs \in 0..MaxRuns
  /\ faults \in 0..MaxFaults

Init ==
  /\ adapter \in Adapters
  /\ schema_migrations = {}
  /\ executed = [s \in Statements |-> 0]
  /\ run = [p \in Processes |-> Idle]
  /\ raced = FALSE
  /\ runs = 0
  /\ faults = 0

Transactional == adapter # "mysql"

NoFault == UNCHANGED faults
Fault == faults < MaxFaults /\ faults' = faults + 1

-----------------------------------------------------------------------------
(* runAction(): the table is there, and what it holds is compared with the *)
(* files; what is pending is kept for the whole run.                       *)
Start(p) ==
  /\ run[p].pc = "idle"
  /\ runs < MaxRuns
  /\ runs' = runs + 1
  /\ raced' = (raced \/ \E q \in Processes : run[q].pc # "idle")
  /\ run' = [run EXCEPT ![p] = [Idle EXCEPT !.pc = "pending"]]
  /\ UNCHANGED <<adapter, schema_migrations, executed, faults>>

(* Mutant of Pending: every file, applied or not.                          *)
Pending_Everything == Files

(* pendingMigrations().                                                    *)
Pending == Files \ schema_migrations

ReadPending(p) ==
  /\ run[p].pc = "pending"
  /\ run' = [run EXCEPT
               ![p] = IF Pending = {} THEN Idle
                      ELSE [run[p] EXCEPT !.pc = "apply", !.todo = Pending]]
  /\ NoFault
  /\ UNCHANGED <<adapter, schema_migrations, executed, raced, runs>>

(* They are applied in the order of migrationFiles().                      *)
First(todo) == CHOOSE f \in todo : \A g \in todo : Position[f] <= Position[g]

File(p) == First(run[p].todo)
Statement(p) == <<File(p), run[p].next>>

(* On to the next file, or the end of the run.                             *)
NextFile(p) ==
  IF run[p].todo = {File(p)} THEN Idle
  ELSE [Idle EXCEPT !.pc = "apply", !.todo = run[p].todo \ {File(p)}]

(* Mutant of Stop: the run goes on with the next file.                     *)
Stop_GoesOn(p) == run' = [run EXCEPT ![p] = NextFile(p)]

(* The catch block: the transaction is rolled back and the run ends.       *)
Stop(p) == run' = [run EXCEPT ![p] = Failed]

(* Another run has done this in a transaction that is still open: the      *)
(* database lets this one wait for it, refuses, or lets both go on.        *)
Contended(p, statement) ==
  \E q \in Processes \ {p} : statement \in run[q].tx

(* executeScript(): the next statement of the file. It may fail where its  *)
(* effect is there already.                                                *)
Execute(p) ==
  /\ run[p].pc = "apply"
  /\ \/ /\ run' = [run EXCEPT
                     ![p] = [run[p] EXCEPT
                               !.pc = IF run[p].next = Length[File(p)]
                                      THEN "record" ELSE "apply",
                               !.next = run[p].next + 1,
                               !.tx = IF Transactional
                                      THEN run[p].tx \cup {Statement(p)} ELSE {}]]
        /\ executed' = IF Transactional THEN executed
                       ELSE [executed EXCEPT ![Statement(p)] = @ + 1]
        /\ NoFault
     \/ /\ executed[Statement(p)] > 0 \/ Contended(p, Statement(p))
        /\ Stop(p)
        /\ NoFault
        /\ UNCHANGED executed
     \/ /\ Fault
        /\ Stop(p)
        /\ UNCHANGED executed
  /\ UNCHANGED <<adapter, schema_migrations, raced, runs>>

(* The primary key of schema_migrations is `version` alone.                *)
Taken(version) == \E f \in schema_migrations : Version[f] = version

(* The version another run has inserted in an open transaction is locked.  *)
VersionLocked(p, version) ==
  \E q \in Processes \ {p} : run[q].recording /\ Version[File(q)] = version

Insert(p) ==
  IF Transactional
  THEN /\ run' = [run EXCEPT ![p] = [run[p] EXCEPT !.pc = "commit",
                                                   !.recording = TRUE]]
       /\ UNCHANGED schema_migrations
  ELSE /\ schema_migrations' = schema_migrations \cup {File(p)}
       /\ run' = [run EXCEPT ![p] = NextFile(p)]

(* Mutant of Record: the file's transaction ends before it is recorded.    *)
Record_Outside(p) ==
  /\ run[p].pc = "record"
  /\ schema_migrations' = schema_migrations \cup {File(p)}
  /\ run' = [run EXCEPT ![p] = [run[p] EXCEPT !.pc = "commit"]]
  /\ NoFault
  /\ UNCHANGED <<adapter, executed, raced, runs>>

(* The INSERT into schema_migrations, in the same transaction.             *)
Record(p) ==
  /\ run[p].pc = "record"
  /\ ~ VersionLocked(p, Version[File(p)])
  /\ \/ /\ ~ Taken(Version[File(p)])
        /\ Insert(p)
        /\ NoFault
     \/ /\ Taken(Version[File(p)])
        /\ Stop(p)
        /\ NoFault
        /\ UNCHANGED schema_migrations
     \/ /\ Fault
        /\ Stop(p)
        /\ UNCHANGED schema_migrations
  /\ UNCHANGED <<adapter, executed, raced, runs>>

Commit(p) ==
  /\ run[p].pc = "commit"
  /\ \/ /\ schema_migrations' = schema_migrations \cup {File(p)}
        /\ executed' = [s \in Statements |->
                          executed[s] + IF s \in run[p].tx THEN 1 ELSE 0]
        /\ run' = [run EXCEPT ![p] = NextFile(p)]
        /\ NoFault
     \/ /\ Fault
        /\ Stop(p)
        /\ UNCHANGED <<schema_migrations, executed>>
  /\ UNCHANGED <<adapter, raced, runs>>

(* The process dies; an open transaction is rolled back.                   *)
Crash(p) ==
  /\ run[p].pc # "idle"
  /\ Fault
  /\ run' = [run EXCEPT ![p] = Failed]
  /\ UNCHANGED <<adapter, schema_migrations, executed, raced, runs>>

Next ==
  \E p \in Processes :
    \/ Start(p)
    \/ ReadPending(p)
    \/ Execute(p)
    \/ Record(p)
    \/ Commit(p)
    \/ Crash(p)

Spec == Init /\ [][Next]_vars

-----------------------------------------------------------------------------
(* Where a file is a transaction, its statements and its record stand or   *)
(* fall together, and none is committed twice, however runs overlap and    *)
(* wherever they die.                                                      *)
WholeFileOnce ==
  Transactional =>
    \A s \in Statements :
      executed[s] = IF s[1] \in schema_migrations THEN 1 ELSE 0

(* On every database, a file is recorded only once all of it has been      *)
(* executed, and in the order of the files: "stops before touching later   *)
(* files".                                                                 *)
RecordedInOrder ==
  /\ \A s \in Statements : s[1] \in schema_migrations => executed[s] > 0
  /\ \A f, g \in Files :
       Position[f] < Position[g] /\ g \in schema_migrations
       => f \in schema_migrations

(* A run by itself fails only when a statement or the process does: files  *)
(* are "tracked separately by (module, version)" and cannot collide.       *)
FailsOnFaultsOnly ==
  ~ raced /\ faults = 0 => \A p \in Processes : ~ run[p].failed
=============================================================================
