# A verification project for app_skeleton

`app_skeleton` is a PHP application skeleton on Phalcon: a multi-module web
site (backend screens, frontend, an HTTP API) and a command line (`./run`),
over PostgreSQL, MySQL or SQLite. Module packages are installed beside it,
switched on and off, migrated and licensed. Nothing of it runs in one long
process: every request and every command is a process of its own, and what
they share is the database, a few files and the outside world. So its hard
behaviours are all of one kind: **two processes between whose queries a third
one steps, and a process that stops between two of its own statements.**

The TLA+ modules here model the parts of the system where that matters, at the
grain of the single query, file operation or outside call. TLC checks them on
small instances; TLAPS proves the most important properties for all instances.
`PROJECT.json` lists the parts, the runs, what each definition stands for in the
source, the hazards and the theorems.

Running things, from this directory:

    tlc -workers 2 -config Cron.cfg MCCronScheduler.tla
    tlapm CronSchedulerProofs.tla

## 1. Inventory

Paths are under `src/`; `CronRunner` and the like are in `app/common/library/`.

| Component | State it keeps | Operations | Hard because | Correct when |
|---|---|---|---|---|
| **Scheduled jobs**: `CronRunner`, the locks of `Db/SqliteAdapter`, `cli/tasks/CronTask`, `backend/controllers/CronController` | `cron_jobs`, `cron_run_log`, the `cron_mode` setting, an advisory lock per job | a tick from crontab, the Run-now button, create, update and bulk update on the screen | ticks overlap; a row is read, the task runs for minutes, the row is saved; a runner dies inside a task | a job never runs twice at once, keeps its clock time, does not catch up, is run when due |
| **Licensing**: `LicenseManager`, `backend/controllers/LicensesController` | `license_keys`, `license_key_assignments`, `license_entitlements`, one settings row for the daily check-in | check in one module or all of them, add, edit and remove a key, claim the day's check-in | a call to a licence server lies between reading and writing; keys go away meanwhile; page loads race for the day | a refusal never undoes a success; a licence rests on a key that is stored; listeners know; one check-in a day |
| **Module registry**: `ModuleManager`, `cli/tasks/ModulesTask`, `backend/controllers/ConfigurationController` | `module_registry`, manifests on disk | order, load, enable with bundles, disable with dependents, sync | several rows are changed one by one; graphs with cycles, missing and malformed packages | exactly what can run is loaded; nothing enabled stands above something that is off |
| **Encrypted columns**: `Crypto`, `cli/tasks/CryptoTask` | the key file, stash files, encrypted columns | encrypt and decrypt, `rekey` | a file, another file and a transaction must move together | no crash strands the data |
| **Migrations**: `cli/tasks/MigrateTask` | `schema_migrations`, the schema | run, status | deploys overlap; DDL commits on MySQL | each file once, whole, in order |
| **API keys**: `ApiKeyAuth`, `api/controllers/ProvisionController`, `backend/controllers/ApiKeysController` | `api_keys`, `users.is_active` | authenticate, issue, rotate, confirm, deactivate, create, revoke | answers get lost; rows are read, changed and saved whole | an interrupted rotation locks nobody out while its grace lasts; an old key dies as told; deactivated is revoked |
| **Tickets**: `api/…/TicketsController`, `PublicIntakeController`, `backend/…/TicketTriageActions`, `TicketMessageActions`, `frontend/…/TicketsController` | `tickets`, `ticket_messages` | fifteen kinds of change behind four doors | four columns that tell of a close are set by hand in each handler; whole rows saved | a close is told as a whole; a follow-up reopens; the QA queue is left by a check, a reopening or a deletion; claims do not steal |
| **Ticket attachments**: the same controllers, `TicketAttachmentActions` | `ticket_attachments`, files | three uploads, two removals | a row and a file without a transaction; retries; limits that count first; a ticket that was found and is deleted meanwhile | what is listed can be downloaded and is of the staff or the reporter; nothing is left behind |
| **Audit log**: `Audit`, `cli/tasks/AuditTask`, `AuditLogController` | `audit_log`, `audit_log_archive` | record an insert, update, delete or event; reverse; archive | an entry and its change are not one transaction; reversing out of order, twice, or after the archive took an entry | the log tells what became of a row; a reversal undoes its change, once; no entry is lost |
| **Accounts and sign-in**: `Auth`, `UsersController`, `RolesController`, `SignupController`, `PasswordController`, `AccountController`, `api/…/ProvisionController`, `UserRoles` | `users`, `user_roles`, `roles`, the session, password tokens | create, edit, delete, provision, deactivate, sign up, edit a profile, send and use a password link, delete a role, sign in | a user's roles are in two tables, saved one after the other; the last-administrator guard counts and then writes; sessions keep roles | a user has the roles that were posted; an administrator remains; provisioning spares administrators; a used link is refused |
| **Knowledge base** | articles and their states | draft, review, publish | shared editing | what is public was reviewed |
| **Backups**: `BackupTask` | dump files | run, prune | outside commands | the newest are kept |
| **Settings**, **error and system logs**, **outside services**, **PDF, Markdown and lists**, **database adapters** | little or none of their own | | | |

How they interact: the cron runner dispatches CLI tasks, among them the licence
check-in; enabling a module checks it in; a licence gates a module's pages; every
secret of licensing and of the connections goes through `Crypto`; the API's
controllers stand behind `ApiKeyAuth`; models with the audit hooks write
`audit_log` on every save. The calls go one way, and state is shared through the
tables only, which is why the components are modelled as modules of their own,
each with the processes that touch its tables. They compose where a component is
built from another: `ModuleRegistry` extends `ModuleOrder`; `CronScheduler`
instantiates `SerialExecutions` as what it promises; `LicensedDays` extends
`Licensing` and instantiates `DailyClaim`, with one clock and one set of callers, and
is proved to implement both.

## 2. The modules and the code

| Module | Models | Processes and steps |
|---|---|---|
| `SerialExecutions` | what the scheduler promises: a job's executions one at a time, each recorded by the one that runs it | begin, record, end |
| `CronScheduler` | `CronRunner`, the database's locks, the Cron screen | `StartCli`, `StartRunNow`, `Find`: the rows are read; `Skip`, `TakeLock`: `isDue()` and the lock; `RunTask`, `SaveJob`, `SaveLog`, `Unlock`, `EndPass`; `Create`, `LoadOne`, `LoadMany`, `SaveEdit` on the screen; `SetCronMode` on the Settings screen; `Abort`, a crash or an exception |
| `Licensing` | `checkInAll`, `checkIn`, `checkInModules`, `sync*`, `addKey`, `updateKey`, `removeKey` | a request asks the server, loads the row, plans the change, writes it, announces it, one step each; key tables are cached per request as in the code |
| `DailyClaim` | `dailyCheckInDue()`, `claimDay()` | UPDATE, SELECT and INSERT are steps; midnight |
| `LicensedDays` | `checkInAfterResponse()`, `checkInIfDue()`: the two together | a step of the claim, of a check-in, or `CheckInDue`, which ends one and begins the other; `DiesBeforeCheckIn`; midnight |
| `ModuleOrder` | `dependencyOrder()`, `loadableModuleKeys()`, manifest errors; pure, beside definitions of what they ought to return (`CanRun`, `OnCycle`) | |
| `ModuleRegistry` | `enableModule()`, `disableModule()`, `sync` | check, list, one UPDATE at a time, save |
| `Rekey` | `CryptoTask::rekey`, `Crypto::encrypt()`, the operator | read each secret, stash, update each, commit or roll back, truncate, write, verify; requests that generate a key, encrypt, save; `Restore` and `Discard` of a stash |
| `Migrations` | `MigrateTask::runAction()` | read the pending files, execute a statement, record, commit, per adapter |
| `ApiKeyRotation` | `ApiKeyAuth::resolve`, `ProvisionController`, `ApiKeysController`; not reversals of `api_keys` rows from the audit log | find, load each key, save each, issue, answer |
| `TicketTriage` | every handler that changes a ticket or stores a message; not reversals of `tickets` rows from the audit log | load, look a repeat up, insert, save each |
| `TicketAttachments` | uploads and removals, whatever the tickets do meanwhile (`TicketsMove`) | count, look up, write the file, insert the row, remove the row, unlink |
| `TicketDesk` | the two together | a step of a request about a ticket or of one about a file, which finds its ticket among those of `TicketTriage`; `CreateWithFile`, the customers' form that does both |
| `AuditTrail` | `Audit` (the hooks of models, `isReversible()`, `reverse()`), `AuditTask::archiveAction()` | a handler loads, records, saves, in the order of the hook; a reversal finds, checks, applies, records; the archive counts, copies and purges in a transaction, events first; entries that are not written, processes that die |
| `Accounts` | the handlers that write `users` or `user_roles`, the deletion of roles, and the session; not the check of an address by mail (`SignupController::verifyAction()`, one more whole-row save of a user), new and renamed roles, and reversals of such rows from the audit log | load and check, count, save the row, read the role set, sync it; `Expire` of a link |

Conventions. A variable named like a table is the table. `req`, `run`, `caller`,
`cmd` and `pc` hold what a process has in memory; `pc` names the statement it is at.
`stale`, `raced`, `disturbed`, `leftOut`, `beside`, `clean` and the like are history: no step of the
program reads them. A definition whose name has an underscore and a suffix
(`NextAnchor_FinishTime`) is a mutated form of the one it precedes: a plausible bug.
Model `save()`s write **every** column of the object, as it was read:
Phalcon does so unless a model asks for
dynamic updates, and `backend/models/LicenseEntitlements.php:22-29` is the only one
that does, so that no whole-row save undoes another check-in's success. `FullRowSave` is a constant where both are of interest, TRUE in
the configurations; all proofs but that of `RunsSettle`, which needs it, hold for both.

What is abstracted: names, text, hashes and secrets are model values; a time is
a number where two times are compared and a mark elsewhere; requests that are refused
for their arguments change nothing and are left out, unless the refusal is part
of a race; each module's header says what else.

## 3. The runs

Every passing run visits its whole state graph. Sizes are distinct states.

| Run | Checks | Bounds, and why they are enough |
|---|---|---|
| `cron` (1.1 M) | `NoOverlap`, `NoCatchUp`, `NoDrift`, refinement `SerialSpec`, liveness `DueJobsRun` | 1 job of frequency 2, a crontab runner, a Run-now request, an administrator with 1 edit, 4 minutes (two periods), 1 crash: a second runner starts before, during and after the first's task, its rows may be a whole run old, and an edit falls anywhere. Jobs share nothing, so one is enough |
| `lic_screen` (3.6 M) | `LicensedByStoredKey`, `ListenersKnow` | 3 requests of every kind one after the other, or 2 of which the second is a check-in of one module beside another check-in, or beside the removal of a key; two modules one of which borrows the other's keys, two keys, no grace: the shortest way to lose, move or replace the key that earned a licence takes two changes and a check-in. Neither property speaks of requests that die, or of a key changed beside another request; those are checked in `lic_day` |
| `lic_day` (4.5 M) | `OneClaimPerDay`, `ClaimedDayRenews`, `OnlySuccessMovesSuccess`, `LicenceKept` | 2 callers that claim the day or make requests, 3 requests, 1 module, 1 key, 2 days, 1 crash, a grace period of one day that can pass: success, refusal and outage meet in every order, with the row of the claim missing, NULL or old; a check-in of all modules asks any set of them, as modules that are not loadable are left out |
| `modules` (1.3 M) | `LoadsWhatCanRun`, `StaysConsistent`, `DisableClearsDependents` | 3 packages and one that is gone, every graph of a family with chains, diamonds, self-loops, cycles and bundles, every registry; 2 requests, 1 death |
| `rekey` (0.3 M) | `NoneStranded`, `ReadableAtRest`, `DataKept` | 2 secrets (some moved, some not), 3 keys, 2 stash names, 2 rekeys, 2 requests, 2 faults: a failure, and another during its repair |
| `migrate` (2.9 k) | `WholeFileOnce`, `RecordedInOrder`, `FailsOnFaultsOnly` | 3 files of 1 or 2 statements, 2 processes, 3 runs, 2 faults, 3 adapters |
| `migrate_collision` | `FailsOnFaultsOnly`, **violated**: see section 6 | 2 files with one name, one process |
| `keys` (1.9 M) | `NewestWorks`, `DiesAsTold`, `DeactivationRevokes`, `OnlyLoses` | an administrator and an agent with a key each, up to 4 keys, 2 requests at once of 3, 1 fault, time to expire |
| `tickets` (1.7 M) | `ClosedAtTells`, `FollowUpReopens`, `LeavesQaForCause`, `ClaimsDontSteal` | 2 tickets, 2 requests at once of 4, 1 fault: a race and what comes before and after it |
| `attachments` (1.0 M) | `RowsHaveFiles`, `NothingLeftBehind`, `AttachedByParties`, `LimitKept` | the composition `TicketDesk`: 1 ticket that is raised, closed and deleted while 3 requests, of which 2 at once, handle up to 3 files; 3 people (one of the staff, one who may raise tickets, one who may do neither), 2 faults, limits of 1, so that they are reached and overrun: a retry that loses its race, a removal and a ticket deleted between lookup and upload all fit |
| `audit` (2.9 M) | `LogExplains`, `ReversalsUndo`, `ReversedOnce`, `ArchiveKeeps` | 1 entity of 2 columns, one of which the database can default, with 2 values, 4 requests of which 2 at once, 3 instants, events kept for none and changes for one of them, 1 fault: a change, its reversal, the archive and another reversal fit; rows share nothing but the log |
| `accounts` (1.3 M) | `RolesAsPosted`, `AdminRemains`, `ProvisioningSparesAdmins`, `UsedLinksRefused` | 2 users (one a seeded administrator), 2 roles, 3 requests of which 2 at once, 2 links, 1 death: an administrator made, one deleted or demoted, and what overlaps with it |

A type invariant, `TypeOK`, is in every module. Where section 4 proves it, no run
repeats it; for `ModuleRegistry` it is checked by adding `INVARIANT TypeOK` to the
configuration.

Deadlock is checked in the cron run, where a clock that has stopped lets
runners go on. The others say `CHECK_DEADLOCK FALSE`: their bounds on requests end
every behaviour.

**History in the properties.** Where a save of a row read long before may undo
another's change, a property that ignored it would be false of the code, and one
that forbade the race would say nothing. The properties therefore name the one
thing they cannot bear: `DiesAsTold`, `OnlyLoses` and `DeactivationRevokes` hold of
each key but those *written from an older object* (`stale`), although everything
else still interleaves, and `DeactivationRevokes` also excludes a key whose own save
failed (`unsaved`); `NewestWorks` is about the keys whose tokens a client holds
(`known`), and excludes users whose keys were revoked on purpose (`purged`), those who
confirmed a rotation with an older key than its new one or with one that expires (`hasty`), and the time after
the grace of a rotation whose answer has not arrived (`due`); `NoneStranded` excludes a secret stored while the command
ran (`raced`) or before a swap that failed was made good (`late`), and nothing else:
every crash and failing statement is in. `LicensedByStoredKey` excludes a change of keys
beside another request (`beside`) and requests that died, not check-ins beside each other; `LogExplains` and
`ReversalsUndo` exclude an entity whose changes raced, were cut short between an
entry and its change, or were made by SQL without an entry (`disturbed`);
`UsedLinksRefused` excludes a token that a save from an older row has brought back
(`restored`), `ClaimedDayRenews` a module that a check-in of the day left out because it
was not loadable (`leftOut`); `RolesAsPosted` and `ProvisioningSparesAdmins`
bind a request that no other has overtaken on its user (`clean`), `AdminRemains` one
that none has overtaken on any (`alone`). What is excluded is listed as a hazard.

**Fairness.** Only `DueJobsRun` needs it. `FairSpec` assumes that crontab starts a
CLI runner again after one has ended, and that a process that does not crash goes
on to its next statement, so that tasks end. Nothing makes the clock tick, an
administrator act or a process crash, and no strong fairness is assumed on the lock.

## 4. What is proved

| Module | Theorems | From |
|---|---|---|
| `CronSchedulerProofs` | `TypeCorrect`, `MutualExclusion` (`NoOverlap`), `RunLogOrdered`, `RunnerIsSerial` (`SerialSpec`), `RunsSettle` (`NoCatchUp`), `JobsKeepClockTime` (`NoDrift`), `AnchorSettles`, `AnchorKeepsClockTime` | `FrequenciesAssumption`, `NullsAssumption`, `BoundsAssumption`; for `RunsSettle` also `FullRowSave` |
| `LicensingProofs` | `TypeCorrect`, `SuccessMovesOnlyBySuccess` (`OnlySuccessMovesSuccess`), `ListenersAreTold` (`ListenersKnow`), `LicencesRestOnKeys` (`LicensedByStoredKey`) | `LicensingAssumption` |
| | `DayClaimedOnce` (of `DailyClaim`), `OneCheckInPerDay` (`OneClaimPerDay`) | `LicensedDaysAssumption`, and that midnight overtakes nobody (`~CrossesMidnight`) |
| | `DaysClaim`, `DaysLicense` (the two implement `DailyClaim` and `Licensing`), `DaysMoveSuccessBySuccess` (`OnlySuccessMovesSuccess`) | those of the two modules |
| | `OnlyTimeEndsLicences` (`LicenceKept`), `ClaimRenewsAll` (`ClaimedDayRenews`) | those, `~CrossesMidnight`, and that no request saves a key (`NoKeysSaved`) |
| `RekeyProofs` | `TypeCorrect`, `NoSecretStranded` (`NoneStranded`), `NoFaultLeavesAllReadable` (`ReadableAtRest`), `RekeyingKeepsData` (`DataKept`) | `NullsAssumption`, `BoundsAssumption` |
| `MigrationsProofs` | `TypeCorrect`, `AppliedOnceAndWhole` (`WholeFileOnce`), `AppliedInOrder` (`RecordedInOrder`) | `FilesAssumption` |
| | `FaultlessRunsSucceed` (`FailsOnFaultsOnly`) | that, and that file names differ (`VersionsDiffer`) |
| `AuditTrailProofs` | `TypeCorrect`, `NothingLost` (`ArchiveKeeps`), `NoSecondReversal` (`ReversedOnce`), `LogTellsRows` (`LogExplains`), `ReversalUndoesItsChange` (`ReversalsUndo`) | `AuditAssumption` |
| `AccountsProofs` | `TypeCorrect`, `RolesStayPosted` (`RolesAsPosted`), `AdministratorsSpared` (`ProvisioningSparesAdmins`), `AnAdministratorRemains` (`AdminRemains`), `UsedLinksStayRefused` (`UsedLinksRefused`) | `AccountsAssumption` |
| `ApiKeyRotationProofs` | `TypeCorrect`, `LockedOutOnlyByLostAnswers` (`NewestWorks`), `OldKeysDie` (`DiesAsTold`), `DeactivatedIsRevoked` (`DeactivationRevokes`), `KeysOnlyLose` (`OnlyLoses`) | `ApiKeysAssumption` |
| `TicketDeskProofs` | `TypesHold`, `CloseIsTold` (`ClosedAtTells`), `FollowUpIsHeard` (`FollowUpReopens`), `QueueLeftForCause` (`LeavesQaForCause`), `NobodyIsRobbed` (`ClaimsDontSteal`) | `TicketsAssumption` |
| | `FilesInvariance`, `LimitInvariance` (of `TicketAttachments`), `DeskAttaches`, `DeskTriages` (the desk implements `TicketAttachments` and `TicketTriage`), `AttachmentTypes`, `ListedCanBeDownloaded` (`RowsHaveFiles`), `NoFileIsForgotten` (`NothingLeftBehind`), `OnlyPartiesAttach` (`AttachedByParties`), `LimitsAreKept` (`LimitKept`) | that, and `DeskAssumption` |

The assumptions say that NULL and its like are not values, that bounds are
naturals, that limits are not zero, that the requests about files are finitely many, and
that tables are functions; TLC evaluates each in a run.

*Scheduler.* `NoOverlap` is not inductive: it says nothing of the lock. The
invariant adds that a runner inside a job holds that job's lock (`LockHeld`) and
that rows held in memory are rows of the table (`RowsKnown`), which `LockHeld`
needs because the lock's name is the row's id. The refinement maps a job's executors
to the runners inside it; each step of the program is a step of `SerialExecutions`
or a stutter, given the invariant. `AnchorSettles` and `AnchorKeepsClockTime` are
the arithmetic of `nextAnchor()`: after a run the job is not due at once, and the
clock time moves by whole periods; `RunsSettle` and `JobsKeepClockTime` carry them to
the row that a runner saves, however old the row it had read. If only changed columns
were saved, the row could mix an edit's frequency with the anchor of a run, and nothing
is claimed of it: hence `FullRowSave`.

*Licensing.* The row is written with dynamic updates, so only changed columns are
sent. The invariant says that what a request is about to write over the last
success is what it read, nothing, or its own (`Chosen`), and that a row that was
read is still there (`LoadedStays`), so that the write is an UPDATE.

`Tracked`, of requests that come one after the other: the row one has loaded is the
stored one, and the last state announced is the stored one, unless the request that
wrote it is about to announce it.

That a licence rests on a stored key is not inductive either: two check-ins that
overlap merge their rows column by column, and a merged row could have the success of
one and the key of neither. `CheckInKnows` says why it cannot: what a check-in loaded,
found and plans has its key among those stored (`Supported`), and no check-in takes the
key of a row without putting another there. A request that changes keys is alone by
the property's premise; `ChangerKnows` says that the rows of the modules its
`syncStates()` has done with are supported, so that all are when it ends.

`LicenceKept` needs as much while no key has been touched (`Kept`), and that what is
written keeps the success it read or replaces it by today's (`KeepsSuccess`, `Timely`).
It is false when keys are saved besides: a key that is moved away and back again leaves
requests that cached the tables in between, and one of them may drop the success. Hence
`NoKeysSaved`; removals are in, since `OnlyRemovals` cannot be undone. A check-in that
midnight overtakes may save yesterday's success, a day older than the one that another
saved: hence `~CrossesMidnight`.

*Daily claim.* The settings row is the lock. The invariant says that it names the
last day that was claimed (`RowNamesTheClaim`), that whoever is claiming works on
today's date (`Punctual`), and that a caller is only turned away from a day that is
taken.

*Licensed days.* A step of the composition is a step of one of the two and a stutter
of the other, so that what was proved of each holds of both together. That a claimed day
renews every module that has a key, but for those which some check-in of the day found not
loadable and left out (`leftOut`), needs both halves at once: the caller that won the day owes
a check-in (`Owes`) and then makes it, and each module it has done with has been asked about
today (`DayRenewed`). What it saves is the row it loaded with today's answer in it
(`Planned`); what has become of that row meanwhile (`Seen`) shows that no request writes
an older answer over today's; and `syncStates()` has given every module a row before the
first is asked about (`Visits`). A request that dies still owes its modules, which is why the
property leaves such days out.

*Rekeying.* "Some key that is held reads every secret" hides which. `Guarded` says
which at each point of the command: the key file's before the commit and after the
swap, the stash's in between and until the operator has put it back; and that the
stash file is still there for that long. Nothing is claimed once `raced` or `late`.
The other two properties need a second invariant, `KInv`, which adds to the first what holds
until something has `raced` (`Kept`): what the command holds in plain text, and what its
transaction would write, is the data of the secret in hand (`PlainIsData`, `TxIsPlain`),
the keys it juggles differ (`Apart`), and without a fault nothing is left for the operator
to put back (`NothingOwed`).

*Migrations.* An open transaction holds exactly what its run has executed of the
file in hand (`TxOfFile`); a file recorded in one transaction is recorded in no
other (`RecordsApart`: the primary key); a run holds every file that is not recorded
(`HoldsTheRest`), which keeps the order. That only a fault makes a run fail
(`FaultlessRunsSucceed`) follows from `Smooth`: whatever has been executed is recorded, or
belongs to the file in hand of the one run there is. It needs `VersionsDiffer`, which
`migrate_collision` shows cannot be dropped.

*Audit trail.* `InOrder`: ids are in the order of the entries' times, and what the
archive has taken of a kind is closed downwards in them. So a reversal, which is
younger than its entry, never leaves before it, and a transaction that was overtaken
by another archiver neither loses nor doubles an entry. `Once`: an entry has one
reversal or one request about to make it, unless two raced. `LogExplains` is about the row
at rest; `Stories` says what is true in between: a row that nothing has disturbed is as the
log tells it, or exactly one request has made one half of an entry and its change and
the other half will make them agree (`Explained`). What the log tells is a fold over it; that
it tells the same of an entry however many entries of other rows, or events, follow is
shown by taking the least entry at which it would not (`LeastNumber`). Row and log are not
equal but *match* (`Matches`): the entry of an insertion has the object as it was in memory,
where a column that the database defaults holds the default expression and not the value
that was stored. Deletions are logged from the loaded row, so that a log may tell more of
a row after a reversal than before the change, never something else. A write of raw SQL without an
entry (`WriteUnlogged`, the daily claim's settings row) disturbs its row for good.

*Accounts.* A request that nobody has overtaken still sees what it read (`SeesUser`):
the row's primary role is the stored one, the set it compares with is the one in
`user_roles`, and a user found to be no administrator is none; one that nobody has
overtaken at all still sees the administrators it counted (`SeesAdmins`). Every other
request's write takes that away from it (`WriteKept`), which is why no more can be
said. `TokenInv` says that a token belongs to one user, that one about to be mailed is
nowhere else, and that the token of a row is the last one sent and unused, unless it is among
those that a save from an older row has brought back (`restored`).

*API keys.* Every save of an object as old as its row only takes from a key
(`NoBetter`): so what a request has loaded, what a client was told and what a deactivation
has settled is never less than the row still has (`StateLosses`, `PromisesHeld`,
`SettledRevoked`). `NewestWorks` cannot be read off the table alone, since an old object may
be saved over a row. `Excused` says what a lasting key can have lost, in the table *and* in every
object that may be saved over it: it is revoked only if a newer lasting key of its user is
known to a client, and it has an expiry only if there is such a key, or one whose grace ends
no later than that expiry. A rotation lists the older keys before it issues the next and expires
them after, and a confirmation is made with a token that somebody holds, which is why both
keep it. The proofs hold whether saves write all columns or the changed ones.

*Tickets.* `Permitted` says what each kind of request may make of the row it loaded:
nothing mixed of open and closed, no assignee replaced but by the staff, nothing taken
from the QA queue but by a review, a reopening or a deletion. `ChangesPermitted`, of every object a
request still has to save, is the invariant; a save replaces the whole row by such an
object (`RowsSavedByRequests`), so that a row is always one handler's.

*Ticket files.* `TicketAttachments` supposes of the tickets only what `TicketsMove` says:
one that is raised stays so, and its reporter is never another. That this is so is proved
of `TicketTriage` (`DeskAttaches`): nothing a handler does to its object changes
`reporter_user_id`, and what a request has loaded has the reporter of the row it will be
saved over, however old it is (`ReportersHeld`). `RowsHaveFiles` and `NothingLeftBehind`
are not inductive. `Placed` says what a request knows of its file: until it has a row, none names
it; one that is to be removed is named by the row that was picked, or, once that is
deleted, by none. `Apart` says that no other request has in hand a file without a row, so that none is
unlinked under another's row. That rows never outnumber names
(`lastAttachment` and the uploads waiting for their row are at most `named`) keeps ids
within their bound. `AttachedByParties` needs that a request which found its ticket keeps
what it found (`MayHang`), also when the ticket is deleted before the file is stored.
`LimitKept` counts: the recent rows of a person and their uploads that were counted and
are not stored yet (`InFlight`) are together at most the limit and one less than the
requests, because the last one that was counted found fewer rows than the limit; storing a
file moves one from the second number to the first, and a customer's upload, which has no
limit, counts for a reporter only.

Only model-checked: liveness (`DueJobsRun`), since fairness and ENABLED are out of the
prover's reach; `ModuleOrder`, a depth-first search as a function that is recursive over
paths, of which the provers cannot even show that it exists, and with it the properties
of `ModuleRegistry`, whose guards call it. The library's induction theorems take an operator as a
parameter, which the provers cannot instantiate; where an induction over numbers was
needed (the log, the first of a set of files) the least number of a set is taken instead.

## 5. What is not modelled

- The JavaScript under `public/assets`: AdminLTE's copies of jQuery, jQuery UI,
  Bootstrap and OverlayScrollbars. It is third-party code with none of the program's
  logic, so no module models it and nothing in `PROJECT.json` refers to it. By count of
  lines it is most of the repository; the program itself is the PHP under `app/`. The
  few scripts of its pages show and hide parts of forms.
- The knowledge base: each action checks and saves one row, and what that is exposed to
  is shown for tickets.
- Backups and outside services: commands and calls without state to get wrong between
  them. Error logs: nothing reads them back. Formatting, PDF, Markdown, translation of
  SQL, routes and menus: no state.
- Within the modules: expiry dates and version checks of licences; the text and results
  in tickets; type and size checks of uploads; the actors of audit entries and the
  redaction of secrets in them; for accounts the limit on sign-in attempts, the check of
  an address by mail, changes of address and the names of roles. See each header and the
  notes in `PROJECT.json`.
- A job's frequency is a positive number of minutes or unparseable. The Cron screen stores
  any string (`CronController.php:165`), and `strtotime()` also reads absolute dates,
  months, and steps back or of no length; nothing is claimed of such jobs.
- `TicketAttachments` takes an INSERT that throws to have stored nothing. The API unlinks
  the file then (`TicketsController.php:313-321`); if the database had stored the row and the
  answer was lost, it would be left without a file. An `unlink()` that fails leaves a file
  without a row, and is not modelled either.
- Which modules are loadable is decided in `ModuleRegistry`; in `Licensing` a check-in of
  all modules asks any set of them (`LicenseManager.php:240`).
- In `AuditTrail` an object that was just created is not saved again without being loaded.
  Reversals write rows of users, roles, keys and tickets by SQL; the modules of those
  tables leave that out.

## 6. Where code and text disagree

`migrate_collision`: `MigrateTask.php:20-21` and `:203-205` say that files of two
modules with one name cannot collide, since they are tracked by module and version.
`ensureMigrationsTable()` (`:119`, `:138`) makes `version` alone the primary key. The
second `001_initial_schema.sql` can be executed but never recorded: on PostgreSQL and
SQLite its transaction is rolled back, on MySQL its statements stay, and every later
run stops there again.

The comment at `api/controllers/ProvisionController.php:270-272` says that an interrupted
rotation never locks the user out. That is so until the grace runs out: if the answer with the
new key is lost and the agent does not rotate again in time, every key it knows expires and
nobody has the token of the new one. A confirmation made with an old key while another
rotation runs can lock out as well. `NewestWorks` states what does hold.

Seen while modelling, listed as hazards or excepted by a property, not claimed as
contradictions of a text:

- a tick that read its rows before another tick's run runs the job a second time in
  one period (`CronRunner.php:22`), and its whole-row save after a long task puts an
  `enabled` back that somebody has switched off (`:98`);
- a caller with yesterday's date puts the daily claim back (`LicenseManager.php:885`);
- a secret stored after a rekey that failed between commit and swap is encrypted with
  the old key, and copying the stash back, as told, makes it unreadable
  (`CryptoTask.php:147`);
- deactivating a user whose key cannot be saved answers 200 and leaves the key live
  (`ProvisionController.php:373-381`);
- the save that stamps `last_used_at` may undo a revocation (`ApiKeyAuth.php:64`), and
  the save that moves a ticket's `updated_at` may undo a close
  (`api/controllers/TicketsController.php:907`);
- reopening a ticket leaves `qa_reviewed_at`, so that its second automatic close is
  never in the QA queue (`TicketTriageActions.php:152`); deleting a ticket takes it out of
  that queue unreviewed;
- two administrators who delete each other at once leave none
  (`UsersController.php:248`), and demoting or deactivating the last one in an edit is
  not guarded at all; sessions keep their roles until sign-out;
- two overlapping edits of a user can leave the primary role of one beside the role set
  of the other (`UserRoles.php:85`), and two uses of one password link at the same time
  both set a password (`PasswordController.php:66-87`);
- the audit entry of an insertion keeps `CURRENT_TIMESTAMP` where the database chose the
  value (`Audit.php:22`), so that reversing a later deletion restores more than that entry
  tells; the daily claim writes its settings row, of a table that is reversible, without an
  entry (`LicenseManager.php:884-908`);
- reversing an update of a row that has been removed touches no row and is recorded all
  the same (`Audit.php:207`); the archive drops `reversed_audit_log_id`, so that it no
  longer says which entry a reversal undid;
- the comment at `Roles.php:66` speaks of live users, while `holderCount()` counts
  trashed ones as well: the foreign key would refuse the role's deletion in any case.

## 7. Plan

Done: the scheduler first, as the part that everything periodic hangs on; licensing,
its daily claim, and the two composed; the module registry; rekeying; migrations; API
keys; tickets, their attachments, and the two composed; the audit log; accounts. Each with its properties and
runs, and all but the module registry with proofs.

Next, extending the model: the retention of backups and the page arithmetic of the PDF
writer, as pure algorithms against a reference definition; expiry dates in `Licensing`;
the sign-in limit in `Accounts`.

Next, proving: `StaysConsistent` of `ModuleRegistry` from a named assumption about its
order.
