----------------------------- MODULE AuditTrail -----------------------------
(***************************************************************************)
(* The audit log: App_skeleton\Audit, which hears of every insert, update  *)
(* and delete of an audited model and reverses them on request, and the    *)
(* `audit archive` command, which moves old entries to a second table.     *)
(*                                                                         *)
(* An entry is written next to the change it is about, never in one        *)
(* transaction with it: after an INSERT and after a reversal, before an    *)
(* UPDATE and a DELETE.  Requests interleave at every query, an entry may  *)
(* fail to be written and a process may die.  The entities are rows of the *)
(* tables that may be reversed; actors and redacted secrets are left out.  *)
(* A row that raw SQL writes (the licensing's claim of a day, in settings) *)
(* has no entry for it.  A request that saves an object again after having *)
(* created it, without loading the row, is not modelled.                   *)
(***************************************************************************)
EXTENDS Integers, FiniteSets, Sequences

CONSTANTS
  Entities,
  Columns,
  Values,
  Defaulted,    \* the columns that an INSERT leaves to the database
  Default,      \* the default expression the model object is left with
  NoEntity,     \* what an event of the sign-in is about
  NoRow,        \* no such row
  KeepEvents,   \* ticks before an event is archived: 1 day
  KeepChanges,  \* ticks before any other entry is archived: 1 year
  Requests,
  MaxRequests,  \* bound: requests made; each writes one entry at most
  MaxTime,      \* bound: the clock
  MaxFaults     \* bound: entries that are not written, processes that die

Rows == [Columns -> Values]
PartialRows == UNION {[C -> Values] : C \in SUBSET Columns}
LoggedRows == UNION {[C -> Values \cup {Default}] : C \in SUBSET Columns}
NoColumns == [c \in {} |-> 0]
Ids == 1..MaxRequests

ASSUME AuditAssumption ==
  /\ NoEntity \notin Entities
  /\ NoRow \notin LoggedRows
  /\ Default \notin Values
  /\ KeepEvents \in Nat /\ KeepChanges \in Nat
  /\ MaxRequests \in Nat /\ MaxTime \in Nat /\ MaxFaults \in Nat

VARIABLES
  rows,       \* per entity, its row
  log,        \* the entries ever written; an entry's id is its position
  deleted,    \* the ids deleted from audit_log
  archive,    \* the ids in audit_log_archive
  used,       \* the entities whose ids were given out
  now,
  req,        \* per request, its local state
  disturbed,  \* history: entities whose changes raced, were cut short, or
              \* were made without an entry
  raced,      \* history: entries whose reversals raced with another or
              \* with the archive
  requests, faults

vars == <<rows, log, deleted, archive, used, now, req, disturbed, raced,
          requests, faults>>

Entries ==
  [entity: Entities \cup {NoEntity},
   action: {"insert", "update", "delete", "reversal", "event"},
   old: PartialRows, new: LoggedRows \cup {NoRow},
   reverses: {0} \cup Ids, at: 0..MaxTime]

(* found, row: the row as it was loaded, and as it is to be saved; id: the *)
(* entry it reverses; cutoff, ids: what it archives; since: when it began. *)
RequestStates ==
  [pc: {"idle", "created", "loaded", "saving", "deleting", "fetched",
        "reversible", "applied", "count", "copy", "purge"},
   entity: Entities \cup {NoEntity}, found: Rows \cup {NoRow},
   row: Rows \cup {NoRow}, id: {0} \cup Ids, events: BOOLEAN,
   cutoff: Int, ids: SUBSET Nat, since: 0..MaxTime]

Idle ==
  [pc |-> "idle", entity |-> NoEntity, found |-> NoRow, row |-> NoRow,
   id |-> 0, events |-> FALSE, cutoff |-> 0, ids |-> {}, since |-> 0]

TypeOK ==
  /\ rows \in [Entities -> Rows \cup {NoRow}]
  /\ log \in Seq(Entries)
  /\ deleted \subseteq DOMAIN log
  /\ archive \subseteq DOMAIN log
  /\ used \subseteq Entities
  /\ now \in 0..MaxTime
  /\ req \in [Requests -> RequestStates]
  /\ disturbed \subseteq Entities
  /\ raced \subseteq Ids
  /\ requests \in 0..MaxRequests
  /\ faults \in 0..MaxFaults

Init ==
  /\ rows = [e \in Entities |-> NoRow]
  /\ log = <<>>
  /\ deleted = {}
  /\ archive = {}
  /\ used = {}
  /\ now = 0
  /\ req = [r \in Requests |-> Idle]
  /\ disturbed = {}
  /\ raced = {}
  /\ requests = 0
  /\ faults = 0

-----------------------------------------------------------------------------
Goes(r, state) == req' = [req EXCEPT ![r] = state]
Ends(r) == Goes(r, Idle)
Step(r, pc) == Goes(r, [req[r] EXCEPT !.pc = pc])

Begin(r, state) ==
  /\ req[r].pc = "idle"
  /\ requests < MaxRequests
  /\ requests' = requests + 1
  /\ Goes(r, [state EXCEPT !.since = now])

Fault == faults < MaxFaults /\ faults' = faults + 1

(* The entries that are still in audit_log.                                *)
Live == (DOMAIN log) \ deleted

(* One of an entry and its change is made, the other is not.               *)
HalfDone(r) == req[r].pc \in {"created", "saving", "deleting", "applied"}

Contended(r) ==
  \E q \in Requests \ {r} : req[q].entity = req[r].entity /\ HalfDone(q)

Stale(r) == rows[req[r].entity] # req[r].found

Disturbs(r, really) ==
  disturbed' = IF really \/ Contended(r)
                 THEN disturbed \cup {req[r].entity} ELSE disturbed

Entry(e, action, old, new, id) ==
  [entity |-> e, action |-> action, old |-> old, new |-> new,
   reverses |-> id, at |-> now]

(* write(): "failing to write one must not turn that action into an error  *)
(* page".                                                                  *)
Record(r, entry, stale) ==
  \/ /\ log' = Append(log, entry)
     /\ Disturbs(r, stale)
     /\ UNCHANGED faults
  \/ /\ Fault
     /\ Disturbs(r, TRUE)
     /\ UNCHANGED log

(* An UPDATE of some columns, of the row that is there.                    *)
Updated(row, columns) ==
  IF row = NoRow THEN NoRow
  ELSE [c \in Columns |-> IF c \in DOMAIN columns THEN columns[c] ELSE row[c]]

OnlyColumns(row, C) == [c \in C |-> row[c]]

-----------------------------------------------------------------------------
(* Changes through the models.                                             *)

Create(r, e) ==
  /\ e \notin used
  /\ \E row \in Rows :
       /\ Begin(r, [Idle EXCEPT !.pc = "created", !.entity = e, !.row = row])
       /\ rows' = [rows EXCEPT ![e] = row]
  /\ used' = used \cup {e}
  /\ UNCHANGED <<log, deleted, archive, now, disturbed, raced, faults>>

(* The object after its INSERT: created_at and the like "still holds the   *)
(* raw 'CURRENT_TIMESTAMP' default expression, not the value".             *)
InMemory(row) ==
  [c \in Columns |-> IF c \in Defaulted THEN Default ELSE row[c]]

AfterCreate(r) ==
  /\ req[r].pc = "created"
  /\ Record(r, Entry(req[r].entity, "insert", NoColumns, InMemory(req[r].row), 0),
            FALSE)
  /\ Ends(r)
  /\ UNCHANGED <<rows, deleted, archive, used, now, raced, requests>>

(* A handler finds the row it will change.                                 *)
Find(r, e) ==
  /\ rows[e] # NoRow
  /\ Begin(r, [Idle EXCEPT !.pc = "loaded", !.entity = e, !.found = rows[e]])
  /\ UNCHANGED <<rows, log, deleted, archive, used, now, disturbed, raced,
                 faults>>

(* getChangedFields().                                                     *)
ChangedFields(found, row) == {c \in Columns : row[c] # found[c]}

(* Mutant of OldValues: they are taken from the model, not its snapshot.   *)
OldValues_OfModel(found, row) == OnlyColumns(row, ChangedFields(found, row))

OldValues(found, row) == OnlyColumns(found, ChangedFields(found, row))

BeforeUpdate(r) ==
  /\ req[r].pc = "loaded"
  /\ \E row \in Rows \ {req[r].found} :
       /\ Record(r, Entry(req[r].entity, "update", OldValues(req[r].found, row),
                          OnlyColumns(row, ChangedFields(req[r].found, row)), 0),
                 Stale(r))
       /\ Goes(r, [req[r] EXCEPT !.pc = "saving", !.row = row])
  /\ UNCHANGED <<rows, deleted, archive, used, now, raced, requests>>

(* The UPDATE names every column, with or without an entry before it.      *)
Save(r) ==
  /\ req[r].pc = "saving"
  /\ rows' = [rows EXCEPT ![req[r].entity] = Updated(@, req[r].row)]
  /\ Disturbs(r, FALSE)
  /\ Ends(r)
  /\ UNCHANGED <<log, deleted, archive, used, now, raced, requests, faults>>

SaveUnchanged(r) ==
  /\ req[r].pc = "loaded"
  /\ rows' = [rows EXCEPT ![req[r].entity] = Updated(@, req[r].found)]
  /\ Disturbs(r, Stale(r))
  /\ Ends(r)
  /\ UNCHANGED <<log, deleted, archive, used, now, raced, requests, faults>>

BeforeDelete(r) ==
  /\ req[r].pc = "loaded"
  /\ Record(r, Entry(req[r].entity, "delete", req[r].found, NoRow, 0), Stale(r))
  /\ Step(r, "deleting")
  /\ UNCHANGED <<rows, deleted, archive, used, now, raced, requests>>

Delete(r) ==
  /\ req[r].pc = "deleting"
  /\ rows' = [rows EXCEPT ![req[r].entity] = NoRow]
  /\ Disturbs(r, FALSE)
  /\ Ends(r)
  /\ UNCHANGED <<log, deleted, archive, used, now, raced, requests, faults>>

(* recordEvent().                                                          *)
RecordEvent(r) ==
  /\ req[r].pc = "idle"
  /\ requests < MaxRequests
  /\ requests' = requests + 1
  /\ log' = Append(log, Entry(NoEntity, "event", NoColumns, NoColumns, 0))
  /\ UNCHANGED <<rows, deleted, archive, used, now, req, disturbed, raced,
                 faults>>

(* claimDay(): raw SQL, which the models' events do not see.               *)
WriteUnlogged(e) ==
  /\ rows[e] # NoRow \/ e \notin used
  /\ requests < MaxRequests
  /\ requests' = requests + 1
  /\ \E row \in Rows : rows' = [rows EXCEPT ![e] = row]
  /\ used' = used \cup {e}
  /\ disturbed' = disturbed \cup {e}
  /\ UNCHANGED <<log, deleted, archive, now, req, raced, faults>>

-----------------------------------------------------------------------------
(* Reversals.                                                              *)

(* reverseAction() finds the entry.                                        *)
FindEntry(r, i) ==
  /\ i \in Live
  /\ Begin(r, [Idle EXCEPT !.pc = "fetched", !.entity = log[i].entity,
                           !.id = i])
  /\ UNCHANGED <<rows, log, deleted, archive, used, now, disturbed, raced,
                 faults>>

(* Mutant of IsReversible: what reversed it is not looked up.              *)
IsReversible_Again(i) == log[i].action \in {"insert", "update", "delete"}

IsReversible(i) ==
  /\ log[i].action \in {"insert", "update", "delete"}
  /\ \A j \in Live : log[j].reverses # i

(* Two requests pass this on one entry, or the archive took the entry and  *)
(* its reversal since the entry was found.                                 *)
ReversalRaces(r) ==
  \/ req[r].id \in deleted
  \/ \E q \in Requests \ {r} :
       req[q].id = req[r].id /\ req[q].pc \in {"reversible", "applied"}

CheckReversible(r) ==
  /\ req[r].pc = "fetched"
  /\ IF IsReversible(req[r].id)
       THEN /\ Step(r, "reversible")
            /\ raced' = IF ReversalRaces(r) THEN raced \cup {req[r].id}
                                            ELSE raced
       ELSE Ends(r) /\ UNCHANGED raced
  /\ UNCHANGED <<rows, log, deleted, archive, used, now, disturbed, requests,
                 faults>>

(* applyUpdate(), applyInsert() and applyDelete(): what one leaves of row. *)
Restored(row, entry) ==
  CASE entry.action = "update" -> Updated(row, entry.old)
    [] entry.action = "delete" -> entry.old
    [] entry.action = "insert" -> NoRow

(* An INSERT over a row that exists throws.                                *)
Apply(r) ==
  LET e == req[r].entity
      entry == log[req[r].id]
  IN /\ req[r].pc = "reversible"
     /\ IF entry.action = "delete" /\ rows[e] # NoRow
          THEN Ends(r) /\ UNCHANGED <<rows, disturbed>>
          ELSE /\ rows' = [rows EXCEPT ![e] = Restored(@, entry)]
               /\ Disturbs(r, FALSE)
               /\ Step(r, "applied")
     /\ UNCHANGED <<log, deleted, archive, used, now, raced, requests, faults>>

(* Mutant of ReversalValues: it notes what the entry had put in place.     *)
ReversalValues_New(entry) == entry.new

ReversalValues(entry) == IF entry.action = "insert" THEN NoRow ELSE entry.old

RecordReversal(r) ==
  /\ req[r].pc = "applied"
  /\ Record(r, Entry(req[r].entity, "reversal", NoColumns,
                     ReversalValues(log[req[r].id]), req[r].id), FALSE)
  /\ Ends(r)
  /\ UNCHANGED <<rows, deleted, archive, used, now, raced, requests>>

-----------------------------------------------------------------------------
(* `audit archive`: the events, then all other entries.                    *)

Old(events, cutoff) ==
  {i \in Live : (log[i].action = "event") = events /\ log[i].at < cutoff}

ArchiveBegins(r) ==
  /\ Begin(r, [Idle EXCEPT !.pc = "count", !.events = TRUE])
  /\ UNCHANGED <<rows, log, deleted, archive, used, now, disturbed, raced,
                 faults>>

PassEnds(r) ==
  IF req[r].events
    THEN Goes(r, [Idle EXCEPT !.pc = "count", !.since = req[r].since])
    ELSE Ends(r)

Cutoff(events) == now - (IF events THEN KeepEvents ELSE KeepChanges)

CountOld(r) ==
  LET cutoff == Cutoff(req[r].events)
  IN /\ req[r].pc = "count"
     /\ IF Old(req[r].events, cutoff) = {}
          THEN PassEnds(r)
          ELSE Goes(r, [req[r] EXCEPT !.pc = "copy", !.cutoff = cutoff])
     /\ UNCHANGED <<rows, log, deleted, archive, used, now, disturbed, raced,
                    requests, faults>>

(* In the transaction: what is copied is seen by others when it commits.   *)
CopyOld(r) ==
  /\ req[r].pc = "copy"
  /\ Goes(r, [req[r] EXCEPT !.pc = "purge",
                            !.ids = Old(req[r].events, req[r].cutoff)])
  /\ UNCHANGED <<rows, log, deleted, archive, used, now, disturbed, raced,
                 requests, faults>>

(* Mutant of Purged: the cutoff of the DELETE is taken anew.               *)
Purged_CutoffAnew(r) == Old(req[r].events, Cutoff(req[r].events))

Purged(r) == Old(req[r].events, req[r].cutoff)

(* Two archivers that copy one entry: the primary key fails the second one *)
(* and its transaction is rolled back.                                     *)
PurgeOld(r) ==
  /\ req[r].pc = "purge"
  /\ IF req[r].ids \cap archive = {}
       THEN /\ archive' = archive \cup req[r].ids
            /\ deleted' = deleted \cup Purged(r)
            /\ PassEnds(r)
       ELSE Ends(r) /\ UNCHANGED <<archive, deleted>>
  /\ UNCHANGED <<rows, log, used, now, disturbed, raced, requests, faults>>

-----------------------------------------------------------------------------
(* A process dies; a transaction it has open is rolled back.               *)
Abort(r) ==
  /\ req[r].pc # "idle"
  /\ Fault
  /\ disturbed' = IF HalfDone(r) THEN disturbed \cup {req[r].entity}
                                 ELSE disturbed
  /\ Ends(r)
  /\ UNCHANGED <<rows, log, deleted, archive, used, now, raced, requests>>

(* No request lasts longer than a tick: it may see the clock move once.    *)
Tick ==
  /\ now < MaxTime
  /\ now' = now + 1
  /\ \A r \in Requests : req[r].pc # "idle" => req[r].since = now
  /\ UNCHANGED <<rows, log, deleted, archive, used, req, disturbed, raced,
                 requests, faults>>

Next ==
  \/ \E r \in Requests :
       \/ \E e \in Entities : Create(r, e) \/ Find(r, e)
       \/ \E i \in Ids : FindEntry(r, i)
       \/ AfterCreate(r) \/ RecordEvent(r)
       \/ BeforeUpdate(r) \/ Save(r) \/ SaveUnchanged(r)
       \/ BeforeDelete(r) \/ Delete(r)
       \/ CheckReversible(r) \/ Apply(r) \/ RecordReversal(r)
       \/ ArchiveBegins(r) \/ CountOld(r) \/ CopyOld(r) \/ PurgeOld(r)
       \/ Abort(r)
  \/ \E e \in Entities : WriteUnlogged(e)
  \/ Tick

Spec == Init /\ [][Next]_vars

-----------------------------------------------------------------------------
(* What an entry of a log says became of a row.                            *)
Effect(entries, row, entry) ==
  CASE entry.action \in {"insert", "delete"} -> entry.new
    [] entry.action = "update" -> Updated(row, entry.new)
    [] entry.action = "reversal" ->
         IF entries[entry.reverses].action = "update"
           THEN Updated(row, entry.new)
           ELSE entry.new

(* The row of e as the first n entries of a log tell it.                   *)
RowAfter(entries, e, n) ==
  LET row[k \in 0..n] ==
        IF k = 0 THEN NoRow
        ELSE IF entries[k].entity = e THEN Effect(entries, row[k - 1], entries[k])
        ELSE row[k - 1]
  IN row[n]

(* The row is as it was told, but for a column that the database filled in *)
(* and of which the log has the default expression.                        *)
Matches(row, told) ==
  IF row = NoRow \/ told = NoRow THEN row = told
  ELSE \A c \in Columns :
         row[c] = told[c] \/ (c \in Defaulted /\ told[c] = Default)

(* The log and its archive tell the story of a row: what beforeUpdate(),   *)
(* beforeDelete(), afterCreate() and reverse() wrote, read from the first  *)
(* entry on, ends in the row as it is, except in a column that the database*)
(* filled in at the INSERT and no later entry names.  Left out are rows    *)
(* whose changes raced or were cut short, and rows raw SQL has written.    *)
LogExplains ==
  \A e \in Entities \ disturbed :
    (\A r \in Requests : req[r].entity = e => ~HalfDone(r))
      => Matches(rows[e], RowAfter(log, e, Len(log)))

(* A reversal undoes: when nothing happened to the entity between a change *)
(* and its reversal, the log tells the row after the reversal as it told   *)
(* it before the change, for updates, deletions and insertions, or better: *)
(* where it had a default expression, the reversal may have told the value.*)
(* Left out are the rows that LogExplains leaves out.                      *)
ReversalsUndo ==
  \A j \in DOMAIN log :
    LET i == log[j].reverses
        e == log[j].entity
    IN i # 0 /\ e \notin disturbed
         /\ (\A k \in (i + 1)..(j - 1) : log[k].entity # e)
       => Matches(RowAfter(log, e, j), RowAfter(log, e, i - 1))

(* "nothing has reversed it yet": an entry is reversed once, also when the *)
(* archive, which does not keep the link from a reversal to its entry, has *)
(* taken some of them; unless two reversals of it race, or the archive took*)
(* the entry between its being found and the lookup of what reversed it.   *)
ReversedOnce ==
  \A j, k \in DOMAIN log :
    log[j].reverses = log[k].reverses /\ log[j].reverses \notin raced \cup {0}
      => j = k

(* "Moves old rows rather than deleting them": an entry is in one of the   *)
(* two tables and in one only, whatever archivers overlap or die, and an   *)
(* entry leaves before the reversal that points at it.                     *)
ArchiveKeeps ==
  /\ archive = deleted
  /\ \A j \in deleted : log[j].reverses # 0 => log[j].reverses \in deleted
=============================================================================
