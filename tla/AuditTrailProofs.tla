-------------------------- MODULE AuditTrailProofs --------------------------
(***************************************************************************)
(* Proofs about AuditTrail, for every set of rows, number of requests and  *)
(* length of the log.                                                      *)
(*                                                                         *)
(* Entries are appended with the time of the clock, so that their ids are  *)
(* in the order of their times; the archive takes all entries of a kind    *)
(* that are older than its cutoff, so that what it has taken is closed     *)
(* downwards (InOrder): a reversal never leaves before the entry it points *)
(* at.  That an entry is reversed once (Once) rests on it: the lookup among*)
(* the entries that are left would miss such a reversal.                   *)
(*                                                                         *)
(* What the log tells of a row is read by a recursive function over its    *)
(* entries.  It is reasoned about with the least number of a set           *)
(* (LeastNumber): the first entry after which two readings would differ.   *)
(* Stories is the invariant: a row that nothing has disturbed matches what *)
(* the log tells, or one request has made one of an entry and its change,  *)
(* and the other will make the two agree again (Explained).                *)
(***************************************************************************)
EXTENDS AuditTrail, WellFoundedInduction, TLAPS

(* What an entry, and what a request at each of its steps, holds.          *)
EntryShape(x) ==
  /\ x.action \in {"insert", "update", "delete"} => x.entity \in Entities
  /\ x.action = "delete" => x.old \in Rows

StateShape(s) ==
  /\ s.pc \in {"loaded", "saving", "deleting"} =>
       s.entity \in Entities /\ s.found \in Rows
  /\ s.pc \in {"created", "saving"} => s.entity \in Entities /\ s.row \in Rows
  /\ s.pc \in {"fetched", "reversible", "applied"} =>
       s.id \in Ids /\ s.id \in DOMAIN log /\ s.entity = log[s.id].entity
  /\ s.pc \in {"reversible", "applied"} =>
       log[s.id].action \in {"insert", "update", "delete"}
  /\ s.pc = "purge" => s.ids \subseteq DOMAIN log

Shape ==
  /\ \A i \in DOMAIN log : EntryShape(log[i])
  /\ \A r \in Requests : StateShape(req[r])

TypeInv == TypeOK /\ Shape

-----------------------------------------------------------------------------
(* The steps that all actions are made of.                                 *)

(* A step leaves the log as it is, or appends x.                           *)
Grows(x) ==
  /\ log' \in Seq(Entries)
  /\ DOMAIN log \subseteq DOMAIN log'
  /\ \A i \in DOMAIN log : log'[i] = log[i]
  /\ \A i \in DOMAIN log' : i \notin DOMAIN log => log'[i] = x /\ i = Len(log) + 1

LEMMA AppendGrows ==
  ASSUME TypeOK, NEW x \in Entries, log' = Append(log, x)
  PROVE  Grows(x)
BY DEF TypeOK, Grows

LEMMA SameGrows ==
  ASSUME TypeOK, NEW x, UNCHANGED log
  PROVE  Grows(x)
BY DEF TypeOK, Grows

LEMMA RecordGrows ==
  ASSUME TypeOK, NEW r \in Requests, req[r].entity \in Entities,
         NEW x \in Entries, NEW stale \in BOOLEAN, Record(r, x, stale)
  PROVE  Grows(x) /\ disturbed' \subseteq Entities /\ faults' \in 0..MaxFaults
<1>1. CASE log' = Append(log, x) /\ Disturbs(r, stale) /\ UNCHANGED faults
  <2>1. Grows(x)
    BY <1>1, AppendGrows
  <2>2. disturbed' \subseteq Entities /\ faults' \in 0..MaxFaults
    BY <1>1 DEF TypeOK, Disturbs
  <2>. QED
    BY <2>1, <2>2
<1>2. CASE Fault /\ Disturbs(r, TRUE) /\ UNCHANGED log
  <2>1. Grows(x)
    BY <1>2, SameGrows
  <2>2. disturbed' \subseteq Entities /\ faults' \in 0..MaxFaults
    BY <1>2, AuditAssumption DEF TypeOK, Disturbs, Fault
  <2>. QED
    BY <2>1, <2>2
<1>. QED
  BY <1>1, <1>2 DEF Record

LEMMA IdleState == Idle \in RequestStates /\ StateShape(Idle)
BY AuditAssumption DEF Idle, RequestStates, StateShape, AuditAssumption

(* A request begins, or goes on, with some fields set.                     *)
LEMMA BeginTyped ==
  ASSUME TypeOK, NEW r \in Requests, NEW s \in RequestStates, Begin(r, s)
  PROVE  /\ [s EXCEPT !.since = now] \in RequestStates
         /\ Goes(r, [s EXCEPT !.since = now])
         /\ requests' \in 0..MaxRequests
<1>1. now \in 0..MaxTime /\ requests \in Nat /\ MaxRequests \in Nat
  BY AuditAssumption DEF TypeOK, AuditAssumption
<1>2. [s EXCEPT !.since = now] \in RequestStates
  BY <1>1 DEF RequestStates
<1>. QED
  BY <1>1, <1>2 DEF Begin

LEMMA RowsArePartial ==
  Rows \subseteq PartialRows /\ PartialRows \subseteq LoggedRows
BY DEF Rows, PartialRows, LoggedRows

LEMMA RowsAreNotNoRow == NoRow \notin Rows
BY RowsArePartial, AuditAssumption DEF AuditAssumption

LEMMA InMemoryTyped ==
  ASSUME NEW row \in Rows
  PROVE  InMemory(row) \in [Columns -> Values \cup {Default}]
         /\ InMemory(row) \in LoggedRows
<1>1. InMemory(row) \in [Columns -> Values \cup {Default}]
  BY DEF InMemory, Rows
<1>. QED
  BY <1>1 DEF LoggedRows

LEMMA ColumnsArePartial ==
  ASSUME NEW row \in Rows, NEW C \in SUBSET Columns
  PROVE  OnlyColumns(row, C) \in PartialRows
BY DEF OnlyColumns, Rows, PartialRows

LEMMA NoColumnsPartial == NoColumns \in PartialRows
BY DEF NoColumns, PartialRows

LEMMA UpdatedTyped ==
  ASSUME NEW row \in Rows \cup {NoRow}, NEW columns \in PartialRows
  PROVE  Updated(row, columns) \in Rows \cup {NoRow}
BY DEF Updated, Rows, PartialRows

LEMMA EntryTyped ==
  ASSUME TypeOK, NEW e \in Entities \cup {NoEntity},
         NEW action \in {"insert", "update", "delete", "reversal", "event"},
         NEW old \in PartialRows, NEW new \in LoggedRows \cup {NoRow},
         NEW id \in {0} \cup Ids
  PROVE  Entry(e, action, old, new, id) \in Entries
BY DEF TypeOK, Entry, Entries

(* A request moves to a well-formed state while the log grows: the shape   *)
(* of everything is kept.                                                  *)
LEMMA ShapeKept ==
  ASSUME TypeInv, NEW x, Grows(x), EntryShape(x),
         NEW r \in Requests, NEW s \in RequestStates, StateShape(s), Goes(r, s)
  PROVE  Shape' /\ req' \in [Requests -> RequestStates]
<1>1. req' \in [Requests -> RequestStates]
      /\ \A q \in Requests : req'[q] = IF q = r THEN s ELSE req[q]
  BY DEF TypeInv, TypeOK, Goes
<1>2. \A i \in DOMAIN log' : EntryShape(log'[i])
  BY DEF TypeInv, Shape, Grows
<1>3. \A q \in Requests : StateShape(req'[q])
  BY <1>1 DEF TypeInv, Shape
<1>4. \A q \in Requests : StateShape(req[q])'
  <2>. SUFFICES ASSUME NEW q \in Requests PROVE StateShape(req[q])'
    OBVIOUS
  <2>1. StateShape(req'[q])
    BY <1>3
  <2>. QED
    BY <2>1 DEF StateShape, Grows
<1>. QED
  BY <1>1, <1>2, <1>4 DEF Shape

(* Requests that only move: nothing is written to the log.                 *)
LEMMA MoveKept ==
  ASSUME TypeInv, NEW r \in Requests, NEW s \in RequestStates, StateShape(s),
         Goes(r, s), UNCHANGED log
  PROVE  Shape' /\ req' \in [Requests -> RequestStates]
<1>1. PICK x : x = [action |-> "event"]
  OBVIOUS
<1>2. EntryShape(x)
  BY <1>1 DEF EntryShape
<1>3. Grows(x)
  BY SameGrows DEF TypeInv
<1>. QED
  BY <1>2, <1>3, ShapeKept

LEMMA EndKept ==
  ASSUME TypeInv, NEW r \in Requests, Ends(r), UNCHANGED log
  PROVE  Shape' /\ req' \in [Requests -> RequestStates]
BY MoveKept, IdleState DEF Ends

LEMMA FaultTyped ==
  ASSUME TypeOK, Fault
  PROVE  faults' \in 0..MaxFaults
BY AuditAssumption DEF TypeOK, Fault, AuditAssumption

-----------------------------------------------------------------------------
(* Types.                                                                  *)

LEMMA CreateTyped ==
  ASSUME TypeInv, NEW r \in Requests, NEW e \in Entities, Create(r, e)
  PROVE  TypeInv'
<1>1. PICK row \in Rows :
        /\ Begin(r, [Idle EXCEPT !.pc = "created", !.entity = e, !.row = row])
        /\ rows' = [rows EXCEPT ![e] = row]
  BY DEF Create
<1>. DEFINE s == [Idle EXCEPT !.pc = "created", !.entity = e, !.row = row]
            t == [s EXCEPT !.since = now]
<1>2. s \in RequestStates
  BY IdleState DEF RequestStates
<1>3. Begin(r, s)
  BY <1>1
<1>. HIDE DEF s
<1>4. t \in RequestStates /\ Goes(r, t) /\ requests' \in 0..MaxRequests
  BY <1>2, <1>3, BeginTyped DEF TypeInv
<1>5. s.pc = "created" /\ s.entity = e /\ s.row = row
  BY IdleState DEF s, RequestStates
<1>6. StateShape(t)
  BY <1>2, <1>5 DEF StateShape, RequestStates
<1>. HIDE DEF t
<1>7. Shape' /\ req' \in [Requests -> RequestStates]
  BY <1>4, <1>6, MoveKept DEF Create
<1>. QED
  BY <1>1, <1>4, <1>7 DEF TypeInv, TypeOK, Create

LEMMA FindTyped ==
  ASSUME TypeInv, NEW r \in Requests, NEW e \in Entities, Find(r, e)
  PROVE  TypeInv'
<1>. DEFINE s == [Idle EXCEPT !.pc = "loaded", !.entity = e, !.found = rows[e]]
            t == [s EXCEPT !.since = now]
<1>1. rows[e] \in Rows
  BY DEF Find, TypeInv, TypeOK
<1>2. s \in RequestStates
  BY <1>1, IdleState DEF RequestStates
<1>3. Begin(r, s)
  BY DEF Find
<1>. HIDE DEF s
<1>4. t \in RequestStates /\ Goes(r, t) /\ requests' \in 0..MaxRequests
  BY <1>2, <1>3, BeginTyped DEF TypeInv
<1>5. s.pc = "loaded" /\ s.entity = e /\ s.found = rows[e]
  BY IdleState DEF s, RequestStates
<1>6. StateShape(t)
  BY <1>1, <1>2, <1>5 DEF StateShape, RequestStates
<1>. HIDE DEF t
<1>7. Shape' /\ req' \in [Requests -> RequestStates]
  BY <1>4, <1>6, MoveKept DEF Find
<1>. QED
  BY <1>4, <1>7 DEF TypeInv, TypeOK, Find

LEMMA FindEntryTyped ==
  ASSUME TypeInv, NEW r \in Requests, NEW i \in Ids, FindEntry(r, i)
  PROVE  TypeInv'
<1>. DEFINE s == [Idle EXCEPT !.pc = "fetched", !.entity = log[i].entity, !.id = i]
            t == [s EXCEPT !.since = now]
<1>1. i \in DOMAIN log /\ log[i] \in Entries
  BY DEF FindEntry, Live, TypeInv, TypeOK
<1>2. s \in RequestStates
  BY <1>1, IdleState DEF RequestStates, Entries
<1>3. Begin(r, s)
  BY DEF FindEntry
<1>. HIDE DEF s
<1>4. t \in RequestStates /\ Goes(r, t) /\ requests' \in 0..MaxRequests
  BY <1>2, <1>3, BeginTyped DEF TypeInv
<1>5. s.pc = "fetched" /\ s.entity = log[i].entity /\ s.id = i
  BY IdleState DEF s, RequestStates
<1>6. StateShape(t)
  BY <1>1, <1>2, <1>5 DEF StateShape, RequestStates
<1>. HIDE DEF t
<1>7. Shape' /\ req' \in [Requests -> RequestStates]
  BY <1>4, <1>6, MoveKept DEF FindEntry
<1>. QED
  BY <1>4, <1>7 DEF TypeInv, TypeOK, FindEntry

LEMMA ArchiveBeginsTyped ==
  ASSUME TypeInv, NEW r \in Requests, ArchiveBegins(r)
  PROVE  TypeInv'
<1>. DEFINE s == [Idle EXCEPT !.pc = "count", !.events = TRUE]
            t == [s EXCEPT !.since = now]
<1>2. s \in RequestStates
  BY IdleState DEF RequestStates
<1>3. Begin(r, s)
  BY DEF ArchiveBegins
<1>. HIDE DEF s
<1>4. t \in RequestStates /\ Goes(r, t) /\ requests' \in 0..MaxRequests
  BY <1>2, <1>3, BeginTyped DEF TypeInv
<1>5. s.pc = "count"
  BY IdleState DEF s, RequestStates
<1>6. StateShape(t)
  BY <1>2, <1>5 DEF StateShape, RequestStates
<1>. HIDE DEF t
<1>7. Shape' /\ req' \in [Requests -> RequestStates]
  BY <1>4, <1>6, MoveKept DEF ArchiveBegins
<1>. QED
  BY <1>4, <1>7 DEF TypeInv, TypeOK, ArchiveBegins

(* The rest of a step that has moved its request and grown the log.        *)
LEMMA GrownTyped ==
  ASSUME TypeInv, NEW x, Grows(x), Shape', req' \in [Requests -> RequestStates],
         rows' \in [Entities -> Rows \cup {NoRow}], disturbed' \subseteq Entities,
         raced' \subseteq Ids, faults' \in 0..MaxFaults,
         requests' \in 0..MaxRequests, UNCHANGED <<deleted, archive, used, now>>
  PROVE  TypeInv'
BY DEF TypeInv, TypeOK, Grows

LEMMA AfterCreateTyped ==
  ASSUME TypeInv, NEW r \in Requests, AfterCreate(r)
  PROVE  TypeInv'
<1>. DEFINE x == Entry(req[r].entity, "insert", NoColumns, InMemory(req[r].row), 0)
<1>1. req[r].entity \in Entities /\ req[r].row \in Rows
  BY DEF AfterCreate, TypeInv, Shape, StateShape
<1>2. x \in Entries
  BY <1>1, InMemoryTyped, NoColumnsPartial, EntryTyped DEF TypeInv
<1>3. EntryShape(x)
  BY <1>1 DEF EntryShape, Entry
<1>4. Record(r, x, FALSE) /\ Ends(r)
  BY DEF AfterCreate
<1>. HIDE DEF x
<1>5. Grows(x) /\ disturbed' \subseteq Entities /\ faults' \in 0..MaxFaults
  BY <1>1, <1>2, <1>4, RecordGrows DEF TypeInv
<1>6. Shape' /\ req' \in [Requests -> RequestStates]
  BY <1>3, <1>4, <1>5, IdleState, ShapeKept DEF Ends
<1>. QED
  BY <1>5, <1>6, GrownTyped DEF AfterCreate, TypeInv, TypeOK

LEMMA BeforeUpdateTyped ==
  ASSUME TypeInv, NEW r \in Requests, BeforeUpdate(r)
  PROVE  TypeInv'
<1>. DEFINE X(row) == Entry(req[r].entity, "update", OldValues(req[r].found, row),
                            OnlyColumns(row, ChangedFields(req[r].found, row)), 0)
            s(row) == [req[r] EXCEPT !.pc = "saving", !.row = row]
<1>1. PICK row \in Rows : Record(r, X(row), Stale(r)) /\ Goes(r, s(row))
  BY DEF BeforeUpdate
<1>2. req[r].entity \in Entities /\ req[r].found \in Rows
      /\ req[r] \in RequestStates
  BY DEF BeforeUpdate, TypeInv, TypeOK, Shape, StateShape
<1>3. ChangedFields(req[r].found, row) \in SUBSET Columns
  BY DEF ChangedFields
<1>4. /\ OldValues(req[r].found, row) \in PartialRows
      /\ OnlyColumns(row, ChangedFields(req[r].found, row)) \in PartialRows
  BY <1>2, <1>3, ColumnsArePartial DEF OldValues
<1>5. X(row) \in Entries
  BY <1>2, <1>4, RowsArePartial, EntryTyped DEF TypeInv
<1>6. EntryShape(X(row))
  BY <1>2 DEF EntryShape, Entry
<1>7. Stale(r) \in BOOLEAN
  BY DEF Stale
<1>. HIDE DEF X
<1>8. Grows(X(row)) /\ disturbed' \subseteq Entities /\ faults' \in 0..MaxFaults
  BY <1>1, <1>2, <1>5, <1>7, RecordGrows DEF TypeInv
<1>9. s(row) \in RequestStates /\ StateShape(s(row))
  BY <1>2 DEF RequestStates, StateShape
<1>. HIDE DEF s
<1>10. Shape' /\ req' \in [Requests -> RequestStates]
  BY <1>1, <1>6, <1>8, <1>9, ShapeKept
<1>. QED
  BY <1>8, <1>10, GrownTyped DEF BeforeUpdate, TypeInv, TypeOK

LEMMA BeforeDeleteTyped ==
  ASSUME TypeInv, NEW r \in Requests, BeforeDelete(r)
  PROVE  TypeInv'
<1>. DEFINE x == Entry(req[r].entity, "delete", req[r].found, NoRow, 0)
            s == [req[r] EXCEPT !.pc = "deleting"]
<1>1. req[r].entity \in Entities /\ req[r].found \in Rows
      /\ req[r] \in RequestStates
  BY DEF BeforeDelete, TypeInv, TypeOK, Shape, StateShape
<1>2. x \in Entries
  BY <1>1, RowsArePartial, EntryTyped DEF TypeInv
<1>3. EntryShape(x)
  BY <1>1 DEF EntryShape, Entry
<1>4. Record(r, x, Stale(r)) /\ Goes(r, s) /\ Stale(r) \in BOOLEAN
  BY DEF BeforeDelete, Step, Stale
<1>. HIDE DEF x
<1>5. Grows(x) /\ disturbed' \subseteq Entities /\ faults' \in 0..MaxFaults
  BY <1>1, <1>2, <1>4, RecordGrows DEF TypeInv
<1>6. s \in RequestStates /\ StateShape(s)
  BY <1>1 DEF RequestStates, StateShape
<1>. HIDE DEF s
<1>7. Shape' /\ req' \in [Requests -> RequestStates]
  BY <1>3, <1>4, <1>5, <1>6, ShapeKept
<1>. QED
  BY <1>5, <1>7, GrownTyped DEF BeforeDelete, TypeInv, TypeOK

LEMMA RecordReversalTyped ==
  ASSUME TypeInv, NEW r \in Requests, RecordReversal(r)
  PROVE  TypeInv'
<1>. DEFINE x == Entry(req[r].entity, "reversal", NoColumns,
                       ReversalValues(log[req[r].id]), req[r].id)
<1>1. /\ req[r].id \in Ids /\ req[r].id \in DOMAIN log
      /\ req[r].entity = log[req[r].id].entity
      /\ log[req[r].id].action \in {"insert", "update", "delete"}
      /\ log[req[r].id] \in Entries /\ EntryShape(log[req[r].id])
  BY DEF RecordReversal, TypeInv, TypeOK, Shape, StateShape
<1>2. /\ req[r].entity \in Entities
      /\ ReversalValues(log[req[r].id]) \in PartialRows \cup {NoRow}
  BY <1>1 DEF EntryShape, ReversalValues, Entries
<1>3. x \in Entries
  BY <1>1, <1>2, NoColumnsPartial, RowsArePartial, EntryTyped DEF TypeInv
<1>4. EntryShape(x)
  BY <1>2 DEF EntryShape, Entry
<1>5. Record(r, x, FALSE) /\ Ends(r)
  BY DEF RecordReversal
<1>. HIDE DEF x
<1>6. Grows(x) /\ disturbed' \subseteq Entities /\ faults' \in 0..MaxFaults
  BY <1>2, <1>3, <1>5, RecordGrows DEF TypeInv
<1>7. Shape' /\ req' \in [Requests -> RequestStates]
  BY <1>4, <1>5, <1>6, IdleState, ShapeKept DEF Ends
<1>. QED
  BY <1>6, <1>7, GrownTyped DEF RecordReversal, TypeInv, TypeOK

LEMMA RecordEventTyped ==
  ASSUME TypeInv, NEW r \in Requests, RecordEvent(r)
  PROVE  TypeInv'
<1>. DEFINE x == Entry(NoEntity, "event", NoColumns, NoColumns, 0)
<1>1. x \in Entries
  BY NoColumnsPartial, RowsArePartial, EntryTyped DEF TypeInv
<1>2. EntryShape(x)
  BY DEF EntryShape, Entry
<1>3. log' = Append(log, x)
  BY DEF RecordEvent
<1>. HIDE DEF x
<1>4. Grows(x)
  BY <1>1, <1>3, AppendGrows DEF TypeInv
<1>5. req[r] \in RequestStates /\ StateShape(req[r]) /\ Goes(r, req[r])
  BY DEF RecordEvent, TypeInv, TypeOK, Shape, Goes
<1>6. Shape' /\ req' \in [Requests -> RequestStates]
  BY <1>2, <1>4, <1>5, ShapeKept
<1>7. requests' \in 0..MaxRequests
  BY AuditAssumption DEF RecordEvent, TypeInv, TypeOK, AuditAssumption
<1>. QED
  BY <1>4, <1>6, <1>7, GrownTyped DEF RecordEvent, TypeInv, TypeOK

LEMMA SaveTyped ==
  ASSUME TypeInv, NEW r \in Requests,
         Save(r) \/ SaveUnchanged(r) \/ Delete(r)
  PROVE  TypeInv'
<1>1. Shape' /\ req' \in [Requests -> RequestStates]
  BY EndKept DEF Save, SaveUnchanged, Delete
<1>2. /\ req[r].entity \in Entities
      /\ Save(r) => req[r].row \in PartialRows
      /\ SaveUnchanged(r) => req[r].found \in PartialRows
  BY RowsArePartial DEF Save, SaveUnchanged, Delete, TypeInv, Shape, StateShape
<1>3. rows[req[r].entity] \in Rows \cup {NoRow}
  BY <1>2 DEF TypeInv, TypeOK
<1>4. rows' \in [Entities -> Rows \cup {NoRow}]
  <2>1. CASE Save(r)
    <3>1. Updated(rows[req[r].entity], req[r].row) \in Rows \cup {NoRow}
      BY <1>2, <1>3, <2>1, UpdatedTyped
    <3>. QED
      BY <1>2, <2>1, <3>1 DEF Save, TypeInv, TypeOK
  <2>2. CASE SaveUnchanged(r)
    <3>1. Updated(rows[req[r].entity], req[r].found) \in Rows \cup {NoRow}
      BY <1>2, <1>3, <2>2, UpdatedTyped
    <3>. QED
      BY <1>2, <2>2, <3>1 DEF SaveUnchanged, TypeInv, TypeOK
  <2>3. CASE Delete(r)
    BY <1>2, <2>3 DEF Delete, TypeInv, TypeOK
  <2>. QED
    BY <2>1, <2>2, <2>3
<1>5. disturbed' \subseteq Entities
  BY <1>2 DEF Save, SaveUnchanged, Delete, Disturbs, TypeInv, TypeOK
<1>. QED
  BY <1>1, <1>4, <1>5 DEF Save, SaveUnchanged, Delete, TypeInv, TypeOK

LEMMA CheckReversibleTyped ==
  ASSUME TypeInv, NEW r \in Requests, CheckReversible(r)
  PROVE  TypeInv'
<1>1. req[r] \in RequestStates /\ req[r].id \in Ids /\ StateShape(req[r])
  BY DEF CheckReversible, TypeInv, TypeOK, Shape, StateShape
<1>2. Shape' /\ req' \in [Requests -> RequestStates]
  <2>1. CASE IsReversible(req[r].id)
    <3>. DEFINE s == [req[r] EXCEPT !.pc = "reversible"]
    <3>1. s \in RequestStates /\ Goes(r, s)
      BY <1>1, <2>1 DEF RequestStates, CheckReversible, Step
    <3>2. StateShape(s)
      BY <1>1, <2>1 DEF RequestStates, StateShape, IsReversible, CheckReversible
    <3>. HIDE DEF s
    <3>. QED
      BY <3>1, <3>2, MoveKept DEF CheckReversible
  <2>2. CASE ~IsReversible(req[r].id)
    BY <2>2, EndKept DEF CheckReversible
  <2>. QED
    BY <2>1, <2>2
<1>3. raced' \subseteq Ids
  BY <1>1 DEF CheckReversible, TypeInv, TypeOK
<1>. QED
  BY <1>2, <1>3 DEF CheckReversible, TypeInv, TypeOK

LEMMA ApplyTyped ==
  ASSUME TypeInv, NEW r \in Requests, Apply(r)
  PROVE  TypeInv'
<1>. DEFINE e == req[r].entity
            x == log[req[r].id]
            s == [req[r] EXCEPT !.pc = "applied"]
<1>1. /\ req[r] \in RequestStates /\ StateShape(req[r]) /\ x \in Entries
      /\ e = x.entity /\ x.action \in {"insert", "update", "delete"}
      /\ EntryShape(x) /\ req[r].pc = "reversible"
  BY DEF Apply, TypeInv, TypeOK, Shape, StateShape
<1>2. e \in Entities /\ rows[e] \in Rows \cup {NoRow} /\ x.old \in PartialRows
  BY <1>1 DEF EntryShape, TypeInv, TypeOK, Entries
<1>3. Updated(rows[e], x.old) \in Rows \cup {NoRow}
  BY <1>2, UpdatedTyped
<1>4. Restored(rows[e], x) \in Rows \cup {NoRow}
  BY <1>1, <1>3 DEF Restored, EntryShape
<1>5. CASE x.action = "delete" /\ rows[e] # NoRow
  <2>1. Shape' /\ req' \in [Requests -> RequestStates]
    BY <1>5, EndKept DEF Apply
  <2>. QED
    BY <1>5, <2>1 DEF Apply, TypeInv, TypeOK
<1>6. CASE ~(x.action = "delete" /\ rows[e] # NoRow)
  <2>1. s \in RequestStates /\ StateShape(s)
    BY <1>1 DEF RequestStates, StateShape
  <2>2. Goes(r, s) /\ UNCHANGED log
    BY <1>6 DEF Apply, Step
  <2>. HIDE DEF s
  <2>3. Shape' /\ req' \in [Requests -> RequestStates]
    BY <2>1, <2>2, MoveKept
  <2>4. rows' = [rows EXCEPT ![e] = Restored(rows[e], x)]
    BY <1>6 DEF Apply
  <2>5. rows' \in [Entities -> Rows \cup {NoRow}]
    BY <1>2, <1>4, <2>4 DEF TypeInv, TypeOK
  <2>6. disturbed' \subseteq Entities
    BY <1>2, <1>6 DEF Apply, Disturbs, TypeInv, TypeOK
  <2>. QED
    BY <2>3, <2>5, <2>6 DEF Apply, TypeInv, TypeOK
<1>. QED
  BY <1>5, <1>6

LEMMA PassEndsKept ==
  ASSUME TypeInv, NEW r \in Requests, PassEnds(r), UNCHANGED log
  PROVE  Shape' /\ req' \in [Requests -> RequestStates]
<1>. DEFINE s == [Idle EXCEPT !.pc = "count", !.since = req[r].since]
<1>1. CASE req[r].events
  <2>1. req[r].since \in 0..MaxTime
    BY DEF TypeInv, TypeOK, RequestStates
  <2>2. s \in RequestStates /\ s.pc = "count"
    BY <2>1, IdleState DEF RequestStates
  <2>3. StateShape(s)
    BY <2>2 DEF StateShape
  <2>4. Goes(r, s)
    BY <1>1 DEF PassEnds
  <2>. HIDE DEF s
  <2>. QED
    BY <2>2, <2>3, <2>4, MoveKept
<1>2. CASE ~req[r].events
  BY <1>2, EndKept DEF PassEnds
<1>. QED
  BY <1>1, <1>2

LEMMA CountOldTyped ==
  ASSUME TypeInv, NEW r \in Requests, CountOld(r)
  PROVE  TypeInv'
<1>. DEFINE cutoff == Cutoff(req[r].events)
            s == [req[r] EXCEPT !.pc = "copy", !.cutoff = cutoff]
<1>1. cutoff \in Int
  BY AuditAssumption DEF Cutoff, TypeInv, TypeOK, AuditAssumption
<1>. HIDE DEF cutoff
<1>2. req[r] \in RequestStates
  BY DEF TypeInv, TypeOK
<1>3. s \in RequestStates /\ s.pc = "copy"
  BY <1>1, <1>2 DEF RequestStates
<1>4. StateShape(s)
  BY <1>3 DEF StateShape
<1>5. (PassEnds(r) \/ Goes(r, s)) /\ UNCHANGED log
  BY DEF CountOld, cutoff
<1>. HIDE DEF s
<1>6. Shape' /\ req' \in [Requests -> RequestStates]
  BY <1>3, <1>4, <1>5, MoveKept, PassEndsKept
<1>. QED
  BY <1>6 DEF CountOld, TypeInv, TypeOK

LEMMA CopyOldTyped ==
  ASSUME TypeInv, NEW r \in Requests, CopyOld(r)
  PROVE  TypeInv'
<1>. DEFINE old == Old(req[r].events, req[r].cutoff)
            s == [req[r] EXCEPT !.pc = "purge", !.ids = old]
<1>1. old \in SUBSET Nat
  BY DEF Old, Live, TypeInv, TypeOK
<1>2. Goes(r, s) /\ UNCHANGED log /\ req[r] \in RequestStates
  BY DEF CopyOld, TypeInv, TypeOK
<1>. HIDE DEF old
<1>3. s \in RequestStates /\ s.pc = "purge"
  BY <1>1, <1>2 DEF RequestStates
<1>4. s.ids = old /\ old \subseteq DOMAIN log
  BY <1>2 DEF old, Old, Live, RequestStates
<1>5. StateShape(s)
  BY <1>3, <1>4 DEF StateShape
<1>. HIDE DEF s
<1>6. Shape' /\ req' \in [Requests -> RequestStates]
  BY <1>2, <1>3, <1>5, MoveKept
<1>. QED
  BY <1>6 DEF CopyOld, TypeInv, TypeOK

LEMMA AbortTyped ==
  ASSUME TypeInv, NEW r \in Requests, Abort(r)
  PROVE  TypeInv'
<1>1. Shape' /\ req' \in [Requests -> RequestStates]
  BY EndKept DEF Abort
<1>2. faults' \in 0..MaxFaults
  BY FaultTyped DEF Abort, TypeInv
<1>3. HalfDone(r) => req[r].entity \in Entities
  BY DEF HalfDone, TypeInv, Shape, StateShape, EntryShape
<1>4. disturbed' \subseteq Entities
  BY <1>3 DEF Abort, TypeInv, TypeOK
<1>. QED
  BY <1>1, <1>2, <1>4 DEF Abort, TypeInv, TypeOK

LEMMA TickTyped ==
  ASSUME TypeInv, Tick
  PROVE  TypeInv'
<1>1. now' \in 0..MaxTime
  BY AuditAssumption DEF Tick, TypeInv, TypeOK, AuditAssumption
<1>2. Shape'
  BY DEF Tick, TypeInv, Shape, StateShape
<1>. QED
  BY <1>1, <1>2 DEF Tick, TypeInv, TypeOK

LEMMA PurgeOldTyped ==
  ASSUME TypeInv, NEW r \in Requests, PurgeOld(r)
  PROVE  TypeInv'
<1>1. Shape' /\ req' \in [Requests -> RequestStates]
  BY EndKept, PassEndsKept DEF PurgeOld
<1>2. req[r].ids \subseteq DOMAIN log
  BY DEF PurgeOld, TypeInv, Shape, StateShape
<1>3. archive' \subseteq DOMAIN log /\ deleted' \subseteq DOMAIN log
  BY <1>2 DEF PurgeOld, Purged, Old, Live, TypeInv, TypeOK
<1>. QED
  BY <1>1, <1>3 DEF PurgeOld, TypeInv, TypeOK

LEMMA WriteUnloggedTyped ==
  ASSUME TypeInv, NEW e \in Entities, WriteUnlogged(e)
  PROVE  TypeInv'
<1>1. requests' \in 0..MaxRequests
  BY AuditAssumption DEF WriteUnlogged, TypeInv, TypeOK, AuditAssumption
<1>2. Shape'
  BY DEF WriteUnlogged, TypeInv, Shape, StateShape
<1>. QED
  BY <1>1, <1>2 DEF WriteUnlogged, TypeInv, TypeOK

LEMMA TypeInvInit == Init => TypeInv
<1>. SUFFICES ASSUME Init PROVE TypeInv
  OBVIOUS
<1>1. log \in Seq(Entries) /\ DOMAIN log = {}
  BY DEF Init
<1>2. req \in [Requests -> RequestStates] /\ \A r \in Requests : StateShape(req[r])
  BY IdleState DEF Init
<1>. QED
  BY <1>1, <1>2, AuditAssumption DEF Init, TypeInv, TypeOK, Shape, AuditAssumption

LEMMA TypeInvNext == TypeInv /\ [Next]_vars => TypeInv'
<1>. SUFFICES ASSUME TypeInv, [Next]_vars PROVE TypeInv'
  OBVIOUS
<1>1. CASE UNCHANGED vars
  BY <1>1 DEF vars, TypeInv, TypeOK, Shape, StateShape
<1>2. CASE Tick
  BY <1>2, TickTyped
<1>3. ASSUME NEW r \in Requests,
             \/ \E e \in Entities : Create(r, e) \/ Find(r, e)
             \/ \E i \in Ids : FindEntry(r, i)
             \/ AfterCreate(r) \/ RecordEvent(r)
             \/ BeforeUpdate(r) \/ Save(r) \/ SaveUnchanged(r)
             \/ BeforeDelete(r) \/ Delete(r)
             \/ CheckReversible(r) \/ Apply(r) \/ RecordReversal(r)
             \/ ArchiveBegins(r) \/ CountOld(r) \/ CopyOld(r) \/ PurgeOld(r)
             \/ Abort(r)
      PROVE  TypeInv'
  BY <1>3, CreateTyped, FindTyped, FindEntryTyped, AfterCreateTyped,
     RecordEventTyped, BeforeUpdateTyped, SaveTyped, BeforeDeleteTyped,
     CheckReversibleTyped, ApplyTyped, RecordReversalTyped, ArchiveBeginsTyped,
     CountOldTyped, CopyOldTyped, PurgeOldTyped, AbortTyped
<1>. QED
  BY <1>1, <1>2, <1>3, WriteUnloggedTyped DEF Next

(* The tables, the log and every request hold what they are said to hold.  *)
THEOREM TypeCorrect == Spec => []TypeOK
<1>1. TypeInv => TypeOK
  BY DEF TypeInv
<1>. QED
  BY <1>1, TypeInvInit, TypeInvNext, PTL DEF Spec

-----------------------------------------------------------------------------
(* Ids, times and the archive.                                             *)

Event(i) == log[i].action = "event"

(* Ids are given out in the order of the times, and nothing of the present *)
(* is archived.                                                            *)
Times ==
  /\ \A i, j \in DOMAIN log : i <= j => log[i].at <= log[j].at
  /\ \A i \in DOMAIN log : log[i].at <= now
  /\ \A i \in deleted : log[i].at < now

PointsBack(id, j) ==
  /\ id \in DOMAIN log /\ id < j
  /\ log[id].action \in {"insert", "update", "delete"}

Reversals ==
  \A j \in DOMAIN log :
    log[j].reverses # 0 => log[j].action = "reversal" /\ PointsBack(log[j].reverses, j)

ClosedDownwards ==
  \A i \in DOMAIN log, j \in deleted :
    log[i].at <= log[j].at /\ Event(i) = Event(j) => i \in deleted

(* What an archiver has copied is what it will delete, or another one has  *)
(* taken some of it meanwhile.                                             *)
StateOrder(s) ==
  /\ s.pc \in {"copy", "purge"} => s.cutoff <= now
  /\ s.pc = "purge" =>
       /\ Old(s.events, s.cutoff) \subseteq s.ids
       /\ s.ids \subseteq Old(s.events, s.cutoff) \cup deleted

InOrder ==
  /\ archive = deleted
  /\ Times
  /\ Reversals
  /\ ClosedDownwards
  /\ \A r \in Requests : StateOrder(req[r])

(* Steps that append to the log.                                           *)
LEMMA OrderGrown ==
  ASSUME TypeInv, InOrder, NEW x \in Entries, Grows(x), x.at = now,
         x.reverses = 0 \/ (x.action = "reversal" /\ PointsBack(x.reverses, Len(log) + 1)),
         NEW r \in Requests, NEW s, Goes(r, s), s.pc \notin {"copy", "purge"},
         UNCHANGED <<deleted, archive, now>>
  PROVE  InOrder'
<1>0. /\ log \in Seq(Entries) /\ log' \in Seq(Entries)
      /\ now \in 0..MaxTime /\ deleted \subseteq DOMAIN log
  BY DEF TypeInv, TypeOK, Grows
<1>1. /\ Len(log) \in Nat /\ DOMAIN log = 1..Len(log)
      /\ deleted \subseteq DOMAIN log /\ now \in Int
      /\ \A i \in DOMAIN log : log[i].at \in Int
      /\ \A i \in DOMAIN log' : i \in Int
  <2>1. Len(log) \in Nat /\ DOMAIN log = 1..Len(log)
    BY <1>0
  <2>2. \A i \in DOMAIN log' : i \in Int
    BY <1>0
  <2>3. \A i \in DOMAIN log : log[i].at \in Int
    <3>1. \A i \in DOMAIN log : log[i] \in Entries
      BY <1>0
    <3>2. \A i \in DOMAIN log : log[i].at \in 0..MaxTime
      BY <3>1 DEF Entries
    <3>. QED
      BY <3>2
  <2>. QED
    BY <1>0, <2>1, <2>2, <2>3
<1>2. archive' = deleted'
  BY DEF InOrder
<1>3. \A i \in DOMAIN log' :
        \/ i \in DOMAIN log /\ log'[i] = log[i] /\ i <= Len(log)
        \/ i \notin DOMAIN log /\ log'[i] = x /\ i = Len(log) + 1
  BY <1>1 DEF Grows
<1>4. Times'
  <2>1. /\ \A i, j \in DOMAIN log : i <= j => log[i].at <= log[j].at
        /\ \A i \in DOMAIN log : log[i].at <= now
        /\ \A i \in deleted : log[i].at < now
    BY DEF InOrder, Times
  <2>2. \A i \in DOMAIN log' : log'[i].at <= now
    BY <1>1, <1>3, <2>1
  <2>3. \A i, j \in DOMAIN log' : i <= j => log'[i].at <= log'[j].at
    <3>. SUFFICES ASSUME NEW i \in DOMAIN log', NEW j \in DOMAIN log', i <= j
                  PROVE  log'[i].at <= log'[j].at
      OBVIOUS
    <3>1. CASE j \in DOMAIN log
      <4>1. i \in DOMAIN log /\ log'[i] = log[i] /\ log'[j] = log[j]
        BY <1>1, <1>3, <3>1
      <4>. QED
        BY <2>1, <3>1, <4>1
    <3>2. CASE j \notin DOMAIN log
      BY <1>3, <2>2, <3>2
    <3>. QED
      BY <3>1, <3>2
  <2>4. \A i \in deleted : log'[i].at < now
    BY <1>1, <2>1 DEF Grows
  <2>. QED
    BY <2>2, <2>3, <2>4 DEF Times
<1>5. Reversals'
  <2>. SUFFICES ASSUME NEW j \in DOMAIN log', log'[j].reverses # 0
                PROVE  (log[j].action = "reversal" /\ PointsBack(log[j].reverses, j))'
    BY DEF Reversals
  <2>1. CASE j \in DOMAIN log
    <3>1. log'[j] = log[j]
      BY <1>3, <2>1
    <3>2. log[j].action = "reversal" /\ PointsBack(log[j].reverses, j)
      BY <2>1, <3>1 DEF InOrder, Reversals
    <3>. QED
      BY <3>1, <3>2 DEF PointsBack, Grows
  <2>2. CASE j \notin DOMAIN log
    <3>1. log'[j] = x /\ j = Len(log) + 1
      BY <1>3, <2>2
    <3>2. x.action = "reversal" /\ PointsBack(x.reverses, Len(log) + 1)
      BY <3>1
    <3>. QED
      BY <3>1, <3>2 DEF PointsBack, Grows
  <2>. QED
    BY <2>1, <2>2
<1>6. ClosedDownwards'
  <2>. SUFFICES ASSUME NEW i \in DOMAIN log', NEW j \in deleted,
                       log'[i].at <= log'[j].at, Event(i)' = Event(j)'
                PROVE  i \in deleted
    BY DEF ClosedDownwards
  <2>1. j \in DOMAIN log /\ log'[j] = log[j] /\ log[j].at < now
    BY <1>1 DEF Grows, InOrder, Times
  <2>2. i \in DOMAIN log /\ log'[i] = log[i]
    BY <1>1, <1>3, <2>1
  <2>. QED
    BY <2>1, <2>2 DEF InOrder, ClosedDownwards, Event
<1>7. \A q \in Requests : StateOrder(req[q])'
  <2>. SUFFICES ASSUME NEW q \in Requests PROVE StateOrder(req[q])'
    OBVIOUS
  <2>1. CASE q = r
    BY <2>1 DEF StateOrder, Goes, TypeInv, TypeOK
  <2>2. CASE q # r
    <3>1. req'[q] = req[q] /\ StateOrder(req[q]) /\ req[q] \in RequestStates
      BY <2>2 DEF Goes, TypeInv, TypeOK, InOrder
    <3>. DEFINE events == req[q].events
                cutoff == req[q].cutoff
    <3>2. req[q].pc \in {"copy", "purge"} => cutoff \in Int /\ cutoff <= now
      BY <3>1 DEF StateOrder, RequestStates
    <3>3. req[q].pc \in {"copy", "purge"} =>
            {i \in (DOMAIN log') \ deleted' :
               (log'[i].action = "event") = events /\ log'[i].at < cutoff}
            = Old(events, cutoff)
      <4>. HIDE DEF events, cutoff
      <4>. SUFFICES ASSUME req[q].pc \in {"copy", "purge"}, NEW i \in DOMAIN log',
                           i \notin DOMAIN log
                    PROVE  ~(log'[i].at < cutoff)
        BY <1>3 DEF Old, Live, Grows
      <4>. QED
        BY <1>1, <1>3, <3>2
    <3>. QED
      BY <3>1, <3>3 DEF StateOrder, Old, Live
  <2>. QED
    BY <2>1, <2>2
<1>. QED
  BY <1>2, <1>4, <1>5, <1>6, <1>7 DEF InOrder

(* Steps that move one request only.                                       *)
LEMMA OrderMoved ==
  ASSUME TypeInv, InOrder, NEW r \in Requests, NEW s, Goes(r, s), StateOrder(s),
         UNCHANGED <<log, deleted, archive, now>>
  PROVE  InOrder'
<1>1. \A q \in Requests : StateOrder(req'[q])
  BY DEF Goes, InOrder, TypeInv, TypeOK
<1>2. \A q \in Requests : StateOrder(req[q])'
  BY <1>1 DEF StateOrder, Old, Live
<1>3. archive' = deleted' /\ Times' /\ Reversals' /\ ClosedDownwards'
  BY DEF InOrder, Times, Reversals, PointsBack, ClosedDownwards, Event
<1>. QED
  BY <1>2, <1>3 DEF InOrder

(* The steps that write to the log, each with its entry.                   *)
LEMMA EntryWritten ==
  ASSUME TypeInv, NEW r \in Requests,
         \/ AfterCreate(r) \/ BeforeUpdate(r) \/ BeforeDelete(r)
         \/ RecordReversal(r) \/ RecordEvent(r)
  PROVE  /\ \E x \in Entries :
              /\ Grows(x) /\ x.at = now
              /\ IF RecordReversal(r)
                   THEN x.action = "reversal" /\ x.reverses = req[r].id
                   ELSE x.reverses = 0
         /\ \E s : Goes(r, s) /\ s.pc \in {"idle", "saving", "deleting"}
         /\ UNCHANGED <<deleted, archive, now>>
<1>0. /\ req[r] \in RequestStates /\ StateShape(req[r])
      /\ req[r].id \in {0} \cup Ids
  BY DEF TypeInv, TypeOK, Shape, RequestStates
<1>1. CASE AfterCreate(r)
  <2>. DEFINE x == Entry(req[r].entity, "insert", NoColumns, InMemory(req[r].row), 0)
  <2>1. req[r].entity \in Entities /\ req[r].row \in Rows
        /\ ~RecordReversal(r)
    BY <1>0, <1>1 DEF AfterCreate, StateShape, RecordReversal
  <2>2. x \in Entries /\ x.at = now /\ x.reverses = 0
    BY <2>1, InMemoryTyped, NoColumnsPartial, EntryTyped DEF TypeInv, Entry
  <2>3. Record(r, x, FALSE) /\ Goes(r, Idle) /\ Idle.pc = "idle"
    BY <1>1 DEF AfterCreate, Ends, Idle
  <2>. HIDE DEF x
  <2>4. Grows(x)
    BY <2>1, <2>2, <2>3, RecordGrows DEF TypeInv
  <2>. QED
    BY <1>1, <2>1, <2>2, <2>3, <2>4 DEF AfterCreate
<1>2. CASE BeforeUpdate(r)
  <2>. DEFINE X(row) == Entry(req[r].entity, "update", OldValues(req[r].found, row),
                              OnlyColumns(row, ChangedFields(req[r].found, row)), 0)
              s(row) == [req[r] EXCEPT !.pc = "saving", !.row = row]
  <2>1. PICK row \in Rows : Record(r, X(row), Stale(r)) /\ Goes(r, s(row))
    BY <1>2 DEF BeforeUpdate
  <2>2. req[r].entity \in Entities /\ req[r].found \in Rows
        /\ Stale(r) \in BOOLEAN /\ ~RecordReversal(r)
    BY <1>0, <1>2 DEF BeforeUpdate, StateShape, Stale, RecordReversal
  <2>3. ChangedFields(req[r].found, row) \in SUBSET Columns
    BY DEF ChangedFields
  <2>4. /\ OldValues(req[r].found, row) \in PartialRows
        /\ OnlyColumns(row, ChangedFields(req[r].found, row)) \in PartialRows
    BY <2>2, <2>3, ColumnsArePartial DEF OldValues
  <2>5. X(row) \in Entries /\ X(row).at = now /\ X(row).reverses = 0
    BY <2>2, <2>4, RowsArePartial, EntryTyped DEF TypeInv, Entry
  <2>6. s(row).pc = "saving"
    BY <1>0 DEF RequestStates
  <2>. HIDE DEF X, s
  <2>7. Grows(X(row))
    BY <2>1, <2>2, <2>5, RecordGrows DEF TypeInv
  <2>. QED
    BY <1>2, <2>1, <2>2, <2>5, <2>6, <2>7 DEF BeforeUpdate
<1>3. CASE BeforeDelete(r)
  <2>. DEFINE x == Entry(req[r].entity, "delete", req[r].found, NoRow, 0)
              s == [req[r] EXCEPT !.pc = "deleting"]
  <2>1. req[r].entity \in Entities /\ req[r].found \in Rows
        /\ Stale(r) \in BOOLEAN /\ ~RecordReversal(r)
    BY <1>0, <1>3 DEF BeforeDelete, StateShape, Stale, RecordReversal
  <2>2. x \in Entries /\ x.at = now /\ x.reverses = 0
    BY <2>1, RowsArePartial, EntryTyped DEF TypeInv, Entry
  <2>3. Record(r, x, Stale(r)) /\ Goes(r, s) /\ s.pc = "deleting"
    BY <1>0, <1>3 DEF BeforeDelete, Step, RequestStates
  <2>. HIDE DEF x, s
  <2>4. Grows(x)
    BY <2>1, <2>2, <2>3, RecordGrows DEF TypeInv
  <2>. QED
    BY <1>3, <2>1, <2>2, <2>3, <2>4 DEF BeforeDelete
<1>4. CASE RecordReversal(r)
  <2>. DEFINE x == Entry(req[r].entity, "reversal", NoColumns,
                         ReversalValues(log[req[r].id]), req[r].id)
  <2>1. /\ req[r].id \in Ids
        /\ req[r].entity = log[req[r].id].entity
        /\ log[req[r].id].action \in {"insert", "update", "delete"}
        /\ log[req[r].id] \in Entries /\ EntryShape(log[req[r].id])
    BY <1>0, <1>4 DEF RecordReversal, TypeInv, TypeOK, Shape, StateShape
  <2>2. /\ req[r].entity \in Entities
        /\ ReversalValues(log[req[r].id]) \in PartialRows \cup {NoRow}
    BY <2>1 DEF EntryShape, ReversalValues, Entries
  <2>3. x \in Entries
    BY <2>1, <2>2, NoColumnsPartial, RowsArePartial, EntryTyped DEF TypeInv
  <2>4. x.at = now /\ x.reverses = req[r].id /\ x.action = "reversal"
    BY DEF Entry
  <2>5. Record(r, x, FALSE) /\ Goes(r, Idle) /\ Idle.pc = "idle"
    BY <1>4 DEF RecordReversal, Ends, Idle
  <2>. HIDE DEF x
  <2>6. Grows(x)
    BY <2>2, <2>3, <2>5, RecordGrows DEF TypeInv
  <2>. QED
    BY <1>4, <2>3, <2>4, <2>5, <2>6 DEF RecordReversal
<1>5. CASE RecordEvent(r)
  <2>. DEFINE x == Entry(NoEntity, "event", NoColumns, NoColumns, 0)
  <2>1. x \in Entries /\ x.at = now /\ x.reverses = 0
    BY NoColumnsPartial, RowsArePartial, EntryTyped DEF TypeInv, Entry
  <2>2. log' = Append(log, x) /\ req[r].pc = "idle" /\ ~RecordReversal(r)
    BY <1>5 DEF RecordEvent, RecordReversal
  <2>. HIDE DEF x
  <2>3. Grows(x)
    BY <2>1, <2>2, AppendGrows DEF TypeInv
  <2>4. Goes(r, req[r])
    BY <1>5 DEF RecordEvent, Goes, TypeInv, TypeOK
  <2>. QED
    BY <1>5, <2>1, <2>2, <2>3, <2>4 DEF RecordEvent
<1>. QED
  BY <1>1, <1>2, <1>3, <1>4, <1>5

(* Neither archiving nor about to reverse.                                 *)
Quiet(s) == s.pc \notin {"copy", "purge", "reversible", "applied"}

(* The steps that move one request and leave both tables and the clock.    *)
LEMMA MovesOnly ==
  ASSUME TypeInv, NEW r \in Requests,
         \/ \E e \in Entities : Create(r, e) \/ Find(r, e)
         \/ \E i \in Ids : FindEntry(r, i)
         \/ Save(r) \/ SaveUnchanged(r) \/ Delete(r)
         \/ ArchiveBegins(r) \/ Abort(r)
  PROVE  /\ \E s : Goes(r, s) /\ Quiet(s)
         /\ UNCHANGED <<log, deleted, archive, now>>
<1>0. req[r] \in RequestStates /\ Idle \in RequestStates /\ Idle.pc = "idle"
  BY IdleState DEF TypeInv, TypeOK, Idle
<1>1. \A s \in RequestStates : [s EXCEPT !.since = now].pc = s.pc
  BY DEF RequestStates
<1>2. ASSUME NEW e \in Entities, Create(r, e)
      PROVE  \E s : Goes(r, s) /\ Quiet(s)
  <2>1. PICK row \in Rows :
          Begin(r, [Idle EXCEPT !.pc = "created", !.entity = e, !.row = row])
    BY <1>2 DEF Create
  <2>. DEFINE s == [Idle EXCEPT !.pc = "created", !.entity = e, !.row = row]
  <2>2. s \in RequestStates /\ s.pc = "created" /\ Begin(r, s)
    BY <1>0, <2>1 DEF RequestStates
  <2>. HIDE DEF s
  <2>. QED
    BY <1>1, <2>2 DEF Begin, Quiet
<1>3. ASSUME NEW e \in Entities, Find(r, e)
      PROVE  \E s : Goes(r, s) /\ Quiet(s)
  <2>. DEFINE s == [Idle EXCEPT !.pc = "loaded", !.entity = e, !.found = rows[e]]
  <2>1. rows[e] \in Rows \cup {NoRow}
    BY DEF TypeInv, TypeOK
  <2>2. s \in RequestStates /\ s.pc = "loaded" /\ Begin(r, s)
    BY <1>0, <1>3, <2>1 DEF RequestStates, Find
  <2>. HIDE DEF s
  <2>. QED
    BY <1>1, <2>2 DEF Begin, Quiet
<1>4. ASSUME NEW i \in Ids, FindEntry(r, i)
      PROVE  \E s : Goes(r, s) /\ Quiet(s)
  <2>. DEFINE s == [Idle EXCEPT !.pc = "fetched", !.entity = log[i].entity, !.id = i]
  <2>0. i \in DOMAIN log /\ log \in Seq(Entries)
    BY <1>4 DEF FindEntry, Live, TypeInv, TypeOK
  <2>1. log[i] \in Entries
    BY <2>0
  <2>2. s \in RequestStates /\ s.pc = "fetched" /\ Begin(r, s)
    BY <1>0, <1>4, <2>1 DEF RequestStates, Entries, FindEntry
  <2>. HIDE DEF s
  <2>. QED
    BY <1>1, <2>2 DEF Begin, Quiet
<1>5. ASSUME ArchiveBegins(r)
      PROVE  \E s : Goes(r, s) /\ Quiet(s)
  <2>. DEFINE s == [Idle EXCEPT !.pc = "count", !.events = TRUE]
  <2>1. Begin(r, s)
    BY <1>5 DEF ArchiveBegins
  <2>2. s \in RequestStates
    BY IdleState DEF RequestStates
  <2>3. s.pc = "count"
    BY IdleState DEF RequestStates
  <2>. HIDE DEF s
  <2>. QED
    BY <1>1, <2>1, <2>2, <2>3 DEF Begin, Quiet
<1>6. ASSUME Save(r) \/ SaveUnchanged(r) \/ Delete(r) \/ Abort(r)
      PROVE  Goes(r, Idle)
  BY <1>6 DEF Save, SaveUnchanged, Delete, Abort, Ends
<1>7. UNCHANGED <<log, deleted, archive, now>>
  BY DEF Create, Find, FindEntry, Save, SaveUnchanged, Delete,
         ArchiveBegins, Abort
<1>. QED
  BY <1>0, <1>2, <1>3, <1>4, <1>5, <1>6, <1>7 DEF Quiet

LEMMA ReverserMoves ==
  ASSUME TypeInv, NEW r \in Requests, CheckReversible(r) \/ Apply(r)
  PROVE  \E s : Goes(r, s) /\ s.pc \notin {"copy", "purge"}
<1>1. req[r] \in RequestStates /\ Idle.pc = "idle"
  BY DEF TypeInv, TypeOK, Idle
<1>2. /\ [req[r] EXCEPT !.pc = "reversible"].pc = "reversible"
      /\ [req[r] EXCEPT !.pc = "applied"].pc = "applied"
  BY <1>1 DEF RequestStates
<1>3. \/ Goes(r, [req[r] EXCEPT !.pc = "reversible"])
      \/ Goes(r, [req[r] EXCEPT !.pc = "applied"])
      \/ Goes(r, Idle)
  BY DEF CheckReversible, Apply, Step, Ends
<1>. QED
  BY <1>1, <1>2, <1>3

LEMMA ArchiverOrder ==
  ASSUME TypeInv, InOrder, NEW r \in Requests, CountOld(r) \/ CopyOld(r)
  PROVE  InOrder'
<1>0. /\ req[r] \in RequestStates /\ Idle.pc = "idle"
      /\ [Idle EXCEPT !.pc = "count", !.since = req[r].since].pc = "count"
      /\ now \in 0..MaxTime
  BY DEF Idle, TypeInv, TypeOK
<1>1. PassEnds(r) => \E s : Goes(r, s) /\ s.pc \notin {"copy", "purge"}
  BY <1>0 DEF PassEnds, Ends
<1>2. CASE CountOld(r)
  <2>. DEFINE cutoff == Cutoff(req[r].events)
              s == [req[r] EXCEPT !.pc = "copy", !.cutoff = cutoff]
  <2>1. PassEnds(r) \/ Goes(r, s)
    BY <1>2 DEF CountOld
  <2>2. cutoff <= now
    BY <1>0, AuditAssumption DEF Cutoff, AuditAssumption
  <2>. HIDE DEF cutoff
  <2>3. s.pc = "copy" /\ s.cutoff = cutoff
    BY <1>0 DEF RequestStates
  <2>4. \E t : Goes(r, t) /\ StateOrder(t)
    BY <1>1, <2>1, <2>2, <2>3 DEF StateOrder
  <2>. QED
    BY <1>2, <2>4, OrderMoved DEF CountOld
<1>3. CASE CopyOld(r)
  <2>. DEFINE old == Old(req[r].events, req[r].cutoff)
              s == [req[r] EXCEPT !.pc = "purge", !.ids = old]
  <2>1. Goes(r, s)
    BY <1>3 DEF CopyOld
  <2>2. req[r].cutoff <= now
    BY <1>3 DEF CopyOld, InOrder, StateOrder
  <2>3. /\ s.pc = "purge" /\ s.ids = old
        /\ s.events = req[r].events /\ s.cutoff = req[r].cutoff
    BY <1>0 DEF RequestStates
  <2>4. StateOrder(s)
    BY <2>2, <2>3 DEF StateOrder
  <2>. HIDE DEF s
  <2>. QED
    BY <1>3, <2>1, <2>4, OrderMoved DEF CopyOld
<1>. QED
  BY <1>2, <1>3

(* The transaction commits: what was copied is what is deleted.            *)
LEMMA PurgeOrder ==
  ASSUME TypeInv, InOrder, NEW r \in Requests, PurgeOld(r)
  PROVE  InOrder'
<1>. DEFINE old == Old(req[r].events, req[r].cutoff)
<1>0. /\ req[r] \in RequestStates /\ Idle.pc = "idle" /\ req[r].pc = "purge"
      /\ [Idle EXCEPT !.pc = "count", !.since = req[r].since].pc = "count"
      /\ log \in Seq(Entries)
  BY DEF Idle, TypeInv, TypeOK, PurgeOld
<1>1. PassEnds(r) \/ Ends(r) => \E s : Goes(r, s) /\ s.pc \notin {"copy", "purge"}
  BY <1>0 DEF PassEnds, Ends
<1>2. CASE req[r].ids \cap archive # {}
  <2>1. \E s : Goes(r, s) /\ StateOrder(s)
    BY <1>1, <1>2 DEF PurgeOld, StateOrder
  <2>. QED
    BY <1>2, <2>1, OrderMoved DEF PurgeOld
<1>3. CASE req[r].ids \cap archive = {}
  <2>1. req[r].ids = old /\ archive = deleted /\ req[r].cutoff <= now
    BY <1>0, <1>3 DEF InOrder, StateOrder
  <2>2. /\ archive' = deleted' /\ deleted' = deleted \cup old
        /\ UNCHANGED <<log, now>>
    BY <1>3, <2>1 DEF PurgeOld, Purged
  <2>3. /\ now \in Int /\ req[r].cutoff \in Int
        /\ \A i \in DOMAIN log : log[i].at \in Int
    <3>1. \A i \in DOMAIN log : log[i] \in Entries
      BY <1>0
    <3>2. now \in 0..MaxTime /\ \A i \in DOMAIN log : log[i].at \in 0..MaxTime
      BY <3>1 DEF Entries, TypeInv, TypeOK
    <3>. QED
      BY <1>0, <3>2 DEF RequestStates
  <2>4. /\ old \subseteq DOMAIN log /\ deleted \subseteq DOMAIN log
        /\ \A i \in old : log[i].at < req[r].cutoff /\ Event(i) = req[r].events
        /\ \A i \in DOMAIN log : log[i].at < req[r].cutoff
             /\ Event(i) = req[r].events => i \in old \cup deleted
    BY DEF Old, Live, Event, TypeInv, TypeOK
  <2>. HIDE DEF old
  <2>5. Times'
    BY <2>1, <2>2, <2>3, <2>4 DEF InOrder, Times
  <2>6. Reversals'
    BY <2>2 DEF InOrder, Reversals, PointsBack
  <2>7. ClosedDownwards'
    <3>. SUFFICES ASSUME NEW i \in DOMAIN log, NEW j \in deleted \cup old,
                         log[i].at <= log[j].at, Event(i) = Event(j)
                  PROVE  i \in deleted \cup old
      BY <2>2 DEF ClosedDownwards, Event
    <3>1. CASE j \in deleted
      BY <3>1 DEF InOrder, ClosedDownwards
    <3>2. CASE j \in old
      BY <2>3, <2>4, <3>2
    <3>. QED
      BY <3>1, <3>2
  <2>8. \A q \in Requests : StateOrder(req[q])'
    <3>. SUFFICES ASSUME NEW q \in Requests PROVE StateOrder(req[q])'
      OBVIOUS
    <3>1. CASE q = r
      BY <1>1, <1>3, <3>1 DEF PurgeOld, Goes, StateOrder, TypeInv, TypeOK
    <3>2. CASE q # r
      <4>1. req'[q] = req[q] /\ StateOrder(req[q])
        BY <1>1, <1>3, <3>2 DEF PurgeOld, Goes, InOrder, TypeInv, TypeOK
      <4>2. /\ Old(req[q].events, req[q].cutoff)' \subseteq Old(req[q].events, req[q].cutoff)
            /\ Old(req[q].events, req[q].cutoff) \subseteq
                 Old(req[q].events, req[q].cutoff)' \cup deleted'
        BY <2>2, <4>1 DEF Old, Live
      <4>. QED
        BY <2>2, <4>1, <4>2 DEF StateOrder
    <3>. QED
      BY <3>1, <3>2
  <2>. QED
    BY <2>2, <2>5, <2>6, <2>7, <2>8 DEF InOrder
<1>. QED
  BY <1>2, <1>3

LEMMA InOrderInit == Init => InOrder
<1>. SUFFICES ASSUME Init PROVE InOrder
  OBVIOUS
<1>1. DOMAIN log = {} /\ archive = {} /\ deleted = {}
  BY DEF Init
<1>2. \A r \in Requests : req[r].pc = "idle"
  BY DEF Init, Idle
<1>. QED
  BY <1>1, <1>2 DEF InOrder, Times, Reversals, ClosedDownwards, StateOrder

LEMMA InOrderNext == TypeInv /\ InOrder /\ [Next]_vars => InOrder'
<1>. SUFFICES ASSUME TypeInv, InOrder, [Next]_vars PROVE InOrder'
  OBVIOUS
<1>1. ASSUME UNCHANGED vars \/ \E e \in Entities : WriteUnlogged(e)
      PROVE  InOrder'
  <2>1. UNCHANGED <<log, deleted, archive, now, req>>
    BY <1>1 DEF vars, WriteUnlogged
  <2>. QED
    BY <2>1 DEF InOrder, Times, Reversals, PointsBack, ClosedDownwards,
                Event, StateOrder, Old, Live
<1>2. CASE Tick
  <2>1. /\ now \in Int /\ now' = now + 1
        /\ \A i \in DOMAIN log : log[i].at \in Int
        /\ deleted \subseteq DOMAIN log
        /\ \A r \in Requests : req[r].cutoff \in Int
    <3>1. log \in Seq(Entries) /\ now \in 0..MaxTime
      BY DEF TypeInv, TypeOK
    <3>2. \A i \in DOMAIN log : log[i] \in Entries
      BY <3>1
    <3>3. \A i \in DOMAIN log : log[i].at \in 0..MaxTime
      BY <3>2 DEF Entries
    <3>. QED
      BY <1>2, <3>1, <3>3 DEF Tick, TypeInv, TypeOK, RequestStates
  <2>2. UNCHANGED <<log, deleted, archive, req>>
    BY <1>2 DEF Tick
  <2>3. Times'
    BY <2>1, <2>2 DEF InOrder, Times
  <2>4. \A r \in Requests : StateOrder(req[r])'
    BY <2>1, <2>2 DEF InOrder, StateOrder, Old, Live
  <2>. QED
    BY <2>2, <2>3, <2>4 DEF InOrder, Reversals, PointsBack, ClosedDownwards, Event
<1>3. ASSUME NEW r \in Requests,
             \/ AfterCreate(r) \/ BeforeUpdate(r) \/ BeforeDelete(r)
             \/ RecordReversal(r) \/ RecordEvent(r)
      PROVE  InOrder'
  <2>1. PICK x \in Entries :
          /\ Grows(x) /\ x.at = now
          /\ IF RecordReversal(r)
               THEN x.action = "reversal" /\ x.reverses = req[r].id
               ELSE x.reverses = 0
    BY <1>3, EntryWritten
  <2>2. PICK s : Goes(r, s) /\ s.pc \in {"idle", "saving", "deleting"}
    BY <1>3, EntryWritten
  <2>3. UNCHANGED <<deleted, archive, now>>
    BY <1>3, EntryWritten
  <2>4. RecordReversal(r) => PointsBack(req[r].id, Len(log) + 1)
    <3>1. log \in Seq(Entries)
      BY DEF TypeInv, TypeOK
    <3>2. RecordReversal(r) =>
            /\ req[r].id \in DOMAIN log
            /\ log[req[r].id].action \in {"insert", "update", "delete"}
      BY DEF RecordReversal, TypeInv, Shape, StateShape
    <3>. QED
      BY <3>1, <3>2 DEF PointsBack
  <2>5. x.reverses = 0 \/ (x.action = "reversal" /\ PointsBack(x.reverses, Len(log) + 1))
    BY <2>1, <2>4
  <2>. QED
    BY <2>1, <2>2, <2>3, <2>5, OrderGrown
<1>4. ASSUME NEW r \in Requests,
             \/ \E e \in Entities : Create(r, e) \/ Find(r, e)
             \/ \E i \in Ids : FindEntry(r, i)
             \/ Save(r) \/ SaveUnchanged(r) \/ Delete(r)
             \/ ArchiveBegins(r) \/ Abort(r)
      PROVE  InOrder'
  <2>1. PICK s : Goes(r, s) /\ Quiet(s)
    BY <1>4, MovesOnly
  <2>2. StateOrder(s)
    BY <2>1 DEF StateOrder, Quiet
  <2>3. UNCHANGED <<log, deleted, archive, now>>
    BY <1>4, MovesOnly
  <2>. QED
    BY <2>1, <2>2, <2>3, OrderMoved
<1>5. ASSUME NEW r \in Requests, CheckReversible(r) \/ Apply(r)
      PROVE  InOrder'
  <2>1. PICK s : Goes(r, s) /\ s.pc \notin {"copy", "purge"}
    BY <1>5, ReverserMoves
  <2>2. StateOrder(s)
    BY <2>1 DEF StateOrder
  <2>. QED
    BY <1>5, <2>1, <2>2, OrderMoved DEF CheckReversible, Apply
<1>. QED
  BY <1>1, <1>2, <1>3, <1>4, <1>5, ArchiverOrder, PurgeOrder DEF Next

LEMMA ArchiveFromOrder == TypeInv /\ InOrder => ArchiveKeeps
<1>. SUFFICES ASSUME TypeInv, InOrder, NEW j \in deleted, log[j].reverses # 0
              PROVE  log[j].reverses \in deleted
  BY DEF ArchiveKeeps, InOrder
<1>1. log \in Seq(Entries) /\ j \in DOMAIN log
  BY DEF TypeInv, TypeOK
<1>2. log[j].action = "reversal" /\ PointsBack(log[j].reverses, j)
  BY <1>1 DEF InOrder, Reversals
<1>. DEFINE i == log[j].reverses
<1>3. /\ i \in DOMAIN log /\ i <= j
      /\ log[i].action # "event" /\ log[j].action # "event"
  <2>1. i \in DOMAIN log /\ i < j /\ log[i].action \in {"insert", "update", "delete"}
    BY <1>2 DEF PointsBack
  <2>. HIDE DEF i
  <2>2. i \in Int /\ j \in Int
    BY <1>1, <2>1
  <2>. QED
    BY <1>2, <2>1, <2>2
<1>4. log[i].at <= log[j].at
  BY <1>1, <1>3 DEF InOrder, Times
<1>. QED
  BY <1>3, <1>4 DEF InOrder, ClosedDownwards, Event

(* Whatever archivers overlap or die, an entry is in one table and in one  *)
(* only, and no reversal leaves before the entry it points at.             *)
THEOREM NothingLost == Spec => []ArchiveKeeps
<1>. QED
  BY ArchiveFromOrder, TypeInvInit, TypeInvNext, InOrderInit, InOrderNext, PTL DEF Spec

-----------------------------------------------------------------------------
(* Reversals.                                                              *)

(* A request is about to reverse i, or has and is about to say so.         *)
Claims(r, i) == req[r].id = i /\ req[r].pc \in {"reversible", "applied"}

(* One claim or one reversal of an entry, never both and never two.        *)
OneOf(i) ==
  /\ \A r, q \in Requests : Claims(r, i) /\ Claims(q, i) => r = q
  /\ \A r \in Requests :
       Claims(r, i) => \A j \in DOMAIN log : log[j].reverses # i
  /\ \A j, k \in DOMAIN log :
       log[j].reverses = i /\ log[k].reverses = i => j = k

Once == \A i \in Ids \ raced : OneOf(i)

(* Steps that make no new claim and no reversal.                           *)
LEMMA OnceKept ==
  ASSUME TypeInv, Once, NEW x, Grows(x), x.reverses = 0,
         \A q \in Requests, i \in Ids : Claims(q, i)' => Claims(q, i),
         UNCHANGED raced
  PROVE  Once'
<1>. SUFFICES ASSUME NEW i \in Ids, i \notin raced PROVE OneOf(i)'
  BY DEF Once
<1>1. OneOf(i) /\ i # 0
  BY DEF Once, Ids
<1>2. \A j \in DOMAIN log' : log'[j].reverses = i => j \in DOMAIN log /\ log[j].reverses = i
  BY <1>1 DEF Grows
<1>. QED
  BY <1>1, <1>2 DEF OneOf

LEMMA QuietClaims ==
  ASSUME TypeInv, NEW r \in Requests, NEW s, Goes(r, s), Quiet(s)
  PROVE  \A q \in Requests, i \in Ids : Claims(q, i)' => Claims(q, i)
BY DEF Goes, Quiet, Claims, TypeInv, TypeOK

LEMMA ArchiverQuiet ==
  ASSUME TypeInv, NEW r \in Requests, CountOld(r) \/ CopyOld(r) \/ PurgeOld(r)
  PROVE  \A q \in Requests, i \in Ids : Claims(q, i)' => Claims(q, i)
<1>1. /\ req[r] \in RequestStates /\ Idle.pc = "idle"
      /\ [Idle EXCEPT !.pc = "count", !.since = req[r].since].pc = "count"
  BY DEF Idle, TypeInv, TypeOK
<1>2. \E s : Goes(r, s) /\ s.pc \in {"idle", "count", "copy", "purge"}
  <2>1. CASE PassEnds(r) \/ Ends(r)
    BY <1>1, <2>1 DEF PassEnds, Ends
  <2>2. CASE CountOld(r)
    <3>. DEFINE s == [req[r] EXCEPT !.pc = "copy", !.cutoff = Cutoff(req[r].events)]
    <3>1. PassEnds(r) \/ Goes(r, s)
      BY <2>2 DEF CountOld
    <3>2. s.pc = "copy"
      BY <1>1 DEF RequestStates
    <3>. HIDE DEF s
    <3>. QED
      BY <2>1, <3>1, <3>2
  <2>3. CASE CopyOld(r)
    <3>. DEFINE s == [req[r] EXCEPT !.pc = "purge",
                                    !.ids = Old(req[r].events, req[r].cutoff)]
    <3>1. Goes(r, s)
      BY <2>3 DEF CopyOld
    <3>2. s.pc = "purge"
      BY <1>1 DEF RequestStates
    <3>. HIDE DEF s
    <3>. QED
      BY <3>1, <3>2
  <2>. QED
    BY <2>1, <2>2, <2>3 DEF PurgeOld
<1>. QED
  BY <1>2 DEF Goes, Claims, TypeInv, TypeOK

(* A reversal that was archived was archived after its entry: what the     *)
(* lookup does not see cannot have reversed an entry that is still there.  *)
LEMMA LookupEnough ==
  ASSUME TypeInv, InOrder, NEW i \in DOMAIN log, i \notin deleted, IsReversible(i), i # 0
  PROVE  \A j \in DOMAIN log : log[j].reverses # i
<1>. SUFFICES ASSUME NEW j \in DOMAIN log, log[j].reverses = i PROVE FALSE
  OBVIOUS
<1>1. j \in deleted
  BY DEF IsReversible, Live
<1>2. ArchiveKeeps
  BY ArchiveFromOrder
<1>. QED
  BY <1>1, <1>2 DEF ArchiveKeeps

LEMMA CheckOnce ==
  ASSUME TypeInv, InOrder, Once, NEW r \in Requests, CheckReversible(r)
  PROVE  Once'
<1>. DEFINE id == req[r].id
<1>1. /\ id \in Ids /\ id \in DOMAIN log /\ id # 0 /\ req[r] \in RequestStates
      /\ req[r].pc = "fetched" /\ UNCHANGED log
  BY DEF CheckReversible, TypeInv, TypeOK, Shape, StateShape, Ids
<1>2. CASE ~IsReversible(id)
  <2>1. \A q \in Requests, i \in Ids : Claims(q, i)' => Claims(q, i)
    BY <1>2 DEF CheckReversible, Ends, Goes, Claims, Idle, TypeInv, TypeOK
  <2>. QED
    BY <1>1, <1>2, <2>1 DEF CheckReversible, Once, OneOf
<1>3. CASE IsReversible(id)
  <2>1. /\ [req[r] EXCEPT !.pc = "reversible"].id = id
        /\ req' = [req EXCEPT ![r] = [req[r] EXCEPT !.pc = "reversible"]]
    BY <1>1, <1>3 DEF CheckReversible, Step, Goes, RequestStates
  <2>2. \A q \in Requests, i \in Ids : Claims(q, i)' => Claims(q, i) \/ (q = r /\ i = id)
    BY <2>1 DEF Claims, TypeInv, TypeOK
  <2>3. raced \subseteq raced'
    BY <1>3 DEF CheckReversible
  <2>4. CASE ReversalRaces(r)
    <3>1. id \in raced'
      BY <1>3, <2>4 DEF CheckReversible
    <3>. QED
      BY <1>1, <2>2, <2>3, <3>1 DEF Once, OneOf
  <2>5. CASE ~ReversalRaces(r)
    <3>1. id \notin deleted /\ \A q \in Requests : q # r => ~Claims(q, id)
      BY <2>5 DEF ReversalRaces, Claims
    <3>2. \A j \in DOMAIN log : log[j].reverses # id
      BY <1>1, <1>3, <3>1, LookupEnough
    <3>. HIDE DEF id
    <3>. QED
      BY <1>1, <2>2, <2>3, <3>1, <3>2 DEF Once, OneOf
  <2>. QED
    BY <2>4, <2>5
<1>. QED
  BY <1>2, <1>3

LEMMA RecordOnce ==
  ASSUME TypeInv, InOrder, Once, NEW r \in Requests, RecordReversal(r)
  PROVE  Once'
<1>. DEFINE id == req[r].id
<1>1. PICK x : Grows(x) /\ x.reverses = id
  BY EntryWritten
<1>2. PICK s : Goes(r, s) /\ s.pc \in {"idle", "saving", "deleting"}
  BY EntryWritten
<1>3. id \in Ids /\ Claims(r, id) /\ UNCHANGED raced
  BY DEF RecordReversal, Claims, TypeInv, Shape, StateShape
<1>4. \A q \in Requests, i \in Ids : Claims(q, i)' => Claims(q, i) /\ q # r
  BY <1>2 DEF Goes, Claims, TypeInv, TypeOK
<1>. HIDE DEF id
<1>. SUFFICES ASSUME NEW i \in Ids, i \notin raced PROVE OneOf(i)'
  BY <1>3 DEF Once
<1>5. OneOf(i)
  BY DEF Once
<1>6. \A j \in DOMAIN log' :
        \/ j \in DOMAIN log /\ log'[j] = log[j]
        \/ log'[j].reverses = id /\ j = Len(log) + 1
  BY <1>1 DEF Grows
<1>7. CASE i = id
  BY <1>3, <1>4, <1>5, <1>6, <1>7 DEF OneOf
<1>8. CASE i # id
  BY <1>3, <1>4, <1>5, <1>6, <1>8 DEF OneOf
<1>. QED
  BY <1>7, <1>8

LEMMA OnceInit == Init => Once
BY DEF Init, Idle, Once, OneOf, Claims

LEMMA OnceNext == TypeInv /\ InOrder /\ Once /\ [Next]_vars => Once'
<1>. SUFFICES ASSUME TypeInv, InOrder, Once, [Next]_vars PROVE Once'
  OBVIOUS
<1>0. PICK z : z = [reverses |-> 0]
  OBVIOUS
<1>1. CASE UNCHANGED vars \/ \E e \in Entities : WriteUnlogged(e)
  <2>1. UNCHANGED <<log, raced, req>>
    BY <1>1 DEF vars, WriteUnlogged
  <2>. QED
    BY <2>1 DEF Once, OneOf, Claims
<1>2. CASE Tick
  BY <1>2 DEF Tick, Once, OneOf, Claims
<1>3. ASSUME NEW r \in Requests,
             AfterCreate(r) \/ BeforeUpdate(r) \/ BeforeDelete(r) \/ RecordEvent(r)
      PROVE  Once'
  <2>1. ~RecordReversal(r) /\ UNCHANGED raced
    BY <1>3 DEF AfterCreate, BeforeUpdate, BeforeDelete, RecordEvent, RecordReversal
  <2>2. PICK x : Grows(x) /\ x.reverses = 0
    BY <1>3, <2>1, EntryWritten
  <2>3. PICK s : Goes(r, s) /\ s.pc \in {"idle", "saving", "deleting"}
    BY <1>3, EntryWritten
  <2>4. \A q \in Requests, i \in Ids : Claims(q, i)' => Claims(q, i)
    BY <2>3, QuietClaims DEF Quiet
  <2>. QED
    BY <2>1, <2>2, <2>4, OnceKept
<1>4. ASSUME NEW r \in Requests,
             \/ \E e \in Entities : Create(r, e) \/ Find(r, e)
             \/ \E i \in Ids : FindEntry(r, i)
             \/ Save(r) \/ SaveUnchanged(r) \/ Delete(r)
             \/ ArchiveBegins(r) \/ Abort(r)
      PROVE  Once'
  <2>1. PICK s : Goes(r, s) /\ Quiet(s)
    BY <1>4, MovesOnly, SMTT(40)
  <2>2. UNCHANGED <<log, raced>>
    BY <1>4 DEF Create, Find, FindEntry, Save, SaveUnchanged, Delete,
                ArchiveBegins, Abort
  <2>3. \A q \in Requests, i \in Ids : Claims(q, i)' => Claims(q, i)
    BY <2>1, QuietClaims
  <2>4. Grows(z)
    BY <2>2, SameGrows DEF TypeInv
  <2>. QED
    BY <1>0, <2>2, <2>3, <2>4, OnceKept
<1>5. ASSUME NEW r \in Requests, CountOld(r) \/ CopyOld(r) \/ PurgeOld(r)
      PROVE  Once'
  <2>1. UNCHANGED <<log, raced>>
    BY <1>5 DEF CountOld, CopyOld, PurgeOld
  <2>2. Grows(z)
    BY <2>1, SameGrows DEF TypeInv
  <2>. QED
    BY <1>0, <1>5, <2>1, <2>2, ArchiverQuiet, OnceKept
<1>6. ASSUME NEW r \in Requests, Apply(r)
      PROVE  Once'
  <2>1. UNCHANGED <<log, raced>> /\ req[r] \in RequestStates
        /\ req[r].pc = "reversible" /\ Idle.pc = "idle"
    BY <1>6 DEF Apply, TypeInv, TypeOK, Idle
  <2>2. [req[r] EXCEPT !.pc = "applied"].id = req[r].id
    BY <2>1 DEF RequestStates
  <2>3. \/ Goes(r, [req[r] EXCEPT !.pc = "applied"])
        \/ Goes(r, Idle)
    BY <1>6 DEF Apply, Step, Ends
  <2>4. \A q \in Requests, i \in Ids : Claims(q, i)' => Claims(q, i)
    BY <2>1, <2>2, <2>3 DEF Claims, Goes, TypeInv, TypeOK
  <2>5. Grows(z)
    BY <2>1, SameGrows DEF TypeInv
  <2>. QED
    BY <1>0, <2>1, <2>4, <2>5, OnceKept
<1>. QED
  BY <1>1, <1>2, <1>3, <1>4, <1>5, <1>6, CheckOnce, RecordOnce DEF Next

(* An entry is reversed once, unless two reversals of it race: the lookup  *)
(* for an earlier reversal, made among the entries that are left, is       *)
(* enough, because the archive takes an entry before its reversal.         *)
THEOREM NoSecondReversal == Spec => []ReversedOnce
<1>1. TypeInv /\ Once => ReversedOnce
  <2>. SUFFICES ASSUME TypeInv, Once, NEW j \in DOMAIN log, NEW k \in DOMAIN log,
                       log[j].reverses = log[k].reverses,
                       log[j].reverses \notin raced, log[j].reverses # 0
                PROVE  j = k
    BY DEF ReversedOnce
  <2>1. log \in Seq(Entries)
    BY DEF TypeInv, TypeOK
  <2>2. log[j] \in Entries
    BY <2>1
  <2>3. log[j].reverses \in Ids
    BY <2>2 DEF Entries
  <2>. QED
    BY <2>3 DEF Once, OneOf
<1>. QED
  BY <1>1, TypeInvInit, TypeInvNext, InOrderInit, InOrderNext, OnceInit, OnceNext,
     PTL DEF Spec

-----------------------------------------------------------------------------
(* What a log tells, by induction over its entries.                        *)
-----------------------------------------------------------------------------

(* The natural numbers are well-ordered: what holds of no least number     *)
(* holds of none.                                                          *)
LEMMA LeastNumber ==
  ASSUME NEW S \in SUBSET Nat, S # {}
  PROVE  \E n \in S : \A k \in S : n <= k
<1>. DEFINE R == OpToRel(<, Nat)
<1>1. IsWellFoundedOn(R, Nat)
  BY NatLessThanWellFounded
<1>. HIDE DEF R
<1>2. PICK n \in S : \A k \in S : ~ (<<k, n>> \in R)
  BY <1>1, WFMin
<1>3. \A k \in S : ~ (k < n)
  BY <1>2 DEF R, OpToRel
<1>. QED
  BY <1>3

(* row is the recursive function that RowAfter is defined by.              *)
Tells(entries, e, n, row) ==
  row = [k \in 0..n |->
           IF k = 0 THEN NoRow
           ELSE IF entries[k].entity = e
                  THEN Effect(entries, row[k - 1], entries[k])
                  ELSE row[k - 1]]

LEMMA RowAfterChosen ==
  ASSUME NEW entries, NEW e, NEW n
  PROVE  RowAfter(entries, e, n) = (CHOOSE row : Tells(entries, e, n, row))[n]
BY DEF RowAfter, Tells

LEMMA SomeTells ==
  ASSUME NEW entries, NEW e, NEW n \in Nat
  PROVE  \E row : Tells(entries, e, n, row)
<1>. DEFINE S == {k \in Nat : ~ \E row : Tells(entries, e, k, row)}
<1>. SUFFICES ASSUME S # {} PROVE FALSE
  OBVIOUS
<1>0. S \in SUBSET Nat
  OBVIOUS
<1>1. PICK k \in S : \A j \in S : k <= j
  BY <1>0, LeastNumber
<1>2. k \in Nat /\ ~ \E row : Tells(entries, e, k, row)
  OBVIOUS
<1>3. CASE k = 0
  <2>1. Tells(entries, e, 0, [j \in 0..0 |-> NoRow])
    BY DEF Tells
  <2>. QED
    BY <1>2, <1>3, <2>1
<1>4. CASE k # 0
  <2>1. k - 1 \in Nat /\ ~ (k <= k - 1)
    BY <1>2, <1>4
  <2>2. PICK f : Tells(entries, e, k - 1, f)
    BY <1>1, <2>1
  <2>. DEFINE last == IF entries[k].entity = e
                        THEN Effect(entries, f[k - 1], entries[k])
                        ELSE f[k - 1]
  <2>3. PICK x : x = last
    OBVIOUS
  <2>. DEFINE g == [j \in 0..k |-> IF j = k THEN x ELSE f[j]]
  <2>4. \A j \in 0..(k - 1) :
          f[j] = IF j = 0 THEN NoRow
                 ELSE IF entries[j].entity = e
                        THEN Effect(entries, f[j - 1], entries[j])
                        ELSE f[j - 1]
    BY <2>2 DEF Tells
  <2>5. /\ \A j \in 0..(k - 1) : g[j] = f[j]
        /\ g[k] = x /\ g = [j \in 0..k |-> g[j]]
    BY <1>2, <2>1
  <2>. HIDE DEF g
  <2>6. \A j \in 0..k :
          g[j] = IF j = 0 THEN NoRow
                 ELSE IF entries[j].entity = e
                        THEN Effect(entries, g[j - 1], entries[j])
                        ELSE g[j - 1]
    <3>0. g[0] = NoRow
      <4>1. 0 \in 0..(k - 1)
        BY <2>1
      <4>. QED
        BY <2>4, <2>5, <4>1
    <3>. SUFFICES ASSUME NEW j \in 0..k, j # 0
                  PROVE  g[j] = IF entries[j].entity = e
                                  THEN Effect(entries, g[j - 1], entries[j])
                                  ELSE g[j - 1]
      BY <3>0
    <3>1. j - 1 \in 0..(k - 1) /\ g[j - 1] = f[j - 1]
      BY <1>2, <2>5
    <3>2. CASE j = k
      BY <2>3, <2>5, <3>1, <3>2
    <3>3. CASE j # k
      <4>1. j \in 0..(k - 1) /\ g[j] = f[j]
        BY <1>2, <2>5, <3>3
      <4>. QED
        BY <2>4, <3>1, <4>1
    <3>. QED
      BY <3>2, <3>3
  <2>7. Tells(entries, e, k, g)
    BY <2>5, <2>6 DEF Tells
  <2>. QED
    BY <1>2, <2>7
<1>. QED
  BY <1>3, <1>4

LEMMA OneTells ==
  ASSUME NEW entries, NEW e, NEW n \in Nat, NEW m \in Nat, NEW f, NEW g,
         Tells(entries, e, n, f), Tells(entries, e, m, g), n <= m
  PROVE  \A k \in 0..n : f[k] = g[k]
<1>. DEFINE S == {k \in 0..n : f[k] # g[k]}
<1>. SUFFICES ASSUME S # {} PROVE FALSE
  OBVIOUS
<1>0. S \in SUBSET Nat
  OBVIOUS
<1>1. PICK k \in S : \A j \in S : k <= j
  BY <1>0, LeastNumber
<1>2. k \in 0..n /\ k \in 0..m /\ f[k] # g[k]
  OBVIOUS
<1>3. /\ f[k] = IF k = 0 THEN NoRow
                ELSE IF entries[k].entity = e
                       THEN Effect(entries, f[k - 1], entries[k])
                       ELSE f[k - 1]
      /\ g[k] = IF k = 0 THEN NoRow
                ELSE IF entries[k].entity = e
                       THEN Effect(entries, g[k - 1], entries[k])
                       ELSE g[k - 1]
  BY <1>2 DEF Tells
<1>4. k # 0 => k - 1 \in 0..n /\ ~ (k <= k - 1)
  BY <1>2
<1>5. k # 0 => f[k - 1] = g[k - 1]
  BY <1>1, <1>4
<1>. QED
  BY <1>2, <1>3, <1>5

(* The row after no entries, and after one more of them.                   *)
LEMMA RowAfterStep ==
  ASSUME NEW entries, NEW e
  PROVE  /\ RowAfter(entries, e, 0) = NoRow
         /\ \A n \in Nat \ {0} :
              RowAfter(entries, e, n) =
                IF entries[n].entity = e
                  THEN Effect(entries, RowAfter(entries, e, n - 1), entries[n])
                  ELSE RowAfter(entries, e, n - 1)
<1>1. ASSUME NEW n \in Nat
      PROVE  \E f : Tells(entries, e, n, f) /\ RowAfter(entries, e, n) = f[n]
  <2>. DEFINE f == CHOOSE row : Tells(entries, e, n, row)
  <2>1. Tells(entries, e, n, f)
    BY SomeTells
  <2>2. RowAfter(entries, e, n) = f[n]
    BY RowAfterChosen
  <2>. QED
    BY <2>1, <2>2
<1>2. RowAfter(entries, e, 0) = NoRow
  BY <1>1 DEF Tells
<1>3. ASSUME NEW n \in Nat \ {0}
      PROVE  RowAfter(entries, e, n) =
                IF entries[n].entity = e
                  THEN Effect(entries, RowAfter(entries, e, n - 1), entries[n])
                  ELSE RowAfter(entries, e, n - 1)
  <2>1. n \in Nat /\ n - 1 \in Nat /\ n - 1 <= n /\ n # 0 /\ n \in 0..n
        /\ n - 1 \in 0..(n - 1)
    OBVIOUS
  <2>2. PICK f : Tells(entries, e, n, f) /\ RowAfter(entries, e, n) = f[n]
    BY <1>1, <2>1
  <2>3. PICK g : Tells(entries, e, n - 1, g)
                 /\ RowAfter(entries, e, n - 1) = g[n - 1]
    BY <1>1, <2>1
  <2>4. g[n - 1] = f[n - 1]
    BY <2>1, <2>2, <2>3, OneTells
  <2>5. f[n] = IF entries[n].entity = e
                 THEN Effect(entries, f[n - 1], entries[n])
                 ELSE f[n - 1]
    BY <2>1, <2>2 DEF Tells
  <2>. QED
    BY <2>2, <2>3, <2>4, <2>5
<1>. QED
  BY <1>2, <1>3

LEMMA RowAfterNext ==
  ASSUME NEW entries, NEW e, NEW n \in Nat \ {0}
  PROVE  RowAfter(entries, e, n) =
           IF entries[n].entity = e
             THEN Effect(entries, RowAfter(entries, e, n - 1), entries[n])
             ELSE RowAfter(entries, e, n - 1)
BY RowAfterStep

LEMMA StepSame ==
  ASSUME NEW some, NEW other, NEW e, NEW k \in Nat \ {0},
         RowAfter(some, e, k - 1) = RowAfter(other, e, k - 1),
         some[k] = other[k],
         Effect(some, RowAfter(some, e, k - 1), some[k])
           = Effect(other, RowAfter(some, e, k - 1), other[k])
  PROVE  RowAfter(some, e, k) = RowAfter(other, e, k)
<1>1. RowAfter(some, e, k) =
        IF some[k].entity = e
          THEN Effect(some, RowAfter(some, e, k - 1), some[k])
          ELSE RowAfter(some, e, k - 1)
  BY RowAfterNext, Zenon
<1>2. RowAfter(other, e, k) =
        IF other[k].entity = e
          THEN Effect(other, RowAfter(other, e, k - 1), other[k])
          ELSE RowAfter(other, e, k - 1)
  BY RowAfterNext, Zenon
<1>3. CASE some[k].entity = e
  <2>1. /\ RowAfter(some, e, k) = Effect(some, RowAfter(some, e, k - 1), some[k])
        /\ RowAfter(other, e, k) = Effect(other, RowAfter(other, e, k - 1), other[k])
    BY <1>1, <1>2, <1>3
  <2>. QED
    BY <2>1, Zenon
<1>4. CASE some[k].entity # e
  BY <1>1, <1>2, <1>4
<1>. QED
  BY <1>3, <1>4

(* Two logs that begin with the same entries tell the same.                *)
LEMMA RowAfterSame ==
  ASSUME NEW some, NEW other, NEW e, NEW n \in Nat,
         \A k \in 1..n : /\ some[k] = other[k]
                         /\ some[k].action = "reversal" =>
                              some[some[k].reverses] = other[some[k].reverses]
  PROVE  \A k \in 0..n : RowAfter(some, e, k) = RowAfter(other, e, k)
<1>. DEFINE S == {k \in 0..n : RowAfter(some, e, k) # RowAfter(other, e, k)}
<1>. SUFFICES ASSUME S # {} PROVE FALSE
  OBVIOUS
<1>0. S \in SUBSET Nat
  OBVIOUS
<1>1. PICK k \in S : \A j \in S : k <= j
  BY <1>0, LeastNumber
<1>2. k \in 0..n /\ RowAfter(some, e, k) # RowAfter(other, e, k)
  OBVIOUS
<1>3. k # 0
  BY <1>2, RowAfterStep
<1>4. k \in 1..n /\ k \in Nat \ {0} /\ k - 1 \in 0..n /\ ~ (k <= k - 1)
  BY <1>2, <1>3
<1>5. RowAfter(some, e, k - 1) = RowAfter(other, e, k - 1)
  BY <1>1, <1>4
<1>6. Effect(some, RowAfter(some, e, k - 1), some[k])
        = Effect(other, RowAfter(some, e, k - 1), other[k])
  <2>1. /\ some[k] = other[k]
        /\ some[k].action = "reversal" =>
             some[some[k].reverses] = other[some[k].reverses]
    BY <1>4
  <2>. QED
    BY <2>1 DEF Effect
<1>7. some[k] = other[k]
  BY <1>4
<1>8. k \in Nat \ {0}
  BY <1>4
<1>9. RowAfter(some, e, k) = RowAfter(other, e, k)
  BY ONLY <1>5, <1>6, <1>7, <1>8, StepSame
<1>. QED
  BY <1>2, <1>9

(* Entries about other entities say nothing of e.                          *)
LEMMA RowAfterOthers ==
  ASSUME NEW entries, NEW e, NEW i \in Nat, NEW n \in Nat,
         \A k \in (i + 1)..n : entries[k].entity # e
  PROVE  i <= n => RowAfter(entries, e, n) = RowAfter(entries, e, i)
<1>. DEFINE S == {k \in i..n : RowAfter(entries, e, k) # RowAfter(entries, e, i)}
<1>. SUFFICES ASSUME S # {} PROVE FALSE
  <2>1. i <= n => n \in i..n
    OBVIOUS
  <2>. QED
    BY <2>1
<1>0. S \in SUBSET Nat
  OBVIOUS
<1>1. PICK k \in S : \A j \in S : k <= j
  BY <1>0, LeastNumber
<1>2. k \in i..n /\ k # i /\ RowAfter(entries, e, k) # RowAfter(entries, e, i)
  OBVIOUS
<1>3. k \in Nat \ {0} /\ k \in (i + 1)..n /\ k - 1 \in i..n /\ ~ (k <= k - 1)
  BY <1>2
<1>4. RowAfter(entries, e, k - 1) = RowAfter(entries, e, i)
  BY <1>1, <1>3
<1>5. RowAfter(entries, e, k) = RowAfter(entries, e, k - 1)
  BY <1>3, RowAfterStep
<1>. QED
  BY <1>2, <1>4, <1>5

-----------------------------------------------------------------------------
(* What the log tells of the rows.                                         *)

Told(e) == RowAfter(log, e, Len(log))

HalfDoneOn(r, e) == req[r].entity = e /\ HalfDone(r)

(* The log, the row and what a request has still to do add up.  What the   *)
(* log tells of a row may have default expressions where the row has values*)
(* (Matches); what an update or a deletion has loaded is the row itself.   *)
Explained(r, e) ==
  /\ req[r].pc = "created" => Told(e) = NoRow /\ rows[e] = req[r].row
  /\ req[r].pc = "saving" =>
       Matches(req[r].row, Told(e)) /\ rows[e] = req[r].found
  /\ req[r].pc = "deleting" => Told(e) = NoRow
  /\ req[r].pc = "applied" =>
       IF log[req[r].id].action = "update"
         THEN Matches(rows[e], Updated(Told(e), log[req[r].id].old))
         ELSE rows[e] = ReversalValues(log[req[r].id])

(* What an entry says of the row before it.                                *)
EntryTells(x, before) ==
  /\ x.action = "insert" => before = NoRow
  /\ x.action = "update" =>
       \E row \in Rows, C \in SUBSET Columns :
         /\ Matches(row, before)
         /\ x.old = OnlyColumns(row, C) /\ x.new \in [C -> Values]
  /\ x.action = "delete" =>
       x.old \in Rows /\ x.new = NoRow /\ Matches(x.old, before)

(* The story of an entity whose changes did not race.                      *)
Story(e) ==
  /\ \A r, q \in Requests : HalfDoneOn(r, e) /\ HalfDoneOn(q, e) => r = q
  /\ \A r \in Requests : HalfDoneOn(r, e) => Explained(r, e)
  /\ (\A r \in Requests : ~HalfDoneOn(r, e)) => Matches(rows[e], Told(e))
  /\ \A i \in DOMAIN log :
       log[i].entity = e => EntryTells(log[i], RowAfter(log, e, i - 1))

(* Nothing is known of an entity before it is created.                     *)
Known ==
  /\ \A r \in Requests : req[r].entity \in used \cup {NoEntity}
  /\ \A i \in DOMAIN log : log[i].entity \in used \cup {NoEntity}
  /\ \A e \in Entities : rows[e] # NoRow => e \in used

(* A reversal is about the entity of the entry it reverses.                *)
NamesIts(x) ==
  x.action = "reversal" =>
    /\ x.reverses \in DOMAIN log
    /\ log[x.reverses].entity = x.entity
    /\ x.new = ReversalValues(log[x.reverses])

Named == \A i \in DOMAIN log : NamesIts(log[i])

Stories ==
  /\ Known
  /\ Named
  /\ \A e \in Entities \ disturbed : Story(e)

-----------------------------------------------------------------------------
(* Rows that match what was told of them.                                  *)
LEMMA MatchesItself == \A row : Matches(row, row)
BY DEF Matches

LEMMA MatchesNoRow ==
  ASSUME NEW row, NEW told, Matches(row, told)
  PROVE  row = NoRow <=> told = NoRow
BY DEF Matches

LEMMA MatchesInMemory ==
  ASSUME NEW row \in Rows
  PROVE  Matches(row, InMemory(row))
<1>1. InMemory(row) # NoRow
  BY InMemoryTyped, AuditAssumption DEF AuditAssumption
<1>2. \A c \in Columns :
        InMemory(row)[c] = IF c \in Defaulted THEN Default ELSE row[c]
  BY DEF InMemory
<1>. QED
  BY <1>1, <1>2, RowsAreNotNoRow DEF Matches

(* What an UPDATE leaves of a row, and of a row that is told.              *)
LEMMA UpdatedColumns ==
  ASSUME NEW row, row # NoRow, NEW columns
  PROVE  \A c \in Columns : Updated(row, columns)[c] =
           IF c \in DOMAIN columns THEN columns[c] ELSE row[c]
BY DEF Updated

LEMMA UpdatedIsARow ==
  ASSUME NEW told, told # NoRow, NEW columns \in PartialRows,
         \A c \in Columns : told[c] \in Values \cup {Default}
  PROVE  Updated(told, columns) # NoRow
<1>1. PICK C \in SUBSET Columns : columns \in [C -> Values]
  BY DEF PartialRows
<1>2. Updated(told, columns) \in [Columns -> Values \cup {Default}]
  BY <1>1 DEF Updated
<1>. QED
  BY <1>2, AuditAssumption DEF AuditAssumption, LoggedRows

LEMMA ToldColumns ==
  ASSUME NEW row \in Rows, NEW told, Matches(row, told)
  PROVE  /\ told # NoRow
         /\ \A c \in Columns : told[c] \in Values \cup {Default}
         /\ \A c \in Columns :
              row[c] = told[c] \/ (c \in Defaulted /\ told[c] = Default)
BY RowsAreNotNoRow DEF Matches, Rows

LEMMA MatchesUpdated ==
  ASSUME NEW row \in Rows \cup {NoRow}, NEW told, Matches(row, told),
         NEW columns \in PartialRows
  PROVE  Matches(Updated(row, columns), Updated(told, columns))
<1>1. CASE row = NoRow
  BY <1>1, MatchesNoRow, MatchesItself DEF Updated
<1>2. CASE row # NoRow
  <2>1. /\ told # NoRow
        /\ \A c \in Columns : told[c] \in Values \cup {Default}
        /\ \A c \in Columns :
             row[c] = told[c] \/ (c \in Defaulted /\ told[c] = Default)
    BY <1>2, ToldColumns
  <2>2. Updated(told, columns) # NoRow
    BY <2>1, UpdatedIsARow
  <2>3. Updated(row, columns) # NoRow
    BY <1>2, UpdatedIsARow DEF Rows
  <2>4. \A c \in Columns : Updated(row, columns)[c] =
          IF c \in DOMAIN columns THEN columns[c] ELSE row[c]
    BY <1>2, UpdatedColumns
  <2>5. \A c \in Columns : Updated(told, columns)[c] =
          IF c \in DOMAIN columns THEN columns[c] ELSE told[c]
    BY <2>1, UpdatedColumns
  <2>. QED
    BY <2>1, <2>2, <2>3, <2>4, <2>5 DEF Matches
<1>. QED
  BY <1>1, <1>2

(* Of an entry that is appended, and of those before it.                   *)
LEMMA AppendTells ==
  ASSUME TypeInv, InOrder, Named, NEW x \in Entries, log' = Append(log, x),
         x.action = "reversal" => x.reverses \in DOMAIN log
  PROVE  /\ Len(log) \in Nat /\ DOMAIN log = 1..Len(log)
         /\ DOMAIN log' = 1..(Len(log) + 1) /\ log'[Len(log) + 1] = x
         /\ \A i \in DOMAIN log : log'[i] = log[i]
         /\ \A e : \A n \in 0..Len(log) :
              RowAfter(log', e, n) = RowAfter(log, e, n)
         /\ \A e : Told(e)' = IF x.entity = e THEN Effect(log, Told(e), x)
                                              ELSE Told(e)
<1>1. log \in Seq(Entries)
  BY DEF TypeInv, TypeOK
<1>2. /\ Len(log) \in Nat /\ DOMAIN log = 1..Len(log)
      /\ Len(log') = Len(log) + 1
      /\ DOMAIN log' = 1..(Len(log) + 1) /\ log'[Len(log) + 1] = x
      /\ \A i \in DOMAIN log : log'[i] = log[i]
  BY <1>1
<1>3. ASSUME NEW i \in 1..Len(log)
      PROVE  /\ log[i] = log'[i]
             /\ log[i].action = "reversal" =>
                  log[log[i].reverses] = log'[log[i].reverses]
  <2>1. log[i].action = "reversal" => log[i].reverses \in DOMAIN log
    BY <1>2 DEF Named, NamesIts, InOrder, Reversals, PointsBack
  <2>. QED
    BY <1>2, <2>1
<1>4. ASSUME NEW e
      PROVE  \A n \in 0..Len(log) : RowAfter(log', e, n) = RowAfter(log, e, n)
  <2>1. \A n \in 0..Len(log) : RowAfter(log, e, n) = RowAfter(log', e, n)
    BY <1>2, <1>3, RowAfterSame, ZenonT(60)
  <2>. QED
    BY <2>1
<1>5. ASSUME NEW e
      PROVE  Told(e)' = IF x.entity = e THEN Effect(log, Told(e), x) ELSE Told(e)
  <2>1. PICK n \in Nat \ {0} : n = Len(log) + 1 /\ n - 1 = Len(log)
    BY <1>2
  <2>2. RowAfter(log', e, n) =
          IF log'[n].entity = e
            THEN Effect(log', RowAfter(log', e, n - 1), log'[n])
            ELSE RowAfter(log', e, n - 1)
    BY RowAfterNext
  <2>3. RowAfter(log', e, n - 1) = Told(e)
    BY <1>2, <1>4, <2>1 DEF Told
  <2>4. Effect(log', Told(e), x) = Effect(log, Told(e), x)
    <3>1. x.action = "reversal" => log'[x.reverses] = log[x.reverses]
      BY <1>2
    <3>. QED
      BY <3>1 DEF Effect
  <2>5. Told(e)' = RowAfter(log', e, n)
    BY <1>2, <2>1 DEF Told
  <2>. QED
    BY <1>2, <2>1, <2>2, <2>3, <2>4, <2>5, Zenon
<1>. QED
  BY <1>2, <1>4, <1>5

(* What the rest of the log says of an entity is kept when a request that  *)
(* is not half done with it moves.                                         *)
LEMMA StoryKept ==
  ASSUME TypeInv, InOrder, Named, NEW e \in Entities, Story(e),
         NEW r \in Requests, NEW s, Goes(r, s), ~HalfDoneOn(r, e),
         s.entity # e \/ s.pc \notin {"created", "saving", "deleting", "applied"},
         rows'[e] = rows[e],
         \/ UNCHANGED log
         \/ \E x \in Entries : /\ log' = Append(log, x) /\ x.entity # e
                               /\ x.action = "reversal" => x.reverses \in DOMAIN log
  PROVE  Story(e)'
<1>1. /\ \A i \in DOMAIN log : log'[i] = log[i]
      /\ \A i \in DOMAIN log' : log'[i].entity = e => i \in DOMAIN log
      /\ \A i \in DOMAIN log : RowAfter(log', e, i - 1) = RowAfter(log, e, i - 1)
      /\ Told(e)' = Told(e)
  <2>1. CASE UNCHANGED log
    BY <2>1, SMTT(40) DEF Told
  <2>2. ASSUME NEW x \in Entries, log' = Append(log, x), x.entity # e,
               x.action = "reversal" => x.reverses \in DOMAIN log
        PROVE  /\ \A i \in DOMAIN log : log'[i] = log[i]
               /\ \A i \in DOMAIN log' : log'[i].entity = e => i \in DOMAIN log
               /\ \A i \in DOMAIN log :
                    RowAfter(log', e, i - 1) = RowAfter(log, e, i - 1)
               /\ Told(e)' = Told(e)
    <3>1. /\ Len(log) \in Nat /\ DOMAIN log = 1..Len(log)
          /\ DOMAIN log' = 1..(Len(log) + 1) /\ log'[Len(log) + 1] = x
          /\ \A i \in DOMAIN log : log'[i] = log[i]
          /\ \A n \in 0..Len(log) : RowAfter(log', e, n) = RowAfter(log, e, n)
          /\ Told(e)' = Told(e)
      BY <2>2, AppendTells
    <3>2. \A i \in DOMAIN log : i - 1 \in 0..Len(log)
      BY <3>1
    <3>3. \A i \in DOMAIN log' : i \in DOMAIN log \/ i = Len(log) + 1
      BY <3>1
    <3>. QED
      BY <2>2, <3>1, <3>2, <3>3
  <2>. QED
    BY <2>1, <2>2
<1>2. \A q \in Requests : req'[q] = IF q = r THEN s ELSE req[q]
  BY DEF Goes, TypeInv, TypeOK
<1>3. \A q \in Requests : HalfDoneOn(q, e)' => q # r /\ HalfDoneOn(q, e)
  BY <1>2 DEF HalfDoneOn, HalfDone
<1>4. \A q \in Requests : HalfDoneOn(q, e) => HalfDoneOn(q, e)'
  BY <1>2 DEF HalfDoneOn, HalfDone
<1>5. \A q \in Requests : HalfDoneOn(q, e)' => Explained(q, e)'
  <2>. SUFFICES ASSUME NEW q \in Requests, HalfDoneOn(q, e)'
                PROVE  Explained(q, e)'
    OBVIOUS
  <2>1. HalfDoneOn(q, e) /\ req'[q] = req[q]
    BY <1>2, <1>3
  <2>2. Explained(q, e)
    BY <2>1 DEF Story
  <2>3. req[q].pc = "applied" => log'[req[q].id] = log[req[q].id]
    BY <1>1 DEF TypeInv, Shape, StateShape
  <2>. QED
    BY <1>1, <2>1, <2>2, <2>3 DEF Explained
<1>6. (\A q \in Requests : ~HalfDoneOn(q, e)') => Matches(rows'[e], Told(e)')
  BY <1>1, <1>4 DEF Story
<1>7. \A i \in DOMAIN log' :
        log'[i].entity = e => EntryTells(log'[i], RowAfter(log', e, i - 1))
  BY <1>1 DEF Story
<1>8. \A q, p \in Requests : HalfDoneOn(q, e)' /\ HalfDoneOn(p, e)' => q = p
  BY <1>3 DEF Story
<1>. QED
  BY <1>5, <1>6, <1>7, <1>8 DEF Story

(* Of an undisturbed entity, nothing else is half done.                    *)
LEMMA NotContended ==
  ASSUME TypeInv, Stories, NEW r \in Requests, NEW really \in BOOLEAN,
         req[r].entity \in Entities, Disturbs(r, really),
         req[r].entity \notin disturbed'
  PROVE  /\ ~ really /\ Story(req[r].entity)
         /\ \A q \in Requests : HalfDoneOn(q, req[r].entity) => q = r
<1>1. ~ really /\ ~ Contended(r) /\ req[r].entity \notin disturbed
  BY DEF Disturbs
<1>2. Story(req[r].entity)
  BY <1>1 DEF Stories
<1>3. \A q \in Requests : HalfDoneOn(q, req[r].entity) => q = r
  BY <1>1 DEF Contended, HalfDoneOn
<1>. QED
  BY <1>1, <1>2, <1>3

(* An entity's only half-done request moves, or one becomes it.            *)
LEMMA StoryTold ==
  ASSUME TypeInv, NEW e \in Entities, NEW r \in Requests, NEW s, Goes(r, s),
         \A q \in Requests : HalfDoneOn(q, e) => q = r,
         HalfDoneOn(r, e)' => Explained(r, e)',
         ~HalfDoneOn(r, e)' => Matches(rows'[e], Told(e)'),
         \A i \in DOMAIN log' :
           log'[i].entity = e => EntryTells(log'[i], RowAfter(log', e, i - 1))
  PROVE  Story(e)'
<1>1. \A q \in Requests : q # r => req'[q] = req[q]
  BY DEF Goes, TypeInv, TypeOK
<1>2. \A q \in Requests : HalfDoneOn(q, e)' => q = r
  BY <1>1 DEF HalfDoneOn, HalfDone
<1>. QED
  BY <1>2 DEF Story

(* The log is as it was, so that it tells what it told.                    *)
LEMMA SameTold ==
  ASSUME NEW e, UNCHANGED log
  PROVE  /\ Told(e)' = Told(e)
         /\ Story(e) => \A i \in DOMAIN log' :
              log'[i].entity = e => EntryTells(log'[i], RowAfter(log', e, i - 1))
BY DEF Told, Story

(* An entry that tells the row before it has been appended.                *)
LEMMA AlsoTold ==
  ASSUME TypeInv, InOrder, Named, NEW e, Story(e), NEW x \in Entries,
         log' = Append(log, x), x.entity = e,
         x.action = "reversal" => x.reverses \in DOMAIN log,
         EntryTells(x, Told(e))
  PROVE  /\ Told(e)' = Effect(log, Told(e), x)
         /\ \A i \in DOMAIN log' :
              log'[i].entity = e => EntryTells(log'[i], RowAfter(log', e, i - 1))
<1>1. /\ Len(log) \in Nat /\ DOMAIN log = 1..Len(log)
      /\ DOMAIN log' = 1..(Len(log) + 1) /\ log'[Len(log) + 1] = x
      /\ \A i \in DOMAIN log : log'[i] = log[i]
      /\ \A n \in 0..Len(log) : RowAfter(log', e, n) = RowAfter(log, e, n)
      /\ Told(e)' = Effect(log, Told(e), x)
  BY AppendTells
<1>2. ASSUME NEW i \in DOMAIN log', log'[i].entity = e
      PROVE  EntryTells(log'[i], RowAfter(log', e, i - 1))
  <2>1. CASE i \in DOMAIN log
    <3>1. i - 1 \in 0..Len(log)
      BY <1>1, <2>1
    <3>2. log'[i] = log[i] /\ RowAfter(log', e, i - 1) = RowAfter(log, e, i - 1)
      BY <1>1, <2>1, <3>1
    <3>. QED
      BY <1>2, <2>1, <3>2 DEF Story
  <2>2. CASE i \notin DOMAIN log
    <3>1. i = Len(log) + 1 /\ i - 1 = Len(log) /\ Len(log) \in 0..Len(log)
      BY <1>1, <2>2
    <3>2. log'[i] = x /\ RowAfter(log', e, i - 1) = Told(e)
      BY <1>1, <3>1 DEF Told
    <3>. QED
      BY <3>2
  <2>. QED
    BY <2>1, <2>2
<1>. QED
  BY <1>1, <1>2

-----------------------------------------------------------------------------
(* The steps.                                                              *)
-----------------------------------------------------------------------------

Half == {"created", "saving", "deleting", "applied"}

(* The log is left, or an entry about e is appended.                       *)
LogsOnly(e) ==
  \/ UNCHANGED log
  \/ \E x \in Entries : log' = Append(log, x) /\ x.entity = e /\ NamesIts(x)

LEMMA KnownKept ==
  ASSUME TypeInv, Known, NEW r \in Requests, NEW s, Goes(r, s),
         s.entity \in used' \cup {NoEntity}, used \subseteq used',
         \A e \in Entities : rows'[e] # NoRow => rows[e] # NoRow \/ e \in used',
         NEW d \in used' \cup {NoEntity}, LogsOnly(d)
  PROVE  Known'
<1>1. \A q \in Requests : req'[q] = IF q = r THEN s ELSE req[q]
  BY DEF Goes, TypeInv, TypeOK
<1>2. \A i \in DOMAIN log' : log'[i].entity \in used' \cup {NoEntity}
  <2>1. CASE UNCHANGED log
    BY <2>1 DEF Known
  <2>2. ASSUME NEW x \in Entries, log' = Append(log, x), x.entity = d
        PROVE  \A i \in DOMAIN log' : log'[i].entity \in used' \cup {NoEntity}
    <3>1. Grows(x)
      BY <2>2, AppendGrows DEF TypeInv
    <3>. QED
      BY <2>2, <3>1 DEF Grows, Known
  <2>. QED
    BY <2>1, <2>2 DEF LogsOnly
<1>. QED
  BY <1>1, <1>2 DEF Known

LEMMA NamedKept ==
  ASSUME TypeInv, Named, NEW d, LogsOnly(d)
  PROVE  Named'
<1>1. CASE UNCHANGED log
  BY <1>1 DEF Named, NamesIts
<1>2. ASSUME NEW x \in Entries, log' = Append(log, x), NamesIts(x)
      PROVE  Named'
  <2>1. Grows(x)
    BY <1>2, AppendGrows DEF TypeInv
  <2>. QED
    BY <1>2, <2>1 DEF Grows, Named, NamesIts
<1>. QED
  BY <1>1, <1>2 DEF LogsOnly

(* A step about e, which leaves the stories of the other entities alone.   *)
LEMMA StepAbout ==
  ASSUME TypeInv, InOrder, Stories, NEW e, NEW r \in Requests, NEW s, Goes(r, s),
         s.entity \in used' \cup {NoEntity}, used \subseteq used',
         e \in used' \cup {NoEntity}, LogsOnly(e), disturbed \subseteq disturbed',
         HalfDone(r) => req[r].entity \in {e} \cup disturbed',
         s.pc \in Half => s.entity \in {e} \cup disturbed',
         \A d \in Entities : d # e => rows'[d] = rows[d],
         e \in Entities \ disturbed' => Story(e)'
  PROVE  Stories'
<1>1. Known /\ Named
  BY DEF Stories
<1>2. \A d \in Entities : rows'[d] # NoRow => rows[d] # NoRow \/ d \in used'
  BY AuditAssumption
<1>3. Known' /\ Named'
  BY <1>1, <1>2, KnownKept, NamedKept
<1>4. ASSUME NEW d \in Entities \ disturbed' PROVE Story(d)'
  <2>1. CASE d = e
    BY <2>1
  <2>2. CASE d # e
    <3>1. Story(d) /\ ~HalfDoneOn(r, d) /\ rows'[d] = rows[d]
      BY <2>2 DEF Stories, HalfDoneOn
    <3>2. s.entity # d \/ s.pc \notin {"created", "saving", "deleting", "applied"}
      BY <2>2 DEF Half
    <3>3. \/ UNCHANGED log
          \/ \E x \in Entries : /\ log' = Append(log, x) /\ x.entity # d
                                /\ x.action = "reversal" => x.reverses \in DOMAIN log
      BY <2>2 DEF LogsOnly, NamesIts
    <3>. QED
      BY <1>1, <3>1, <3>2, <3>3, StoryKept
  <2>. QED
    BY <2>1, <2>2
<1>. QED
  BY <1>3, <1>4 DEF Stories

(* A step that changes no row, and writes nothing about one.               *)
LEMMA StepAside ==
  ASSUME TypeInv, InOrder, Stories, NEW r \in Requests, NEW s, Goes(r, s),
         s.entity \in used \cup {NoEntity}, UNCHANGED <<rows, used>>,
         LogsOnly(NoEntity), disturbed \subseteq disturbed',
         HalfDone(r) => req[r].entity \in disturbed',
         s.pc \in Half => s.entity \in disturbed'
  PROVE  Stories'
<1>1. NoEntity \notin Entities
  BY AuditAssumption DEF AuditAssumption
<1>. QED
  BY <1>1, StepAbout

LEMMA StateFields ==
  ASSUME TypeInv, NEW r \in Requests, NEW pc
  PROVE  /\ [req[r] EXCEPT !.pc = pc].pc = pc
         /\ [req[r] EXCEPT !.pc = pc].entity = req[r].entity
         /\ [req[r] EXCEPT !.pc = pc].row = req[r].row
         /\ [req[r] EXCEPT !.pc = pc].found = req[r].found
         /\ [req[r] EXCEPT !.pc = pc].id = req[r].id
         /\ Idle.pc = "idle" /\ Idle.entity = NoEntity
         /\ req[r].entity \in Entities \cup {NoEntity}
BY DEF TypeInv, TypeOK, RequestStates, Idle

LEMMA AsideStories ==
  ASSUME TypeInv, InOrder, Stories, NEW r \in Requests,
         \/ \E e \in Entities : Find(r, e)
         \/ \E i \in Ids : FindEntry(r, i)
         \/ RecordEvent(r) \/ CheckReversible(r)
         \/ ArchiveBegins(r) \/ CountOld(r) \/ CopyOld(r) \/ PurgeOld(r)
         \/ Abort(r)
  PROVE  Stories'
<1>1. /\ UNCHANGED <<rows, used>> /\ disturbed \subseteq disturbed'
      /\ HalfDone(r) => req[r].entity \in disturbed'
  BY DEF Find, FindEntry, RecordEvent, CheckReversible, ArchiveBegins, Begin,
         CountOld, CopyOld, PurgeOld, Abort, HalfDone
<1>2. LogsOnly(NoEntity)
  <2>1. CASE RecordEvent(r)
    <3>. DEFINE x == Entry(NoEntity, "event", NoColumns, NoColumns, 0)
    <3>1. x \in Entries
      BY NoColumnsPartial, RowsArePartial, EntryTyped DEF TypeInv
    <3>2. log' = Append(log, x) /\ x.entity = NoEntity /\ x.action = "event"
      BY <2>1 DEF RecordEvent, Entry
    <3>. HIDE DEF x
    <3>. QED
      BY <3>1, <3>2 DEF LogsOnly, NamesIts
  <2>2. CASE ~RecordEvent(r)
    BY <2>2 DEF Find, FindEntry, CheckReversible, ArchiveBegins, CountOld, CopyOld,
                PurgeOld, Abort, LogsOnly
  <2>. QED
    BY <2>1, <2>2
<1>3. ASSUME NEW s, Goes(r, s), s.entity \in used \cup {NoEntity}, s.pc \notin Half
      PROVE  Stories'
  BY <1>1, <1>2, <1>3, StepAside
<1>4. req[r].entity \in used \cup {NoEntity}
  BY DEF Stories, Known
<1>5. ASSUME NEW s \in RequestStates, s.entity \in used \cup {NoEntity},
             s.pc \notin Half, Begin(r, s)
      PROVE  Stories'
  <2>1. /\ [s EXCEPT !.since = now].pc = s.pc
        /\ [s EXCEPT !.since = now].entity = s.entity
    BY DEF RequestStates
  <2>. QED
    BY <1>3, <1>5, <2>1 DEF Begin
<1>6. ASSUME NEW e \in Entities, Find(r, e) PROVE Stories'
  <2>. DEFINE s == [Idle EXCEPT !.pc = "loaded", !.entity = e, !.found = rows[e]]
  <2>1. rows[e] \in Rows \cup {NoRow} /\ e \in used /\ Begin(r, s)
    BY <1>6 DEF Find, TypeInv, TypeOK, Stories, Known
  <2>2. s \in RequestStates /\ s.entity = e /\ s.pc = "loaded"
    BY <2>1, IdleState DEF RequestStates
  <2>. HIDE DEF s
  <2>. QED
    BY <1>5, <2>1, <2>2 DEF Half
<1>7. ASSUME NEW i \in Ids, FindEntry(r, i) PROVE Stories'
  <2>. DEFINE s == [Idle EXCEPT !.pc = "fetched", !.entity = log[i].entity, !.id = i]
  <2>1. i \in DOMAIN log /\ log \in Seq(Entries) /\ Begin(r, s)
    BY <1>7 DEF FindEntry, Live, TypeInv, TypeOK
  <2>2. log[i].entity \in used \cup {NoEntity} /\ log[i] \in Entries
    BY <2>1 DEF Stories, Known
  <2>3. s \in RequestStates /\ s.entity = log[i].entity /\ s.pc = "fetched"
    BY <2>2, IdleState DEF RequestStates, Entries
  <2>. HIDE DEF s
  <2>. QED
    BY <1>5, <2>1, <2>2, <2>3 DEF Half
<1>8. CASE RecordEvent(r)
  <2>1. Goes(r, req[r]) /\ req[r].pc = "idle"
    BY <1>8 DEF RecordEvent, Goes, TypeInv, TypeOK
  <2>. QED
    BY <1>3, <1>4, <2>1 DEF Half
<1>9. ASSUME Ends(r) PROVE Stories'
  BY <1>3, <1>9, StateFields DEF Ends, Half
<1>10. CASE CheckReversible(r)
  <2>. DEFINE s == [req[r] EXCEPT !.pc = "reversible"]
  <2>1. s.pc = "reversible" /\ s.entity = req[r].entity
    BY StateFields
  <2>2. Goes(r, s) \/ Ends(r)
    BY <1>10 DEF CheckReversible, Step
  <2>. HIDE DEF s
  <2>. QED
    BY <1>3, <1>4, <1>9, <2>1, <2>2 DEF Half
<1>11. CASE ArchiveBegins(r)
  <2>. DEFINE s == [Idle EXCEPT !.pc = "count", !.events = TRUE]
  <2>1. s \in RequestStates /\ s.entity = NoEntity /\ s.pc = "count"
    BY IdleState, StateFields DEF RequestStates
  <2>2. Begin(r, s)
    BY <1>11 DEF ArchiveBegins
  <2>. HIDE DEF s
  <2>. QED
    BY <1>5, <2>1, <2>2 DEF Half
<1>12. ASSUME PassEnds(r) PROVE Stories'
  <2>. DEFINE s == [Idle EXCEPT !.pc = "count", !.since = req[r].since]
  <2>1. s.entity = NoEntity /\ s.pc = "count"
    BY IdleState, StateFields DEF RequestStates
  <2>2. Goes(r, s) \/ Ends(r)
    BY <1>12 DEF PassEnds
  <2>. HIDE DEF s
  <2>. QED
    BY <1>3, <1>9, <2>1, <2>2 DEF Half
<1>13. CASE CountOld(r)
  <2>. DEFINE s == [req[r] EXCEPT !.pc = "copy",
                                  !.cutoff = Cutoff(req[r].events)]
  <2>1. s.pc = "copy" /\ s.entity = req[r].entity
    BY DEF TypeInv, TypeOK, RequestStates
  <2>2. Goes(r, s) \/ PassEnds(r)
    BY <1>13 DEF CountOld
  <2>. HIDE DEF s
  <2>. QED
    BY <1>3, <1>4, <1>12, <2>1, <2>2 DEF Half
<1>14. CASE CopyOld(r)
  <2>. DEFINE s == [req[r] EXCEPT !.pc = "purge",
                                  !.ids = Old(req[r].events, req[r].cutoff)]
  <2>1. s.pc = "purge" /\ s.entity = req[r].entity
    BY DEF TypeInv, TypeOK, RequestStates
  <2>2. Goes(r, s)
    BY <1>14 DEF CopyOld
  <2>. HIDE DEF s
  <2>. QED
    BY <1>3, <1>4, <2>1, <2>2 DEF Half
<1>15. CASE PurgeOld(r)
  BY <1>9, <1>12, <1>15 DEF PurgeOld
<1>16. CASE Abort(r)
  BY <1>9, <1>16 DEF Abort
<1>. QED
  BY <1>6, <1>7, <1>8, <1>10, <1>11, <1>13, <1>14, <1>15, <1>16, SMTT(40)

(* The entry is written, and e is not disturbed, or it is not written.     *)
LEMMA Recorded ==
  ASSUME TypeInv, NEW r \in Requests, NEW x \in Entries, NEW stale \in BOOLEAN,
         req[r].entity \in Entities, Record(r, x, stale)
  PROVE  /\ disturbed \subseteq disturbed'
         /\ x.entity = req[r].entity /\ NamesIts(x) => LogsOnly(req[r].entity)
         /\ req[r].entity \notin disturbed' =>
              log' = Append(log, x) /\ Disturbs(r, stale)
BY DEF Record, Disturbs, LogsOnly

LEMMA AfterCreateStories ==
  ASSUME TypeInv, InOrder, Stories, NEW r \in Requests, AfterCreate(r)
  PROVE  Stories'
<1>0. PICK e : e = req[r].entity
  OBVIOUS
<1>. USE <1>0
<1>. DEFINE x == Entry(e, "insert", NoColumns, InMemory(req[r].row), 0)
<1>1. /\ e \in Entities /\ req[r].row \in Rows /\ req[r].pc = "created"
      /\ Record(r, x, FALSE) /\ Goes(r, Idle) /\ UNCHANGED <<rows, used>>
      /\ e \in used
  BY AuditAssumption
     DEF AfterCreate, Ends, TypeInv, Shape, StateShape, Stories, Known,
         AuditAssumption
<1>2. x \in Entries
  BY <1>1, InMemoryTyped, NoColumnsPartial, EntryTyped DEF TypeInv
<1>3. x.entity = e /\ x.action = "insert" /\ x.new = InMemory(req[r].row)
  BY DEF Entry
<1>. HIDE DEF x
<1>4. /\ disturbed \subseteq disturbed' /\ LogsOnly(e)
      /\ e \notin disturbed' => log' = Append(log, x) /\ Disturbs(r, FALSE)
  BY <1>1, <1>2, <1>3, Recorded DEF NamesIts
<1>5. ASSUME e \notin disturbed' PROVE Story(e)'
  <2>1. /\ Story(e) /\ \A q \in Requests : HalfDoneOn(q, e) => q = r
    BY <1>1, <1>4, <1>5, NotContended
  <2>2. Told(e) = NoRow /\ rows[e] = req[r].row
    BY <1>1, <2>1 DEF Story, HalfDoneOn, HalfDone, Explained
  <2>3. EntryTells(x, Told(e))
    BY <1>3, <2>2 DEF EntryTells
  <2>4. /\ Told(e)' = Effect(log, Told(e), x)
        /\ \A i \in DOMAIN log' :
             log'[i].entity = e => EntryTells(log'[i], RowAfter(log', e, i - 1))
    BY <1>2, <1>3, <1>4, <1>5, <2>1, <2>3, AlsoTold DEF Stories
  <2>5. Matches(rows'[e], Told(e)')
    BY <1>1, <1>3, <2>2, <2>4, MatchesInMemory DEF Effect
  <2>6. ~HalfDoneOn(r, e)'
    BY <1>1, StateFields DEF HalfDoneOn, HalfDone, Goes, TypeInv, TypeOK
  <2>. QED
    BY <1>1, <2>1, <2>4, <2>5, <2>6, StoryTold
<1>. QED
  BY <1>1, <1>4, <1>5, StateFields, StepAbout DEF Half

(* Nothing is half done with a row that a handler has loaded, and what it  *)
(* has loaded matches what the log tells.                                  *)
LEMMA LoadedIsTold ==
  ASSUME TypeInv, Stories, NEW r \in Requests, req[r].pc = "loaded",
         Disturbs(r, Stale(r)), req[r].entity \notin disturbed'
  PROVE  /\ req[r].entity \in Entities /\ Story(req[r].entity)
         /\ \A q \in Requests : ~HalfDoneOn(q, req[r].entity)
         /\ rows[req[r].entity] = req[r].found
         /\ Matches(req[r].found, Told(req[r].entity))
<1>1. req[r].entity \in Entities /\ Stale(r) \in BOOLEAN
  BY DEF TypeInv, Shape, StateShape, Stale
<1>2. /\ ~Stale(r) /\ Story(req[r].entity)
      /\ \A q \in Requests : HalfDoneOn(q, req[r].entity) => q = r
  BY <1>1, NotContended
<1>3. \A q \in Requests : ~HalfDoneOn(q, req[r].entity)
  BY <1>2 DEF HalfDoneOn, HalfDone
<1>. QED
  BY <1>1, <1>2, <1>3 DEF Stale, Story

(* The columns that change are enough to tell the row.                     *)
LEMMA ChangesTellRow ==
  ASSUME NEW found \in Rows, NEW row \in Rows, NEW told, Matches(found, told)
  PROVE  /\ Matches(row, Updated(told, OnlyColumns(row, ChangedFields(found, row))))
         /\ Updated(found, row) = row
         /\ ChangedFields(found, row) \in SUBSET Columns
         /\ OnlyColumns(row, ChangedFields(found, row))
              \in [ChangedFields(found, row) -> Values]
<1>1. found # NoRow /\ found \in [Columns -> Values] /\ row \in [Columns -> Values]
  BY RowsAreNotNoRow DEF Rows
<1>2. row = [c \in Columns |-> row[c]]
  BY <1>1
<1>3. ChangedFields(found, row) \in SUBSET Columns
  BY DEF ChangedFields
<1>4. Updated(found, row) = row
  BY <1>1, <1>2 DEF Updated
<1>. DEFINE new == OnlyColumns(row, ChangedFields(found, row))
<1>5. /\ DOMAIN new = ChangedFields(found, row)
      /\ \A c \in ChangedFields(found, row) : new[c] = row[c]
      /\ new \in [ChangedFields(found, row) -> Values]
  BY <1>1, <1>3 DEF OnlyColumns
<1>. HIDE DEF new
<1>6. \A c \in Columns :
        (IF c \in DOMAIN new THEN new[c] ELSE found[c]) = row[c]
  BY <1>5 DEF ChangedFields
<1>7. Updated(found, new) = row
  BY <1>1, <1>2, <1>6 DEF Updated
<1>8. new \in PartialRows
  BY <1>3, <1>5 DEF PartialRows
<1>9. Matches(row, Updated(told, new))
  BY <1>7, <1>8, MatchesUpdated
<1>. QED
  BY <1>3, <1>4, <1>5, <1>9 DEF new

LEMMA BeforeUpdateStories ==
  ASSUME TypeInv, InOrder, Stories, NEW r \in Requests, BeforeUpdate(r)
  PROVE  Stories'
<1>0. PICK e : e = req[r].entity
  OBVIOUS
<1>. USE <1>0
<1>. DEFINE found == req[r].found
            X(row) == Entry(e, "update", OldValues(found, row),
                            OnlyColumns(row, ChangedFields(found, row)), 0)
            S(row) == [req[r] EXCEPT !.pc = "saving", !.row = row]
<1>1. PICK row \in Rows : Record(r, X(row), Stale(r)) /\ Goes(r, S(row))
  BY DEF BeforeUpdate
<1>2. /\ e \in Entities /\ found \in Rows /\ req[r].pc = "loaded"
      /\ UNCHANGED <<rows, used>> /\ e \in used /\ Stale(r) \in BOOLEAN
  BY AuditAssumption
     DEF BeforeUpdate, TypeInv, Shape, StateShape, Stories, Known, Stale,
         AuditAssumption
<1>3. PICK x : x = X(row)
  OBVIOUS
<1>4. PICK s : s = S(row)
  OBVIOUS
<1>5. /\ s.pc = "saving" /\ s.entity = e /\ s.row = row /\ s.found = found
  BY <1>4 DEF TypeInv, TypeOK, RequestStates
<1>6. x.entity = e /\ x.action = "update"
      /\ x.old = OldValues(found, row)
      /\ x.new = OnlyColumns(row, ChangedFields(found, row))
  BY <1>3 DEF Entry
<1>7. x \in Entries
  <2>1. ChangedFields(found, row) \in SUBSET Columns
    BY DEF ChangedFields
  <2>2. /\ OldValues(found, row) \in PartialRows
        /\ OnlyColumns(row, ChangedFields(found, row)) \in PartialRows
    BY <1>2, <2>1, ColumnsArePartial DEF OldValues
  <2>. QED
    BY <1>2, <1>3, <2>2, RowsArePartial, EntryTyped DEF TypeInv
<1>8. Record(r, x, Stale(r)) /\ Goes(r, s)
  BY <1>1, <1>3, <1>4
<1>. HIDE DEF X, S
<1>9. /\ disturbed \subseteq disturbed' /\ LogsOnly(e)
      /\ e \notin disturbed' => log' = Append(log, x) /\ Disturbs(r, Stale(r))
  BY <1>2, <1>6, <1>7, <1>8, Recorded DEF NamesIts
<1>10. ASSUME e \notin disturbed' PROVE Story(e)'
  <2>1. /\ Story(e) /\ \A q \in Requests : ~HalfDoneOn(q, e)
        /\ rows[e] = found /\ Matches(found, Told(e))
    BY <1>2, <1>9, <1>10, LoadedIsTold
  <2>2. EntryTells(x, Told(e))
    <3>1. /\ ChangedFields(found, row) \in SUBSET Columns
          /\ x.old = OnlyColumns(found, ChangedFields(found, row))
          /\ x.new \in [ChangedFields(found, row) -> Values]
      BY <1>2, <1>6, <2>1, ChangesTellRow DEF OldValues
    <3>. QED
      BY <1>2, <1>6, <2>1, <3>1 DEF EntryTells
  <2>3. /\ Told(e)' = Effect(log, Told(e), x)
        /\ \A i \in DOMAIN log' :
             log'[i].entity = e => EntryTells(log'[i], RowAfter(log', e, i - 1))
    BY <1>6, <1>7, <1>9, <1>10, <2>1, <2>2, AlsoTold DEF Stories
  <2>4. Matches(row, Told(e)')
    BY <1>2, <1>6, <2>1, <2>3, ChangesTellRow DEF Effect
  <2>5. req'[r] = s
    BY <1>8 DEF Goes, TypeInv, TypeOK
  <2>6. HalfDoneOn(r, e)' /\ Explained(r, e)'
    BY <1>2, <1>5, <2>1, <2>4, <2>5 DEF HalfDoneOn, HalfDone, Explained
  <2>. QED
    BY <1>2, <1>8, <2>1, <2>3, <2>6, StoryTold
<1>. QED
  BY <1>2, <1>5, <1>8, <1>9, <1>10, StepAbout DEF HalfDone

LEMMA SaveStories ==
  ASSUME TypeInv, InOrder, Stories, NEW r \in Requests,
         Save(r) \/ SaveUnchanged(r) \/ Delete(r)
  PROVE  Stories'
<1>0. PICK e : e = req[r].entity
  OBVIOUS
<1>. USE <1>0
<1>1. /\ e \in Entities /\ Goes(r, Idle) /\ UNCHANGED <<log, used>> /\ e \in used
      /\ disturbed \subseteq disturbed' /\ LogsOnly(e)
  BY AuditAssumption
     DEF Save, SaveUnchanged, Delete, Ends, Disturbs, TypeInv, Shape, StateShape,
         Stories, Known, LogsOnly, AuditAssumption
<1>2. \A d \in Entities : d # e => rows'[d] = rows[d]
  BY DEF Save, SaveUnchanged, Delete, TypeInv, TypeOK
<1>3. ASSUME e \notin disturbed' PROVE Story(e)'
  <2>1. Told(e)' = Told(e)
    BY <1>1, SameTold
  <2>2. ~HalfDoneOn(r, e)'
    BY <1>1, StateFields DEF HalfDoneOn, HalfDone, Goes, TypeInv, TypeOK
  <2>3. ASSUME Story(e), \A q \in Requests : HalfDoneOn(q, e) => q = r,
               Matches(rows'[e], Told(e))
        PROVE  Story(e)'
    BY <1>1, <2>1, <2>2, <2>3, SameTold, StoryTold
  <2>4. CASE Save(r)
    <3>1. /\ req[r].pc = "saving" /\ Disturbs(r, FALSE)
          /\ rows' = [rows EXCEPT ![e] = Updated(@, req[r].row)]
          /\ req[r].row \in Rows /\ req[r].found \in Rows
      BY <2>4 DEF Save, TypeInv, Shape, StateShape
    <3>2. Story(e) /\ \A q \in Requests : HalfDoneOn(q, e) => q = r
      BY <1>1, <1>3, <3>1, NotContended
    <3>3. Matches(req[r].row, Told(e)) /\ rows[e] = req[r].found
      BY <3>1, <3>2 DEF Story, HalfDoneOn, HalfDone, Explained
    <3>4. rows'[e] = Updated(req[r].found, req[r].row)
      BY <1>1, <3>1, <3>3 DEF TypeInv, TypeOK
    <3>. QED
      BY <2>3, <3>1, <3>2, <3>3, <3>4, MatchesItself, ChangesTellRow
  <2>5. CASE SaveUnchanged(r)
    <3>1. /\ req[r].pc = "loaded" /\ Disturbs(r, Stale(r))
          /\ rows' = [rows EXCEPT ![e] = Updated(@, req[r].found)]
          /\ req[r].found \in Rows
      BY <2>5 DEF SaveUnchanged, TypeInv, Shape, StateShape
    <3>2. /\ Story(e) /\ \A q \in Requests : ~HalfDoneOn(q, e)
          /\ rows[e] = req[r].found /\ Matches(req[r].found, Told(e))
      BY <1>3, <3>1, LoadedIsTold
    <3>3. rows'[e] = Updated(req[r].found, req[r].found)
      BY <1>1, <3>1, <3>2 DEF TypeInv, TypeOK
    <3>. QED
      BY <2>3, <3>1, <3>2, <3>3, ChangesTellRow
  <2>6. CASE Delete(r)
    <3>1. /\ req[r].pc = "deleting" /\ Disturbs(r, FALSE)
          /\ rows' = [rows EXCEPT ![e] = NoRow]
      BY <2>6 DEF Delete
    <3>2. Story(e) /\ \A q \in Requests : HalfDoneOn(q, e) => q = r
      BY <1>1, <1>3, <3>1, NotContended
    <3>3. Told(e) = NoRow
      BY <3>1, <3>2 DEF Story, HalfDoneOn, HalfDone, Explained
    <3>4. rows'[e] = NoRow
      BY <1>1, <3>1 DEF TypeInv, TypeOK
    <3>. QED
      BY <2>3, <3>2, <3>3, <3>4, MatchesItself
  <2>. QED
    BY <2>4, <2>5, <2>6
<1>. QED
  BY <1>1, <1>2, <1>3, StateFields, StepAbout DEF Half

LEMMA BeforeDeleteStories ==
  ASSUME TypeInv, InOrder, Stories, NEW r \in Requests, BeforeDelete(r)
  PROVE  Stories'
<1>0. PICK e : e = req[r].entity
  OBVIOUS
<1>. USE <1>0
<1>1. /\ e \in Entities /\ req[r].found \in Rows /\ req[r].pc = "loaded"
      /\ UNCHANGED <<rows, used>> /\ e \in used /\ Stale(r) \in BOOLEAN
  BY AuditAssumption
     DEF BeforeDelete, TypeInv, Shape, StateShape, Stories, Known, Stale,
         AuditAssumption
<1>2. PICK x : x = Entry(e, "delete", req[r].found, NoRow, 0)
  OBVIOUS
<1>3. PICK s : s = [req[r] EXCEPT !.pc = "deleting"]
  OBVIOUS
<1>4. s.pc = "deleting" /\ s.entity = e
  BY <1>3, StateFields
<1>5. /\ x.entity = e /\ x.action = "delete" /\ x.old = req[r].found
      /\ x.new = NoRow
  BY <1>2 DEF Entry
<1>6. x \in Entries
  BY <1>1, <1>2, RowsArePartial, EntryTyped DEF TypeInv
<1>7. Record(r, x, Stale(r)) /\ Goes(r, s)
  BY <1>2, <1>3 DEF BeforeDelete, Step
<1>8. /\ disturbed \subseteq disturbed' /\ LogsOnly(e)
      /\ e \notin disturbed' => log' = Append(log, x) /\ Disturbs(r, Stale(r))
  BY <1>1, <1>5, <1>6, <1>7, Recorded DEF NamesIts
<1>9. ASSUME e \notin disturbed' PROVE Story(e)'
  <2>1. /\ Story(e) /\ \A q \in Requests : ~HalfDoneOn(q, e)
        /\ rows[e] = req[r].found /\ Matches(req[r].found, Told(e))
    BY <1>1, <1>8, <1>9, LoadedIsTold
  <2>2. EntryTells(x, Told(e))
    BY <1>1, <1>5, <2>1 DEF EntryTells
  <2>3. /\ Told(e)' = Effect(log, Told(e), x)
        /\ \A i \in DOMAIN log' :
             log'[i].entity = e => EntryTells(log'[i], RowAfter(log', e, i - 1))
    BY <1>5, <1>6, <1>8, <1>9, <2>1, <2>2, AlsoTold DEF Stories
  <2>4. Told(e)' = NoRow
    BY <1>5, <2>3 DEF Effect
  <2>5. req'[r] = s
    BY <1>7 DEF Goes, TypeInv, TypeOK
  <2>6. HalfDoneOn(r, e)' /\ Explained(r, e)'
    BY <1>4, <2>4, <2>5 DEF HalfDoneOn, HalfDone, Explained
  <2>. QED
    BY <1>1, <1>7, <2>1, <2>3, <2>6, StoryTold
<1>. QED
  BY <1>1, <1>4, <1>7, <1>8, <1>9, StepAbout DEF HalfDone

(* What a reverser holds: an entry about a row.                            *)
LEMMA ReversedEntry ==
  ASSUME TypeInv, Stories, NEW r \in Requests, req[r].pc \in {"reversible", "applied"}
  PROVE  /\ req[r].id \in Ids /\ req[r].id \in DOMAIN log
         /\ log[req[r].id] \in Entries
         /\ log[req[r].id].action \in {"insert", "update", "delete"}
         /\ log[req[r].id].entity = req[r].entity
         /\ req[r].entity \in Entities /\ req[r].entity \in used
         /\ ReversalValues(log[req[r].id]) \in PartialRows \cup {NoRow}
<1>1. /\ req[r].id \in Ids /\ req[r].id \in DOMAIN log
      /\ log[req[r].id].entity = req[r].entity
      /\ log[req[r].id].action \in {"insert", "update", "delete"}
  BY DEF TypeInv, Shape, StateShape
<1>2. log[req[r].id] \in Entries /\ EntryShape(log[req[r].id])
  BY <1>1 DEF TypeInv, TypeOK, Shape
<1>3. req[r].entity \in Entities /\ req[r].entity \in used
  BY <1>1, <1>2, AuditAssumption DEF EntryShape, Stories, Known, AuditAssumption
<1>. QED
  BY <1>1, <1>2, <1>3 DEF ReversalValues, Entries

LEMMA ApplyStories ==
  ASSUME TypeInv, InOrder, Stories, NEW r \in Requests, Apply(r)
  PROVE  Stories'
<1>0. PICK e : e = req[r].entity
  OBVIOUS
<1>. USE <1>0
<1>. DEFINE x == log[req[r].id]
<1>1. /\ e \in Entities /\ e \in used /\ UNCHANGED <<log, used>>
      /\ req[r].pc = "reversible"
      /\ x.action \in {"insert", "update", "delete"}
  BY ReversedEntry DEF Apply
<1>2. CASE Ends(r) /\ UNCHANGED <<rows, disturbed>>
  <2>1. ~HalfDone(r) /\ LogsOnly(NoEntity) /\ Idle.pc \notin Half
    BY <1>1 DEF HalfDone, LogsOnly, Idle, Half
  <2>. QED
    BY <1>1, <1>2, <2>1, StateFields, StepAside DEF Ends
<1>3. CASE /\ rows' = [rows EXCEPT ![e] = Restored(@, x)]
           /\ Disturbs(r, FALSE)
           /\ Step(r, "applied")
  <2>1. PICK s : s = [req[r] EXCEPT !.pc = "applied"]
    OBVIOUS
  <2>2. /\ s.pc = "applied" /\ s.entity = e /\ s.id = req[r].id /\ Goes(r, s)
    BY <1>3, <2>1, StateFields DEF Step
  <2>3. /\ rows'[e] = Restored(rows[e], x)
        /\ \A d \in Entities : d # e => rows'[d] = rows[d]
    BY <1>1, <1>3 DEF TypeInv, TypeOK
  <2>4. disturbed \subseteq disturbed' /\ LogsOnly(e)
    BY <1>1, <1>3 DEF Disturbs, LogsOnly
  <2>5. ASSUME e \notin disturbed' PROVE Story(e)'
    <3>1. Story(e) /\ \A q \in Requests : HalfDoneOn(q, e) => q = r
      BY <1>1, <1>3, <2>5, NotContended
    <3>2. \A q \in Requests : ~HalfDoneOn(q, e)
      BY <1>1, <3>1 DEF HalfDoneOn, HalfDone
    <3>3. Matches(rows[e], Told(e)) /\ Told(e)' = Told(e)
      BY <1>1, <3>1, <3>2, SameTold DEF Story
    <3>4. IF x.action = "update" THEN Matches(rows'[e], Updated(Told(e), x.old))
          ELSE rows'[e] = ReversalValues(x)
      <4>1. rows[e] \in Rows \cup {NoRow} /\ x.old \in PartialRows
        BY <1>1, ReversedEntry DEF Entries, TypeInv, TypeOK
      <4>2. Matches(Updated(rows[e], x.old), Updated(Told(e), x.old))
        BY <3>3, <4>1, MatchesUpdated
      <4>. QED
        BY <1>1, <2>3, <4>2 DEF Restored, ReversalValues
    <3>5. req'[r] = s
      BY <2>2 DEF Goes, TypeInv, TypeOK
    <3>6. HalfDoneOn(r, e)' /\ Explained(r, e)'
      BY <1>1, <2>2, <3>3, <3>4, <3>5 DEF HalfDoneOn, HalfDone, Explained
    <3>7. \A i \in DOMAIN log' :
            log'[i].entity = e => EntryTells(log'[i], RowAfter(log', e, i - 1))
      BY <1>1, <3>1, SameTold
    <3>. QED
      BY <1>1, <2>2, <3>1, <3>6, <3>7, StoryTold
  <2>. QED
    BY <1>1, <2>2, <2>3, <2>4, <2>5, StepAbout DEF HalfDone
<1>. QED
  BY <1>2, <1>3 DEF Apply

LEMMA RecordReversalStories ==
  ASSUME TypeInv, InOrder, Stories, NEW r \in Requests, RecordReversal(r)
  PROVE  Stories'
<1>0. PICK e : e = req[r].entity
  OBVIOUS
<1>. USE <1>0
<1>. DEFINE y == log[req[r].id]
<1>1. /\ e \in Entities /\ e \in used /\ UNCHANGED <<rows, used>>
      /\ req[r].pc = "applied" /\ req[r].id \in DOMAIN log /\ req[r].id \in Ids
      /\ y.action \in {"insert", "update", "delete"} /\ y.entity = e
      /\ ReversalValues(y) \in PartialRows \cup {NoRow}
  BY ReversedEntry DEF RecordReversal
<1>2. PICK x : x = Entry(e, "reversal", NoColumns, ReversalValues(y), req[r].id)
  OBVIOUS
<1>3. /\ x.entity = e /\ x.action = "reversal" /\ x.new = ReversalValues(y)
      /\ x.reverses = req[r].id
  BY <1>2 DEF Entry
<1>4. x \in Entries
  BY <1>1, <1>2, NoColumnsPartial, RowsArePartial, EntryTyped DEF TypeInv
<1>5. Record(r, x, FALSE) /\ Goes(r, Idle) /\ NamesIts(x)
  BY <1>1, <1>2, <1>3 DEF RecordReversal, Ends, NamesIts
<1>6. /\ disturbed \subseteq disturbed' /\ LogsOnly(e)
      /\ e \notin disturbed' => log' = Append(log, x) /\ Disturbs(r, FALSE)
  BY <1>1, <1>3, <1>4, <1>5, Recorded
<1>7. ASSUME e \notin disturbed' PROVE Story(e)'
  <2>1. Story(e) /\ \A q \in Requests : HalfDoneOn(q, e) => q = r
    BY <1>1, <1>6, <1>7, NotContended
  <2>2. IF y.action = "update" THEN Matches(rows[e], Updated(Told(e), y.old))
        ELSE rows[e] = ReversalValues(y)
    BY <1>1, <2>1 DEF Story, HalfDoneOn, HalfDone, Explained
  <2>3. EntryTells(x, Told(e))
    BY <1>3 DEF EntryTells
  <2>4. /\ Told(e)' = Effect(log, Told(e), x)
        /\ \A i \in DOMAIN log' :
             log'[i].entity = e => EntryTells(log'[i], RowAfter(log', e, i - 1))
    BY <1>1, <1>3, <1>4, <1>6, <1>7, <2>1, <2>3, AlsoTold DEF Stories
  <2>5. Effect(log, Told(e), x) =
          IF y.action = "update" THEN Updated(Told(e), ReversalValues(y))
                                 ELSE ReversalValues(y)
    BY <1>3 DEF Effect
  <2>6. Matches(rows'[e], Told(e)')
    BY <1>1, <2>2, <2>4, <2>5, MatchesItself DEF ReversalValues
  <2>7. ~HalfDoneOn(r, e)'
    BY <1>5, StateFields DEF HalfDoneOn, HalfDone, Goes, TypeInv, TypeOK
  <2>. QED
    BY <1>1, <1>5, <2>1, <2>4, <2>6, <2>7, StoryTold
<1>. QED
  BY <1>1, <1>5, <1>6, <1>7, StateFields, StepAbout DEF Half

LEMMA CreateStories ==
  ASSUME TypeInv, InOrder, Stories, NEW r \in Requests, NEW e \in Entities,
         Create(r, e)
  PROVE  Stories'
<1>1. PICK row \in Rows :
        /\ Begin(r, [Idle EXCEPT !.pc = "created", !.entity = e, !.row = row])
        /\ rows' = [rows EXCEPT ![e] = row]
  BY DEF Create
<1>2. /\ e \notin used /\ used' = used \cup {e} /\ UNCHANGED <<log, disturbed>>
      /\ req[r].pc = "idle" /\ e # NoEntity
  BY <1>1, AuditAssumption DEF Create, Begin, AuditAssumption
<1>3. PICK s : s = [[Idle EXCEPT !.pc = "created", !.entity = e, !.row = row]
                      EXCEPT !.since = now]
  OBVIOUS
<1>4. s.pc = "created" /\ s.entity = e /\ s.row = row /\ Goes(r, s)
  BY <1>1, <1>3 DEF Begin, Idle
<1>5. /\ \A q \in Requests : ~HalfDoneOn(q, e)
      /\ rows[e] = NoRow
  BY <1>2 DEF Stories, Known, HalfDoneOn
<1>6. rows'[e] = row /\ \A d \in Entities : d # e => rows'[d] = rows[d]
  BY <1>1 DEF TypeInv, TypeOK
<1>7. ASSUME e \notin disturbed' PROVE Story(e)'
  <2>1. Story(e)
    BY <1>2, <1>7 DEF Stories
  <2>2. Told(e)' = NoRow
    BY <1>2, <1>5, <2>1, SameTold, MatchesNoRow DEF Story
  <2>3. req'[r] = s
    BY <1>4 DEF Goes, TypeInv, TypeOK
  <2>4. HalfDoneOn(r, e)' /\ Explained(r, e)'
    BY <1>4, <1>6, <2>2, <2>3 DEF HalfDoneOn, HalfDone, Explained
  <2>5. \A i \in DOMAIN log' :
          log'[i].entity = e => EntryTells(log'[i], RowAfter(log', e, i - 1))
    BY <1>2, <2>1, SameTold
  <2>. QED
    BY <1>4, <1>5, <2>4, <2>5, StoryTold
<1>8. ~HalfDone(r) /\ LogsOnly(e)
  BY <1>2 DEF HalfDone, LogsOnly
<1>. QED
  BY <1>2, <1>4, <1>6, <1>7, <1>8, StepAbout

LEMMA StoriesInit == Init => Stories
<1>. SUFFICES ASSUME Init PROVE Stories
  OBVIOUS
<1>1. /\ log = <<>> /\ DOMAIN log = {} /\ Len(log) = 0
      /\ \A e \in Entities : rows[e] = NoRow
      /\ \A r \in Requests : req[r] = Idle
  BY DEF Init
<1>2. \A e : Told(e) = NoRow
  BY <1>1, RowAfterStep DEF Told
<1>3. \A r \in Requests : ~HalfDone(r) /\ req[r].entity = NoEntity
  BY <1>1 DEF Idle, HalfDone
<1>. QED
  BY <1>1, <1>2, <1>3, MatchesItself DEF Stories, Known, Named, Story, HalfDoneOn

LEMMA WriteUnloggedStories ==
  ASSUME TypeInv, Stories, NEW e \in Entities, WriteUnlogged(e)
  PROVE  Stories'
<1>1. /\ UNCHANGED <<log, req>> /\ used' = used \cup {e}
      /\ disturbed' = disturbed \cup {e}
      /\ \A d \in Entities : d # e => rows'[d] = rows[d]
  BY DEF WriteUnlogged, TypeInv, TypeOK
<1>2. Known' /\ Named'
  BY <1>1 DEF Stories, Known, Named, NamesIts
<1>3. ASSUME NEW d \in Entities \ disturbed' PROVE Story(d)'
  <2>1. Story(d) /\ rows'[d] = rows[d]
    BY <1>1 DEF Stories
  <2>. QED
    BY <1>1, <2>1 DEF Story, HalfDoneOn, HalfDone, Explained, Told
<1>. QED
  BY <1>2, <1>3 DEF Stories

LEMMA StoriesNext == TypeInv /\ InOrder /\ Stories /\ [Next]_vars => Stories'
<1>. SUFFICES ASSUME TypeInv, InOrder, Stories, [Next]_vars PROVE Stories'
  OBVIOUS
<1>1. CASE UNCHANGED vars
  BY <1>1 DEF vars, Stories, Known, Named, NamesIts, Story, HalfDoneOn, HalfDone,
              Explained, Told
<1>2. CASE Tick
  BY <1>2 DEF Tick, Stories, Known, Named, NamesIts, Story, HalfDoneOn, HalfDone,
              Explained, Told
<1>3. ASSUME NEW r \in Requests,
             \/ \E e \in Entities : Create(r, e) \/ Find(r, e)
             \/ \E i \in Ids : FindEntry(r, i)
             \/ AfterCreate(r) \/ RecordEvent(r)
             \/ BeforeUpdate(r) \/ Save(r) \/ SaveUnchanged(r)
             \/ BeforeDelete(r) \/ Delete(r)
             \/ CheckReversible(r) \/ Apply(r) \/ RecordReversal(r)
             \/ ArchiveBegins(r) \/ CountOld(r) \/ CopyOld(r) \/ PurgeOld(r)
             \/ Abort(r)
      PROVE  Stories'
  BY <1>3, CreateStories, AsideStories, AfterCreateStories, BeforeUpdateStories,
     SaveStories, BeforeDeleteStories, ApplyStories, RecordReversalStories
<1>. QED
  BY <1>1, <1>2, <1>3, WriteUnloggedStories DEF Next

LEMMA StoriesHold == Spec => [](TypeInv /\ InOrder /\ Stories)
<1>1. Init => TypeInv /\ InOrder /\ Stories
  BY TypeInvInit, InOrderInit, StoriesInit
<1>2. TypeInv /\ InOrder /\ Stories /\ [Next]_vars
        => (TypeInv /\ InOrder /\ Stories)'
  BY TypeInvNext, InOrderNext, StoriesNext
<1>. QED
  BY <1>1, <1>2, PTL DEF Spec

(* Read from its first entry on, the log and its archive end in the row as *)
(* it is, but for what the database filled in and no later entry names,    *)
(* however many changes and reversals there were -- unless some of them    *)
(* raced, were cut short or were made by raw SQL.                          *)
THEOREM LogTellsRows == Spec => []LogExplains
<1>1. Stories => LogExplains
  BY DEF Stories, Story, HalfDoneOn, LogExplains, Told
<1>. QED
  BY <1>1, StoriesHold, PTL

(* An update of some columns, undone with what they held.                  *)
LEMMA UpdateUndone ==
  ASSUME NEW row \in Rows, NEW told, Matches(row, told),
         NEW C \in SUBSET Columns, NEW new \in [C -> Values]
  PROVE  Matches(Updated(Updated(told, new), OnlyColumns(row, C)), told)
<1>1. /\ told # NoRow
      /\ \A c \in Columns : told[c] \in Values \cup {Default}
      /\ \A c \in Columns :
           row[c] = told[c] \/ (c \in Defaulted /\ told[c] = Default)
  BY ToldColumns
<1>2. PICK mid : mid = Updated(told, new)
  OBVIOUS
<1>3. new \in PartialRows
  BY DEF PartialRows
<1>4. mid # NoRow
  BY <1>1, <1>2, <1>3, UpdatedIsARow
<1>5. \A c \in Columns : mid[c] = IF c \in C THEN new[c] ELSE told[c]
  BY <1>1, <1>2, UpdatedColumns
<1>6. PICK old : old = OnlyColumns(row, C)
  OBVIOUS
<1>7. DOMAIN old = C /\ (\A c \in C : old[c] = row[c]) /\ old \in PartialRows
  BY <1>6, ColumnsArePartial DEF OnlyColumns
<1>8. \A c \in Columns : mid[c] \in Values \cup {Default}
  BY <1>1, <1>5
<1>9. Updated(mid, old) # NoRow
  BY <1>4, <1>7, <1>8, UpdatedIsARow
<1>10. \A c \in Columns : Updated(mid, old)[c] = IF c \in C THEN row[c] ELSE told[c]
  <2>1. \A c \in Columns : Updated(mid, old)[c] =
          IF c \in DOMAIN old THEN old[c] ELSE mid[c]
    BY <1>4, UpdatedColumns
  <2>. QED
    BY <1>5, <1>7, <2>1
<1>11. Matches(Updated(mid, old), told)
  BY <1>1, <1>9, <1>10 DEF Matches
<1>. QED
  BY <1>2, <1>6, <1>11

(* A reversal undoes: with nothing in between, the log tells the row after *)
(* the reversal of a change as it told it before the change, or better: a  *)
(* default expression may have become the value.                           *)
THEOREM ReversalUndoesItsChange == Spec => []ReversalsUndo
<1>1. TypeInv /\ InOrder /\ Stories => ReversalsUndo
  <2>. SUFFICES ASSUME TypeInv, InOrder, Stories, NEW j \in DOMAIN log,
                       NEW i, i = log[j].reverses, i # 0,
                       NEW e, e = log[j].entity, e \notin disturbed,
                       \A k \in (i + 1)..(j - 1) : log[k].entity # e
                PROVE  Matches(RowAfter(log, e, j), RowAfter(log, e, i - 1))
    BY DEF ReversalsUndo
  <2>1. /\ log \in Seq(Entries) /\ Len(log) \in Nat /\ DOMAIN log = 1..Len(log)
    BY DEF TypeInv, TypeOK
  <2>2. /\ log[j].action = "reversal" /\ i \in DOMAIN log /\ i < j
        /\ log[i].action \in {"insert", "update", "delete"}
    BY DEF InOrder, Reversals, PointsBack
  <2>3. log[i].entity = e /\ log[j].new = ReversalValues(log[i])
    BY <2>2 DEF Stories, Named, NamesIts
  <2>4. e \in Entities
    BY <2>2, <2>3 DEF TypeInv, Shape, EntryShape
  <2>5. EntryTells(log[i], RowAfter(log, e, i - 1))
    BY <2>2, <2>3, <2>4 DEF Stories, Story
  <2>6. i \in Nat \ {0} /\ j \in Nat \ {0} /\ j - 1 \in Nat /\ i <= j - 1
    BY <2>1, <2>2
  <2>7. RowAfter(log, e, j - 1) = RowAfter(log, e, i)
    BY <2>6, RowAfterOthers
  <2>8. RowAfter(log, e, i) = Effect(log, RowAfter(log, e, i - 1), log[i])
    BY <2>3, <2>6, RowAfterNext
  <2>9. RowAfter(log, e, j) = Effect(log, RowAfter(log, e, i), log[j])
    BY <2>6, <2>7, RowAfterNext
  <2>10. PICK before : before = RowAfter(log, e, i - 1)
    OBVIOUS
  <2>11. CASE log[i].action = "insert"
    BY <2>2, <2>3, <2>5, <2>9, <2>10, <2>11, MatchesItself
       DEF Effect, EntryTells, ReversalValues
  <2>12. CASE log[i].action = "delete"
    BY <2>2, <2>3, <2>5, <2>9, <2>10, <2>12 DEF Effect, EntryTells, ReversalValues
  <2>13. CASE log[i].action = "update"
    <3>1. PICK row \in Rows, C \in SUBSET Columns :
            /\ Matches(row, before) /\ log[i].new \in [C -> Values]
            /\ log[i].old = OnlyColumns(row, C)
      BY <2>5, <2>10, <2>13 DEF EntryTells
    <3>2. /\ RowAfter(log, e, i) = Updated(before, log[i].new)
          /\ RowAfter(log, e, j) = Updated(RowAfter(log, e, i), log[i].old)
      BY <2>2, <2>3, <2>8, <2>9, <2>10, <2>13 DEF Effect, ReversalValues
    <3>. QED
      BY <2>10, <3>1, <3>2, UpdateUndone
  <2>. QED
    BY <2>2, <2>11, <2>12, <2>13
<1>. QED
  BY <1>1, StoriesHold, PTL
=============================================================================
