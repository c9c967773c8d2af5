-------------------------- MODULE TicketDeskProofs --------------------------
(***************************************************************************)
(* Proofs about the tickets and the files attached to them, for any        *)
(* people, tickets, limits and requests.                                   *)
(*                                                                         *)
(* What a handler does to the object it loaded is known by the kind of its *)
(* request (Permitted), and the object keeps beside it the row it was made *)
(* from (ChangesPermitted).  A row is only ever replaced by such an object *)
(* (RowsSavedByRequests): a save whose row is still the one that was loaded*)
(* does to the row what its kind permits, and one that is not is counted   *)
(* in `stale`.                                                             *)
(*                                                                         *)
(* Nothing of that ever changes who raised a ticket (ReportersHeld), which *)
(* is all that the files need to know (Attach!TicketsMove).  A file that   *)
(* has no row yet belongs to one request and to no other (Placed, Apart),  *)
(* and there are at least as many files as rows given out and uploads that *)
(* wait for theirs (FileInv).                                              *)
(***************************************************************************)
EXTENDS TicketDesk, FiniteSetTheorems, TLAPS

Dequeues == {"qaConfirmed", "qaReopened", "reopen", "clientReply", "delete"}

(* What a request of this kind may make of a row of ticket t.              *)
Permitted(t, kind, row, new) ==
  /\ row \in Rows /\ new \in Rows
  /\ new.consolidated_into \in (0..issued) \ {t}
  /\ Tells(new)
  /\ new.reporter = row.reporter
  /\ NeedsQa(row) => NeedsQa(new) \/ kind \in Dequeues
  /\ row.assigned_to # NoOne => new.assigned_to = row.assigned_to \/ kind = "assign"
  /\ kind = "clientReply" => new.status # "closed"

ChangesPermitted ==
  \A r \in Requests : \A t \in req[r].todo :
    Permitted(t, req[r].kind, req[r].loaded[t], req[r].object[t])

(* What TypeOK and ChangesPermitted say of one request in state s.         *)
Sound(s) ==
  /\ s \in RequestStates
  /\ s.todo \subseteq {t \in 1..issued : s.object[t] # NoRow}
  /\ s.pc = "idle" <=> s.todo = {}
  /\ s.pc \in {"lookup", "insert"} => s.message # NoMessage
  /\ \A t \in s.todo : Permitted(t, s.kind, s.loaded[t], s.object[t])

IInv == TypeOK /\ ClosedAtTells /\ FollowUpReopens /\ ChangesPermitted

-----------------------------------------------------------------------------
(* The operators the handlers change a row with.                           *)

LEMMA RowOf ==
  ASSUME TypeOK, NEW t \in 1..issued
  PROVE  /\ t \in Ids
         /\ tickets[t] \in Rows
         /\ tickets[t].consolidated_into \in (0..issued) \ {t}
<1>1. issued \in Nat /\ MaxTickets \in Nat /\ issued <= MaxTickets
  BY TicketsAssumption DEF TypeOK
<1>2. t \in Ids /\ ~ t > issued
  BY <1>1 DEF Ids
<1> QED
  BY <1>2 DEF TypeOK

(* What each handler makes of the row it loaded.                           *)
LEMMA HandlersPermitted ==
  ASSUME TypeOK, ClosedAtTells, NEW t \in 1..issued, NEW row \in Rows, row = tickets[t],
         NEW p \in People, NEW target \in Ids,
         NEW reason \in {"given", "manual"}
  PROVE  /\ Permitted(t, "retestPass", row, AutoClosed(row))
         /\ Permitted(t, "retestFail", row, [row EXCEPT !.status = "in_review"])
         /\ Permitted(t, "close", row, Closed(row, reason))
         /\ MayClaim(p, row) =>
              Permitted(t, "claim", row, [row EXCEPT !.assigned_to = p])
         /\ Permitted(t, "assign", row, [row EXCEPT !.assigned_to = p])
         /\ target \in (1..issued) \ {t} =>
              Permitted(t, "consolidate", row,
                        [row EXCEPT !.consolidated_into = target,
                                    !.status = "consolidated"])
         /\ Permitted(t, "reopen", row, Reopened(row))
         /\ Permitted(t, "qaConfirmed", row, Reviewed(row))
         /\ Permitted(t, "qaReopened", row, Reopened(Reviewed(row)))
         /\ Permitted(t, "edit", row, row)
         /\ Permitted(t, "delete", row, Deleted(row))
         /\ Permitted(t, "intake", row, [row EXCEPT !.intake_token = FALSE])
         /\ Permitted(t, "reply", row, row)
         /\ Permitted(t, "clientReply", row, FollowedUp(row))
<1>1. row.consolidated_into \in (0..issued) \ {t} /\ Tells(row)
  BY RowOf DEF ClosedAtTells
<1>0. target \in (1..issued) \ {t} => target \in (0..issued) \ {t}
  BY TicketsAssumption DEF TypeOK
<1>. USE DEF Permitted, Rows, Reasons, Statuses, Tells, NeedsQa, Dequeues
<1>2. Permitted(t, "close", row, Closed(row, reason))
  BY <1>1 DEF Closed
<1>3. Permitted(t, "retestPass", row, AutoClosed(row))
  BY <1>1 DEF AutoClosed, Closed
<1>4. Permitted(t, "retestFail", row, [row EXCEPT !.status = "in_review"])
  BY <1>1
<1>5. MayClaim(p, row) => Permitted(t, "claim", row, [row EXCEPT !.assigned_to = p])
  BY <1>1 DEF MayClaim
<1>6. Permitted(t, "assign", row, [row EXCEPT !.assigned_to = p])
  BY <1>1
<1>7. ASSUME target \in (1..issued) \ {t}
      PROVE  Permitted(t, "consolidate", row,
                       [row EXCEPT !.consolidated_into = target,
                                   !.status = "consolidated"])
  BY <1>0, <1>1, <1>7
<1>8. Permitted(t, "reopen", row, Reopened(row))
  BY <1>1 DEF Reopened
<1>9. Permitted(t, "qaConfirmed", row, Reviewed(row))
  BY <1>1 DEF Reviewed
<1>10. Permitted(t, "qaReopened", row, Reopened(Reviewed(row)))
  BY <1>1 DEF Reviewed, Reopened
<1>11. Permitted(t, "edit", row, row) /\ Permitted(t, "reply", row, row)
  BY <1>1
<1>12. Permitted(t, "delete", row, Deleted(row))
  BY <1>1 DEF Deleted
<1>13. Permitted(t, "intake", row, [row EXCEPT !.intake_token = FALSE])
  BY <1>1
<1>14. Permitted(t, "clientReply", row, FollowedUp(row))
  BY <1>1, ZenonT(60) DEF FollowedUp, Reopened
<1>. HIDE DEF Permitted, Rows, Reasons, Statuses, Tells, NeedsQa, Dequeues
<1> QED
  BY <1>2, <1>3, <1>4, <1>5, <1>6, <1>7, <1>8, <1>9, <1>10, <1>11, <1>12, <1>13, <1>14

-----------------------------------------------------------------------------
(* What a step does to the requests.                                       *)

LEMMA SoundRequests ==
  ASSUME IInv
  PROVE  \A q \in Requests : Sound(req[q])
BY DEF IInv, TypeOK, ChangesPermitted, Sound

LEMMA SoundIdle == Sound(Idle)
<1>1. NothingLoaded \in [Ids -> Rows \cup {NoRow}]
  BY DEF NothingLoaded
<1> QED
  BY <1>1 DEF Sound, Idle, RequestStates, AllKinds

(* One request goes on, and tickets are only ever added.                   *)
LEMMA RequestGoes ==
  ASSUME IInv, NEW r \in Requests, NEW s, Sound(s), Goes(r, s),
         issued' \in {issued, issued + 1}
  PROVE  /\ req' \in [Requests -> RequestStates]
         /\ req'[r] = s
         /\ \A q \in Requests \ {r} : req'[q] = req[q]
         /\ \A q \in Requests : Sound(req[q])'
<1>1. /\ req' \in [Requests -> RequestStates]
      /\ req'[r] = s
      /\ \A q \in Requests \ {r} : req'[q] = req[q]
  BY DEF IInv, TypeOK, Goes, Sound
<1>2. \A q \in Requests : Sound(req'[q])
  BY <1>1, SoundRequests
<1>3. issued \in Nat /\ issued <= issued'
  BY TicketsAssumption DEF IInv, TypeOK
<1>4. \A t, kind, row, new : Permitted(t, kind, row, new) => Permitted(t, kind, row, new)'
  BY <1>3 DEF Permitted
<1>5. \A q \in Requests : Sound(req[q])'
  BY <1>2, <1>3, <1>4 DEF Sound
<1> QED
  BY <1>1, <1>5

(* Requests and rows are sound, and the rest is as typed: the invariant.   *)
LEMMA StepKeeps ==
  ASSUME req' \in [Requests -> RequestStates],
         \A q \in Requests : Sound(req[q])',
         issued' \in 0..MaxTickets,
         tickets' \in [Ids -> Rows \cup {NoRow}],
         \A t \in Ids : tickets'[t] = NoRow <=> t > issued',
         \A t \in 1..issued' : tickets'[t].consolidated_into \in (0..issued') \ {t}
                              /\ Tells(tickets'[t]),
         messages' \subseteq Messages, stale' \subseteq Ids, unheard' \subseteq Ids,
         cut' \subseteq Ids, requests' \in 0..MaxRequests, faults' \in 0..MaxFaults,
         FollowUpReopens'
  PROVE  IInv'
<1>1. TypeOK'
  <2>1. \A t \in Ids : tickets'[t] # NoRow => t \in 1..issued'
    BY TicketsAssumption DEF Ids
  <2>2. \A q \in Requests :
       /\ req'[q].todo \subseteq {t \in 1..issued' : req'[q].object[t] # NoRow}
       /\ req'[q].pc = "idle" <=> req'[q].todo = {}
       /\ req'[q].pc \in {"lookup", "insert"} => req'[q].message # NoMessage
    BY DEF Sound
  <2> QED
    BY <2>1, <2>2 DEF TypeOK
<1>2. ClosedAtTells' /\ ChangesPermitted'
  BY DEF Sound, ClosedAtTells, ChangesPermitted
<1> QED
  BY <1>1, <1>2 DEF IInv

(* Once they are out of the save, or are reopened or cut, follow-ups owe   *)
(* nothing; the others still have their request.                           *)
LEMMA OthersReopen ==
  ASSUME IInv, NEW r \in Requests,
         \A q \in Requests \ {r} : req'[q] = req[q],
         \A t \in unheard' \ cut' :
           \/ /\ req'[r].pc = "save" /\ req'[r].kind = "clientReply"
              /\ t \in req'[r].todo
           \/ /\ t \in unheard \ cut
              /\ ~ (/\ req[r].pc = "save" /\ req[r].kind = "clientReply"
                    /\ t \in req[r].todo)
  PROVE  FollowUpReopens'
<1>1. \A t \in unheard \ cut :
        \E q \in Requests : /\ req[q].pc = "save" /\ req[q].kind = "clientReply"
                           /\ t \in req[q].todo
  BY DEF IInv, FollowUpReopens
<1>2. ASSUME NEW t \in unheard' \ cut'
      PROVE  \E q \in Requests :
               /\ req'[q].pc = "save" /\ req'[q].kind = "clientReply"
               /\ t \in req'[q].todo
  <2>1. CASE /\ req'[r].pc = "save" /\ req'[r].kind = "clientReply"
             /\ t \in req'[r].todo
    BY <2>1
  <2>2. CASE /\ t \in unheard \ cut
             /\ ~ (/\ req[r].pc = "save" /\ req[r].kind = "clientReply"
                   /\ t \in req[r].todo)
    BY <1>1, <2>2
  <2> QED
    BY <2>1, <2>2
<1> QED
  BY <1>2 DEF FollowUpReopens

(* The rows are as typed, and stay so if nothing is written.               *)
LEMMA RowsStay ==
  ASSUME IInv, UNCHANGED <<tickets, issued>>
  PROVE  /\ issued' \in 0..MaxTickets
         /\ tickets' \in [Ids -> Rows \cup {NoRow}]
         /\ \A t \in Ids : tickets'[t] = NoRow <=> t > issued'
         /\ \A t \in 1..issued' : tickets'[t].consolidated_into \in (0..issued') \ {t}
                              /\ Tells(tickets'[t])
<1>1. \A t \in 1..issued : tickets[t].consolidated_into \in (0..issued) \ {t}
                              /\ Tells(tickets[t])
  BY RowOf DEF IInv, ClosedAtTells
<1> QED
  BY <1>1 DEF IInv, TypeOK

LEMMA LoadsKeeps ==
  ASSUME IInv, NEW r \in Requests, NEW kind \in AllKinds, NEW new,
         NEW pc \in {"lookup", "insert", "save"},
         NEW message \in Messages \cup {NoMessage},
         pc # "save" => message # NoMessage,
         DOMAIN new \subseteq 1..issued,
         \A t \in DOMAIN new : Permitted(t, kind, tickets[t], new[t]),
         Loads(r, kind, new, pc, message)
  PROVE  IInv'
<1> DEFINE S == DOMAIN new
           s == [pc |-> pc, kind |-> kind,
                 loaded |-> [t \in Ids |-> IF t \in S THEN tickets[t] ELSE NoRow],
                 object |-> [t \in Ids |-> IF t \in S THEN new[t] ELSE NoRow],
                 todo |-> S, message |-> message]
<1>1. /\ req[r].pc = "idle" /\ requests < MaxRequests /\ requests' = requests + 1
      /\ UNCHANGED <<tickets, issued, messages, stale, unheard, cut, faults>>
      /\ S # {} /\ Goes(r, s)
  BY DEF Loads, Starts
<1>2. S \subseteq Ids /\ \A t \in S : tickets[t] \in Rows /\ new[t] \in Rows
  BY RowOf DEF IInv, Permitted
<1>3. /\ s.pc = pc /\ s.kind = kind /\ s.todo = S /\ s.message = message
      /\ \A t \in S : s.loaded[t] = tickets[t] /\ s.object[t] = new[t]
  BY <1>2
<1>4. Sound(s)
  <2>1. s \in RequestStates
    BY <1>2 DEF RequestStates
  <2>2. \A t \in S : s.object[t] # NoRow
    BY <1>2, <1>3, TicketsAssumption
  <2>. HIDE DEF s
  <2> QED
    BY <1>1, <1>3, <2>1, <2>2 DEF Sound
<1>. HIDE DEF s
<1>5. /\ req' \in [Requests -> RequestStates]
      /\ req'[r] = s
      /\ \A q \in Requests \ {r} : req'[q] = req[q]
      /\ \A q \in Requests : Sound(req[q])'
  BY <1>1, <1>4, RequestGoes
<1>6. FollowUpReopens'
  BY <1>1, <1>5, OthersReopen
<1>7. requests' \in 0..MaxRequests
  BY <1>1, TicketsAssumption DEF IInv, TypeOK
<1>8. /\ messages' \subseteq Messages /\ stale' \subseteq Ids /\ unheard' \subseteq Ids
      /\ cut' \subseteq Ids /\ faults' \in 0..MaxFaults
  BY <1>1 DEF IInv, TypeOK
<1> QED
  BY <1>1, <1>5, <1>6, <1>7, <1>8, RowsStay, StepKeeps

LEMMA CreatesKeeps ==
  ASSUME IInv, NEW r \in Requests, Creates(r, BOOLEAN)
  PROVE  IInv'
<1>1. /\ issued < MaxTickets /\ issued' = issued + 1
      /\ requests < MaxRequests /\ requests' = requests + 1
      /\ UNCHANGED <<messages, stale, unheard, cut, faults, req>>
  BY DEF Creates, Starts
<1>2. PICK p \in Reporters, assignee \in {NoOne, GameAssignee}, token \in BOOLEAN :
        tickets' = [tickets EXCEPT ![issued + 1] = NewTicket(p, assignee, token)]
  BY DEF Creates
<1>3. PICK row : row = NewTicket(p, assignee, token)
  OBVIOUS
<1>4. row \in Rows /\ Tells(row) /\ row.consolidated_into = 0
  BY <1>3, TicketsAssumption DEF NewTicket, Rows, Statuses, Reasons, Tells
<1>5. issued \in Nat /\ issued + 1 \in Ids /\ MaxTickets \in Nat
  BY <1>1, TicketsAssumption DEF IInv, TypeOK, Ids
<1>6. /\ issued' \in 0..MaxTickets
      /\ tickets' \in [Ids -> Rows \cup {NoRow}]
      /\ \A t \in Ids : tickets'[t] = NoRow <=> t > issued'
  BY <1>1, <1>2, <1>3, <1>4, <1>5, TicketsAssumption DEF IInv, TypeOK, Ids
<1>7. \A t \in 1..issued' : /\ tickets'[t].consolidated_into \in (0..issued') \ {t}
                           /\ Tells(tickets'[t])
  <2> SUFFICES ASSUME NEW t \in 1..issued'
               PROVE  /\ tickets'[t].consolidated_into \in (0..issued') \ {t}
                      /\ Tells(tickets'[t])
    OBVIOUS
  <2>1. CASE t = issued + 1
    BY <1>1, <1>2, <1>3, <1>4, <1>5, <2>1 DEF IInv, TypeOK
  <2>2. CASE t \in 1..issued
    <3>1. tickets'[t] = tickets[t]
      BY <1>2, <1>5, <2>2, RowOf DEF IInv, TypeOK
    <3>2. tickets[t].consolidated_into \in (0..issued) \ {t} /\ Tells(tickets[t])
      BY <2>2, RowOf DEF IInv, ClosedAtTells
    <3> QED
      BY <1>1, <1>5, <3>1, <3>2
  <2> QED
    BY <1>1, <1>5, <2>1, <2>2
<1>8. \A q \in Requests : Sound(req[q])'
  <2>1. Goes(r, req[r]) /\ Sound(req[r])
    BY <1>1, SoundRequests DEF IInv, TypeOK, Goes
  <2> QED
    BY <1>1, <2>1, RequestGoes
<1>9. FollowUpReopens'
  BY <1>1 DEF IInv, FollowUpReopens
<1>10. /\ messages' \subseteq Messages /\ stale' \subseteq Ids /\ unheard' \subseteq Ids
       /\ cut' \subseteq Ids /\ faults' \in 0..MaxFaults
       /\ req' \in [Requests -> RequestStates]
       /\ requests' \in 0..MaxRequests
  BY <1>1, TicketsAssumption DEF IInv, TypeOK
<1> QED
  BY <1>6, <1>7, <1>8, <1>9, <1>10, StepKeeps

(* A step that leaves the rows alone and takes one request to state s.     *)
LEMMA RequestKeeps ==
  ASSUME IInv, NEW r \in Requests, NEW s, Sound(s), Goes(r, s),
         UNCHANGED <<tickets, issued, stale, requests>>,
         messages' \subseteq Messages, unheard' \subseteq Ids, cut' \subseteq Ids,
         faults' \in 0..MaxFaults,
         \A t \in unheard' \ cut' :
           \/ /\ s.pc = "save" /\ s.kind = "clientReply"
              /\ t \in s.todo
           \/ /\ t \in unheard \ cut
              /\ ~ (/\ req[r].pc = "save" /\ req[r].kind = "clientReply"
                    /\ t \in req[r].todo)
  PROVE  IInv'
<1>1. /\ req' \in [Requests -> RequestStates]
      /\ req'[r] = s
      /\ \A q \in Requests \ {r} : req'[q] = req[q]
      /\ \A q \in Requests : Sound(req[q])'
  BY RequestGoes
<1>2. FollowUpReopens'
  BY <1>1, OthersReopen
<1>3. stale' \subseteq Ids /\ requests' \in 0..MaxRequests
  BY DEF IInv, TypeOK
<1> QED
  BY <1>1, <1>2, <1>3, RowsStay, StepKeeps

(* The request as it was before, with one step of it done.                 *)
LEMMA GoesOn ==
  ASSUME NEW s, Sound(s), NEW pc \in {"insert", "save"},
         s.pc \in {"lookup", "insert"}
  PROVE  /\ Sound([s EXCEPT !.pc = pc])
         /\ [s EXCEPT !.pc = pc].pc = pc
         /\ [s EXCEPT !.pc = pc].kind = s.kind
         /\ [s EXCEPT !.pc = pc].todo = s.todo
<1> DEFINE u == [s EXCEPT !.pc = pc]
<1>1. /\ u \in RequestStates /\ u.pc = pc /\ u.kind = s.kind
      /\ u.loaded = s.loaded /\ u.object = s.object
      /\ u.todo = s.todo /\ u.message = s.message
  BY DEF Sound, RequestStates
<1>. HIDE DEF u
<1>2. Sound(u)
  BY <1>1 DEF Sound
<1> QED
  BY <1>1, <1>2 DEF u

LEMMA DoneWith ==
  ASSUME NEW s, Sound(s), s.pc = "save", NEW t \in s.todo,
         NEW u, u = IF s.todo = {t} THEN Idle ELSE [s EXCEPT !.todo = @ \ {t}]
  PROVE  /\ Sound(u)
         /\ u.todo = s.todo \ {t}
         /\ s.todo # {t} => u.pc = s.pc /\ u.kind = s.kind
<1>1. CASE s.todo = {t}
  BY <1>1, SoundIdle DEF Idle
<1>2. CASE s.todo # {t}
  <2>1. /\ u \in RequestStates /\ u.pc = s.pc /\ u.kind = s.kind
        /\ u.loaded = s.loaded /\ u.object = s.object
        /\ u.todo = s.todo \ {t} /\ u.message = s.message
    BY <1>2 DEF Sound, RequestStates
  <2>2. u.todo # {}
    BY <1>2, <2>1
  <2> QED
    BY <1>2, <2>1, <2>2 DEF Sound
<1> QED
  BY <1>1, <1>2

-----------------------------------------------------------------------------
(* The message, the saves and the faults.                                  *)

LEMMA LookupKeeps ==
  ASSUME IInv, NEW r \in Requests, Lookup(r)
  PROVE  IInv'
<1>1. PICK s : /\ Goes(r, s) /\ s \in {Idle, [req[r] EXCEPT !.pc = "insert"]}
               /\ req[r].pc = "lookup"
               /\ UNCHANGED <<tickets, issued, messages, stale, unheard, cut>>
               /\ UNCHANGED <<requests, faults>>
  BY DEF Lookup
<1>2. Sound(s)
  BY <1>1, SoundRequests, SoundIdle, GoesOn
<1>3. /\ messages' \subseteq Messages /\ unheard' \subseteq Ids /\ cut' \subseteq Ids
      /\ faults' \in 0..MaxFaults
  BY <1>1 DEF IInv, TypeOK
<1> QED
  BY <1>1, <1>2, <1>3, RequestKeeps

LEMMA InsertKeeps ==
  ASSUME IInv, NEW r \in Requests, Insert(r)
  PROVE  IInv'
<1>1. PICK s : /\ Goes(r, s) /\ s = [req[r] EXCEPT !.pc = "save"]
               /\ req[r].pc = "insert"
               /\ messages' = messages \cup {req[r].message}
               /\ \A t \in unheard' :
                    \/ t \in unheard
                    \/ req[r].kind = "clientReply" /\ t \in req[r].todo
               /\ UNCHANGED <<tickets, issued, stale, cut, requests, faults>>
  BY DEF Insert
<1>2. Sound(req[r])
  BY SoundRequests
<1>3. Sound(s) /\ s.pc = "save" /\ s.kind = req[r].kind /\ s.todo = req[r].todo
  BY <1>1, <1>2, GoesOn
<1>4. /\ messages \subseteq Messages /\ unheard \subseteq Ids /\ cut' \subseteq Ids
      /\ faults' \in 0..MaxFaults
  BY <1>1 DEF IInv, TypeOK
<1>5. req[r].message \in Messages /\ req[r].todo \subseteq Ids
  BY <1>1, <1>2 DEF Sound, RequestStates
<1> QED
  BY <1>1, <1>3, <1>4, <1>5, RequestKeeps

LEMMA InsertFailsKeeps ==
  ASSUME IInv, NEW r \in Requests, InsertFails(r)
  PROVE  IInv'
<1>1. /\ Goes(r, Idle) /\ req[r].pc = "insert"
      /\ UNCHANGED <<tickets, issued, messages, stale, unheard, cut, requests, faults>>
  BY DEF InsertFails
<1>2. /\ messages' \subseteq Messages /\ unheard' \subseteq Ids /\ cut' \subseteq Ids
      /\ faults' \in 0..MaxFaults
  BY <1>1 DEF IInv, TypeOK
<1> QED
  BY <1>1, <1>2, SoundIdle, RequestKeeps

LEMMA FaultKeeps ==
  ASSUME IInv, NEW r \in Requests, req[r].pc # "idle", cut' = cut \cup Unsaved(r),
         faults < MaxFaults, faults' = faults + 1,
         UNCHANGED <<tickets, issued, messages, stale, unheard, requests>>,
         NEW s, Sound(s), Goes(r, s)
  PROVE  IInv'
<1>1. Sound(req[r])
  BY SoundRequests
<1>2. Unsaved(r) \subseteq Ids
  BY <1>1 DEF Unsaved, Sound, RequestStates
<1>3. /\ messages' \subseteq Messages /\ unheard' \subseteq Ids /\ cut' \subseteq Ids
      /\ faults' \in 0..MaxFaults
  BY <1>2, TicketsAssumption DEF IInv, TypeOK
<1>4. \A t \in unheard' \ cut' :
        /\ t \in unheard \ cut
        /\ ~ (/\ req[r].pc = "save" /\ req[r].kind = "clientReply"
              /\ t \in req[r].todo)
  BY DEF Unsaved
<1> QED
  BY <1>3, <1>4, RequestKeeps

LEMMA DieKeeps ==
  ASSUME IInv, NEW r \in Requests, Die(r)
  PROVE  IInv'
BY FaultKeeps, SoundIdle DEF Die, Fault

LEMMA SaveFailsKeeps ==
  ASSUME IInv, NEW r \in Requests, SaveFails(r)
  PROVE  IInv'
<1>1. PICK t \in req[r].todo : Done(r, t)
  BY DEF SaveFails
<1>2. PICK s : /\ Goes(r, s)
               /\ s = IF req[r].todo = {t} THEN Idle
                      ELSE [req[r] EXCEPT !.todo = @ \ {t}]
  BY <1>1 DEF Done
<1>3. req[r].pc = "save" /\ Sound(req[r])
  BY SoundRequests DEF SaveFails
<1>4. Sound(s)
  BY <1>2, <1>3, DoneWith
<1> QED
  BY <1>2, <1>3, <1>4, FaultKeeps DEF SaveFails, Fault

(* What a save writes, and over what.                                      *)
LEMMA SaveWrites ==
  ASSUME IInv, NEW r \in Requests, Save(r)
  PROVE  \E t \in req[r].todo :
           /\ req[r].pc = "save" /\ t \in 1..issued /\ t \in Ids
           /\ Permitted(t, req[r].kind, req[r].loaded[t], req[r].object[t])
           /\ tickets' = [tickets EXCEPT ![t] = req[r].object[t]]
           /\ stale' = IF req[r].loaded[t] = tickets[t] THEN stale ELSE stale \cup {t}
           /\ unheard' = IF req[r].object[t].status # "closed"
                            \/ req[r].kind \in {"close", "retestPass"}
                         THEN unheard \ {t} ELSE unheard
           /\ Done(r, t)
           /\ UNCHANGED <<issued, messages, cut, requests, faults>>
<1>1. Sound(req[r]) /\ TypeOK
  BY SoundRequests DEF IInv
<1> QED
  BY <1>1, RowOf DEF Save, Sound

LEMMA SaveKeeps ==
  ASSUME IInv, NEW r \in Requests, Save(r)
  PROVE  IInv'
<1>1. PICK t \in req[r].todo :
        /\ req[r].pc = "save" /\ t \in 1..issued /\ t \in Ids
        /\ Permitted(t, req[r].kind, req[r].loaded[t], req[r].object[t])
        /\ tickets' = [tickets EXCEPT ![t] = req[r].object[t]]
        /\ stale' = IF req[r].loaded[t] = tickets[t] THEN stale ELSE stale \cup {t}
        /\ unheard' = IF req[r].object[t].status # "closed"
                         \/ req[r].kind \in {"close", "retestPass"}
                      THEN unheard \ {t} ELSE unheard
        /\ Done(r, t)
        /\ UNCHANGED <<issued, messages, cut, requests, faults>>
  BY SaveWrites
<1>2. PICK s : /\ Goes(r, s)
               /\ s = IF req[r].todo = {t} THEN Idle
                      ELSE [req[r] EXCEPT !.todo = @ \ {t}]
  BY <1>1 DEF Done
<1>3. Sound(req[r])
  BY SoundRequests
<1>4. /\ Sound(s) /\ s.todo = req[r].todo \ {t}
      /\ req[r].todo # {t} => s.pc = "save" /\ s.kind = req[r].kind
  BY <1>1, <1>2, <1>3, DoneWith
<1>5. /\ req' \in [Requests -> RequestStates]
      /\ req'[r] = s
      /\ \A q \in Requests \ {r} : req'[q] = req[q]
      /\ \A q \in Requests : Sound(req[q])'
  BY <1>1, <1>2, <1>4, RequestGoes
<1>6. FollowUpReopens'
  <2>1. ASSUME NEW v \in unheard' \ cut'
        PROVE  \/ s.pc = "save" /\ s.kind = "clientReply" /\ v \in s.todo
               \/ /\ v \in unheard \ cut
                  /\ ~ (/\ req[r].pc = "save" /\ req[r].kind = "clientReply"
                        /\ v \in req[r].todo)
    <3>1. v \in unheard \ cut
      BY <1>1, <2>1
    <3>2. CASE req[r].kind = "clientReply" /\ v \in req[r].todo
      <4>1. v # t
        BY <1>1, <2>1, <3>2 DEF Permitted
      <4> QED
        BY <1>4, <3>2, <4>1
    <3> QED
      BY <3>1, <3>2
  <2> QED
    BY <1>5, <2>1, OthersReopen
<1>7. /\ issued' \in 0..MaxTickets
      /\ tickets' \in [Ids -> Rows \cup {NoRow}]
      /\ \A v \in Ids : tickets'[v] = NoRow <=> v > issued'
  <2>1. req[r].object[t] \in Rows /\ req[r].object[t] # NoRow /\ tickets[t] # NoRow
    BY <1>1, RowOf, TicketsAssumption DEF IInv, Permitted
  <2> QED
    BY <1>1, <2>1 DEF IInv, TypeOK
<1>8. \A v \in 1..issued' : /\ tickets'[v].consolidated_into \in (0..issued') \ {v}
                           /\ Tells(tickets'[v])
  <2>1. \A v \in 1..issued : /\ v \in Ids
                            /\ tickets[v].consolidated_into \in (0..issued) \ {v}
                            /\ Tells(tickets[v])
    BY RowOf DEF IInv, ClosedAtTells
  <2>2. \A v \in Ids : tickets'[v] = IF v = t THEN req[r].object[t] ELSE tickets[v]
    BY <1>1 DEF IInv, TypeOK
  <2> QED
    BY <1>1, <2>1, <2>2 DEF Permitted
<1>9. /\ messages' \subseteq Messages /\ stale' \subseteq Ids /\ unheard' \subseteq Ids
      /\ cut' \subseteq Ids /\ faults' \in 0..MaxFaults /\ requests' \in 0..MaxRequests
  BY <1>1 DEF IInv, TypeOK
<1> QED
  BY <1>5, <1>6, <1>7, <1>8, <1>9, StepKeeps

-----------------------------------------------------------------------------
(* The handlers, each with what it does to the rows it finds.              *)

LEMMA FoundRows ==
  ASSUME IInv, NEW t \in Found
  PROVE  t \in 1..issued /\ tickets[t] \in Rows /\ TypeOK /\ ClosedAtTells
BY RowOf DEF Found, IInv

(* A handler that goes on to save what it changed.                         *)
LEMMA ChangesAllKeeps ==
  ASSUME IInv, NEW r \in Requests, NEW kind \in AllKinds, NEW new,
         DOMAIN new \subseteq Found,
         \A t \in DOMAIN new : Permitted(t, kind, tickets[t], new[t]),
         ChangesAll(r, kind, new)
  PROVE  IInv'
BY LoadsKeeps DEF ChangesAll, Found

LEMMA ChangesKeeps ==
  ASSUME IInv, NEW r \in Requests, NEW kind \in AllKinds, NEW t \in Found, NEW row,
         Permitted(t, kind, tickets[t], row), Changes(r, kind, t, row)
  PROVE  IInv'
<1> DEFINE new == [u \in {t} |-> row]
<1>1. DOMAIN new = {t} /\ new[t] = row /\ ChangesAll(r, kind, new)
  BY DEF Changes
<1>. HIDE DEF new
<1> QED
  BY <1>1, ChangesAllKeeps

LEMMA WritesKeeps ==
  ASSUME IInv, NEW r \in Requests, NEW kind \in AllKinds, NEW t \in Found, NEW row,
         NEW p \in People, Permitted(t, kind, tickets[t], row),
         Writes(r, kind, p, t, Refs \cup {NoRef}, row)
  PROVE  IInv'
<1> DEFINE new == [u \in {t} |-> row]
<1>1. PICK ref \in Refs \cup {NoRef} :
        Loads(r, kind, new, IF ref = NoRef THEN "insert" ELSE "lookup",
              [ticket |-> t, author |-> p, ref |-> ref])
  BY DEF Writes
<1>2. PICK message : message = [ticket |-> t, author |-> p, ref |-> ref]
  OBVIOUS
<1>3. PICK pc \in {"insert", "lookup"} : pc = IF ref = NoRef THEN "insert" ELSE "lookup"
  OBVIOUS
<1>4. message \in Messages /\ message # NoMessage
  BY <1>2, FoundRows, RowOf, TicketsAssumption DEF Messages
<1>5. DOMAIN new = {t} /\ new[t] = row /\ Loads(r, kind, new, pc, message)
  BY <1>1, <1>2, <1>3
<1>. HIDE DEF new
<1>6. /\ \A u \in DOMAIN new : Permitted(u, kind, tickets[u], new[u])
      /\ DOMAIN new \subseteq 1..issued
  BY <1>5, FoundRows
<1> QED
  BY <1>4, <1>5, <1>6, LoadsKeeps

LEMMA FoundPermitted ==
  ASSUME IInv, NEW t \in Found, NEW p \in People
  PROVE  /\ Permitted(t, "retestPass", tickets[t], AutoClosed(tickets[t]))
         /\ Permitted(t, "retestFail", tickets[t],
                      [tickets[t] EXCEPT !.status = "in_review"])
         /\ \A reason \in {"given", "manual"} :
              Permitted(t, "close", tickets[t], Closed(tickets[t], reason))
         /\ MayClaim(p, tickets[t]) =>
              Permitted(t, "claim", tickets[t], [tickets[t] EXCEPT !.assigned_to = p])
         /\ Permitted(t, "assign", tickets[t], [tickets[t] EXCEPT !.assigned_to = p])
         /\ \A target \in Ids : Target(t, target) =>
              Permitted(t, "consolidate", tickets[t],
                        [tickets[t] EXCEPT !.consolidated_into = target,
                                           !.status = "consolidated"])
         /\ Permitted(t, "reopen", tickets[t], Reopened(tickets[t]))
         /\ Permitted(t, "qaConfirmed", tickets[t], Reviewed(tickets[t]))
         /\ Permitted(t, "qaReopened", tickets[t], Reopened(Reviewed(tickets[t])))
         /\ Permitted(t, "edit", tickets[t], tickets[t])
         /\ Permitted(t, "delete", tickets[t], Deleted(tickets[t]))
         /\ Permitted(t, "intake", tickets[t], [tickets[t] EXCEPT !.intake_token = FALSE])
         /\ Permitted(t, "reply", tickets[t], tickets[t])
         /\ Permitted(t, "clientReply", tickets[t], FollowedUp(tickets[t]))
<1>1. PICK row \in Rows : row = tickets[t]
  BY FoundRows
<1>2. /\ t \in 1..issued /\ t \in Ids /\ TypeOK /\ ClosedAtTells
      /\ "given" \in {"given", "manual"}
  BY FoundRows, RowOf
<1>3. \A target : Target(t, target) => target \in (1..issued) \ {t}
  BY DEF Target, Found
<1> QED
  BY <1>1, <1>2, <1>3, HandlersPermitted

LEMMA HandlersKeep ==
  ASSUME IInv, NEW r \in Requests,
         \/ RetestResult(r) \/ CloseApi(r) \/ CloseStaff(r) \/ BulkClose(r)
         \/ SelfAssign(r) \/ Assign(r) \/ Consolidate(r)
         \/ ReopenStaff(r) \/ BulkReopen(r) \/ QaReview(r)
         \/ UpdateStaff(r) \/ UpdateCustomer(r) \/ BulkUpdate(r)
         \/ DeleteStaff(r) \/ BulkDelete(r) \/ Intake(r)
         \/ ReplyApi(r) \/ ReplyStaff(r) \/ ClientReply(r)
  PROVE  IInv'
<1>. USE DEF AllKinds
<1>0. \A t \in Found : \E p \in People : TRUE
  BY FoundRows DEF Rows
<1>1. ASSUME RetestResult(r) PROVE IInv'
  BY <1>0, <1>1, FoundPermitted, ChangesKeeps DEF RetestResult
<1>2. ASSUME CloseApi(r) PROVE IInv'
  BY <1>0, <1>2, FoundPermitted, ChangesKeeps DEF CloseApi
<1>3. ASSUME CloseStaff(r) PROVE IInv'
  BY <1>0, <1>3, FoundPermitted, ChangesKeeps DEF CloseStaff
<1>4. ASSUME BulkClose(r) PROVE IInv'
  <2> DEFINE new(S) == [t \in S |-> Closed(tickets[t], "manual")]
  <2>1. PICK S \in SUBSET Found : ChangesAll(r, "close", new(S))
    BY <1>4 DEF BulkClose
  <2>2. \A t \in DOMAIN new(S) : Permitted(t, "close", tickets[t], new(S)[t])
    BY <1>0, FoundPermitted
  <2>3. DOMAIN new(S) \subseteq Found
    OBVIOUS
  <2>. HIDE DEF new
  <2> QED
    BY <2>1, <2>2, <2>3, ChangesAllKeeps
<1>5. ASSUME SelfAssign(r) PROVE IInv'
  BY <1>0, <1>5, FoundPermitted, ChangesKeeps DEF SelfAssign
<1>6. ASSUME Assign(r) PROVE IInv'
  BY <1>0, <1>6, FoundPermitted, ChangesKeeps DEF Assign
<1>7. ASSUME Consolidate(r) PROVE IInv'
  BY <1>0, <1>7, FoundPermitted, ChangesKeeps DEF Consolidate
<1>8. ASSUME ReopenStaff(r) PROVE IInv'
  BY <1>0, <1>8, FoundPermitted, ChangesKeeps DEF ReopenStaff
<1>9. ASSUME BulkReopen(r) PROVE IInv'
  <2> DEFINE new(S) == [t \in S |-> Reopened(tickets[t])]
  <2>1. PICK S \in SUBSET Found : ChangesAll(r, "reopen", new(S))
    BY <1>9 DEF BulkReopen
  <2>2. \A t \in DOMAIN new(S) : Permitted(t, "reopen", tickets[t], new(S)[t])
    BY <1>0, FoundPermitted
  <2>3. DOMAIN new(S) \subseteq Found
    OBVIOUS
  <2>. HIDE DEF new
  <2> QED
    BY <2>1, <2>2, <2>3, ChangesAllKeeps
<1>10. ASSUME QaReview(r) PROVE IInv'
  BY <1>0, <1>10, FoundPermitted, ChangesKeeps DEF QaReview
<1>11. ASSUME UpdateStaff(r) PROVE IInv'
  BY <1>0, <1>11, FoundPermitted, ChangesKeeps DEF UpdateStaff
<1>12. ASSUME UpdateCustomer(r) PROVE IInv'
  BY <1>0, <1>12, FoundPermitted, ChangesKeeps DEF UpdateCustomer
<1>13. ASSUME BulkUpdate(r) PROVE IInv'
  <2> DEFINE new(S) == [t \in S |-> tickets[t]]
  <2>1. PICK S \in SUBSET Found : ChangesAll(r, "edit", new(S))
    BY <1>13 DEF BulkUpdate
  <2>2. \A t \in DOMAIN new(S) : Permitted(t, "edit", tickets[t], new(S)[t])
    BY <1>0, FoundPermitted
  <2>3. DOMAIN new(S) \subseteq Found
    OBVIOUS
  <2>. HIDE DEF new
  <2> QED
    BY <2>1, <2>2, <2>3, ChangesAllKeeps
<1>14. ASSUME DeleteStaff(r) PROVE IInv'
  BY <1>0, <1>14, FoundPermitted, ChangesKeeps DEF DeleteStaff
<1>15. ASSUME BulkDelete(r) PROVE IInv'
  <2> DEFINE new(S) == [t \in S |-> Deleted(tickets[t])]
  <2>1. PICK S \in SUBSET Found : ChangesAll(r, "delete", new(S))
    BY <1>15 DEF BulkDelete
  <2>2. \A t \in DOMAIN new(S) : Permitted(t, "delete", tickets[t], new(S)[t])
    BY <1>0, FoundPermitted
  <2>3. DOMAIN new(S) \subseteq Found
    OBVIOUS
  <2>. HIDE DEF new
  <2> QED
    BY <2>1, <2>2, <2>3, ChangesAllKeeps
<1>16. ASSUME Intake(r) PROVE IInv'
  BY <1>0, <1>16, FoundPermitted, ChangesKeeps DEF Intake
<1>17. ASSUME ReplyApi(r) PROVE IInv'
  BY <1>17, FoundPermitted, WritesKeeps, TicketsAssumption, ZenonT(60) DEF ReplyApi
<1>18. ASSUME ReplyStaff(r) PROVE IInv'
  <2>1. PICK p \in Staff, t \in Found :
          Writes(r, "reply", p, t, Refs \cup {NoRef}, tickets[t])
    BY <1>18 DEF ReplyStaff, Writes
  <2> QED
    BY <2>1, FoundPermitted, WritesKeeps, TicketsAssumption, ZenonT(60)
<1>19. ASSUME ClientReply(r) PROVE IInv'
  BY <1>19, FoundPermitted, WritesKeeps, TicketsAssumption DEF ClientReply
<1> QED
  BY <1>1, <1>2, <1>3, <1>4, <1>5, <1>6, <1>7, <1>8, <1>9, <1>10,
     <1>11, <1>12, <1>13, <1>14, <1>15, <1>16, <1>17, <1>18, <1>19

-----------------------------------------------------------------------------
(* The invariant.                                                          *)

LEMMA InitIInv == Init => IInv
<1> SUFFICES ASSUME Init PROVE IInv
  OBVIOUS
<1>1. PICK n \in 0..MaxTickets : DOMAIN Initial = 1..n /\ issued = n
  BY DEF Init
<1>2. /\ tickets = [t \in Ids |-> IF t \in DOMAIN Initial THEN Initial[t] ELSE NoRow]
      /\ messages = {} /\ req = [r \in Requests |-> Idle]
      /\ stale = {} /\ unheard = {} /\ cut = {} /\ requests = 0 /\ faults = 0
  BY DEF Init
<1>3. \A t \in 1..issued : /\ Initial[t] \in Rows /\ Tells(Initial[t])
                          /\ Initial[t].consolidated_into \in (0..issued) \ {t}
  BY <1>1, TicketsAssumption
<1>4. \A t \in Ids : tickets[t] = IF t \in 1..issued THEN Initial[t] ELSE NoRow
  BY <1>1, <1>2
<1>5. \A t \in Ids : t \in 1..issued <=> ~ t > issued
  BY <1>1, TicketsAssumption DEF Ids
<1>6. \A q \in Requests : Sound(req[q]) /\ req[q] \in RequestStates
  BY <1>2, SoundIdle DEF Sound
<1>7. TypeOK
  <2>1. /\ tickets \in [Ids -> Rows \cup {NoRow}]
        /\ \A t \in Ids :
             /\ tickets[t] = NoRow <=> t > issued
             /\ tickets[t] # NoRow => tickets[t].consolidated_into \in 0..issued \ {t}
    BY <1>2, <1>3, <1>4, <1>5, TicketsAssumption
  <2> QED
    BY <1>1, <1>2, <1>6, <2>1, TicketsAssumption DEF TypeOK, Sound
<1>8. ClosedAtTells
  BY <1>1, <1>3, <1>4, TicketsAssumption DEF ClosedAtTells, Ids
<1>9. ChangesPermitted /\ FollowUpReopens
  BY <1>2, <1>6 DEF ChangesPermitted, Sound, FollowUpReopens
<1> QED
  BY <1>7, <1>8, <1>9 DEF IInv

LEMMA NextIInv == IInv /\ [Next]_vars => IInv'
<1> SUFFICES ASSUME IInv, [Next]_vars PROVE IInv'
  OBVIOUS
<1>1. ASSUME NEW r \in Requests, Handle(r)
      PROVE  IInv'
  <2>1. CASE CreateApi(r) \/ CreateStaff(r) \/ CreateCustomer(r)
    <3>1. Creates(r, BOOLEAN)
      BY <2>1 DEF CreateApi, CreateStaff, CreateCustomer, Creates
    <3> QED
      BY <3>1, CreatesKeeps
  <2>2. CASE Lookup(r) \/ Insert(r) \/ InsertFails(r)
    BY <2>2, LookupKeeps, InsertKeeps, InsertFailsKeeps
  <2>3. CASE Save(r) \/ Die(r) \/ SaveFails(r)
    BY <2>3, SaveKeeps, DieKeeps, SaveFailsKeeps
  <2> QED
    BY <1>1, <2>1, <2>2, <2>3, HandlersKeep DEF Handle
<1>2. CASE UNCHANGED vars
  BY <1>2 DEF vars, IInv, TypeOK, ClosedAtTells, FollowUpReopens, ChangesPermitted,
              Permitted
<1> QED
  BY <1>1, <1>2 DEF Next

(* A row that is there is only ever replaced by a save, and what the save  *)
(* makes of it is what its request's kind permits, unless the object that  *)
(* was saved is older than the row.                                        *)
LEMMA RowsSavedByRequests ==
  ASSUME IInv, Next, NEW t \in 1..issued, tickets'[t] # tickets[t]
  PROVE  \E r \in Requests :
           /\ req[r].pc = "save" /\ t \in req[r].todo \ req'[r].todo
           /\ tickets'[t] = req[r].object[t]
           /\ \/ t \in stale'
              \/ Permitted(t, req[r].kind, tickets[t], tickets'[t])
<1>1. t \in Ids /\ t # issued + 1
  BY RowOf, TicketsAssumption DEF IInv, TypeOK
<1>2. PICK r \in Requests : Handle(r)
  BY DEF Next
<1>3. \A tokens : Creates(r, tokens) => tickets'[t] = tickets[t]
  BY <1>1 DEF Creates, IInv, TypeOK
<1>4. Save(r)
  <2>1. ~ (CreateApi(r) \/ CreateStaff(r) \/ CreateCustomer(r))
    BY <1>3 DEF CreateApi, CreateStaff, CreateCustomer
  <2>2. ~ (Lookup(r) \/ Insert(r) \/ InsertFails(r) \/ Die(r) \/ SaveFails(r))
    BY DEF Lookup, Insert, InsertFails, Die, SaveFails, Fault
  <2>3. \A kind, new, pc, message : ~ Loads(r, kind, new, pc, message)
    BY DEF Loads
  <2>4. ~ (RetestResult(r) \/ CloseApi(r) \/ CloseStaff(r) \/ BulkClose(r)
           \/ SelfAssign(r) \/ Assign(r) \/ Consolidate(r)
           \/ ReopenStaff(r) \/ BulkReopen(r) \/ QaReview(r))
    BY <2>3 DEF ChangesAll, Changes, RetestResult, CloseApi, CloseStaff, BulkClose,
       SelfAssign, Assign, Consolidate, ReopenStaff, BulkReopen, QaReview
  <2>5. ~ (UpdateStaff(r) \/ UpdateCustomer(r) \/ BulkUpdate(r)
           \/ DeleteStaff(r) \/ BulkDelete(r) \/ Intake(r)
           \/ ReplyApi(r) \/ ReplyStaff(r) \/ ClientReply(r))
    BY <2>3 DEF ChangesAll, Changes, Writes, UpdateStaff, UpdateCustomer, BulkUpdate,
       DeleteStaff, BulkDelete, Intake, ReplyApi, ReplyStaff, ClientReply
  <2> QED
    BY <1>2, <2>1, <2>2, <2>4, <2>5 DEF Handle
<1>5. PICK u \in req[r].todo :
        /\ req[r].pc = "save" /\ u \in 1..issued /\ u \in Ids
        /\ Permitted(u, req[r].kind, req[r].loaded[u], req[r].object[u])
        /\ tickets' = [tickets EXCEPT ![u] = req[r].object[u]]
        /\ stale' = IF req[r].loaded[u] = tickets[u] THEN stale ELSE stale \cup {u}
        /\ Done(r, u)
  BY <1>4, SaveWrites
<1>6. u = t /\ tickets'[t] = req[r].object[t]
  BY <1>1, <1>5 DEF IInv, TypeOK
<1>7. t \notin req'[r].todo
  <2>1. PICK s : /\ Goes(r, s)
                 /\ s = IF req[r].todo = {t} THEN Idle
                        ELSE [req[r] EXCEPT !.todo = @ \ {t}]
    BY <1>5, <1>6 DEF Done
  <2>2. Sound(req[r])
    BY SoundRequests
  <2>3. s.todo = req[r].todo \ {t} /\ req'[r] = s
    BY <1>5, <1>6, <2>1, <2>2, DoneWith DEF Goes, IInv, TypeOK
  <2> QED
    BY <2>3
<1> QED
  BY <1>5, <1>6, <1>7

LEMMA Invariance == Spec => []IInv
BY InitIInv, NextIInv, PTL DEF Spec

-----------------------------------------------------------------------------
(* The rows are rows of the ids given out, no ticket is consolidated into  *)
(* itself or into one that is not there, and a request that has something  *)
(* to save is under way.                                                   *)
THEOREM TypesHold == Spec => []TypeOK
BY Invariance, PTL DEF IInv

(* Whichever handlers touched it, and in whatever order their saves came,  *)
(* a closed ticket says when and why and an open one nothing of a close    *)
(* (reopenAction(), qaReviewAction(), bulkAction(), createMessage()).      *)
THEOREM CloseIsTold == Spec => []ClosedAtTells
BY Invariance, PTL DEF IInv

(* "A follow-up on a closed ticket reopens it", unless its request is cut  *)
(* short between the message and the save (clientReplyAction()).           *)
THEOREM FollowUpIsHeard == Spec => []FollowUpReopens
BY Invariance, PTL DEF IInv

(* Only a review, a reopening, a deletion or a save from an older object   *)
(* takes an automatically closed ticket out of the queue of those to check *)
(* (indexAction(), needs_qa).                                              *)
THEOREM QueueLeftForCause == Spec => LeavesQaForCause
<1>1. ASSUME IInv, Next, NEW t \in 1..issued,
             NeedsQa(tickets[t]), ~ NeedsQa(tickets'[t]), t \notin stale'
      PROVE  SavedBy(Dequeues, t)
  BY <1>1, RowsSavedByRequests DEF Permitted, SavedBy
<1>2. IInv /\ [Next]_vars =>
        [\A t \in 1..issued :
           NeedsQa(tickets[t]) /\ ~ NeedsQa(tickets'[t]) /\ t \notin stale' =>
             SavedBy({"qaConfirmed", "qaReopened", "reopen", "clientReply", "delete"},
                     t)]_vars
  BY <1>1 DEF Dequeues
<1> QED
  BY <1>2, Invariance, PTL DEF Spec, LeavesQaForCause

(* "Won't steal a ticket already assigned to someone else"                 *)
(* (selfAssignAction()): only the staff's assignment, or a save from an    *)
(* older object, replaces an assignee.                                     *)
THEOREM NobodyIsRobbed == Spec => ClaimsDontSteal
<1>1. ASSUME IInv, Next, NEW t \in 1..issued,
             tickets[t].assigned_to \notin {NoOne, tickets'[t].assigned_to}
      PROVE  t \in stale' \/ SavedBy({"assign"}, t)
  <2>1. tickets'[t] # tickets[t]
    BY <1>1
  <2>2. PICK r \in Requests :
           /\ req[r].pc = "save" /\ t \in req[r].todo \ req'[r].todo
           /\ \/ t \in stale'
              \/ Permitted(t, req[r].kind, tickets[t], tickets'[t])
    BY <1>1, <2>1, RowsSavedByRequests
  <2> QED
    BY <1>1, <2>2 DEF Permitted, SavedBy
<1>2. IInv /\ [Next]_vars =>
        [\A t \in 1..issued :
           tickets[t].assigned_to \notin {NoOne, tickets'[t].assigned_to} =>
             t \in stale' \/ SavedBy({"assign"}, t)]_vars
  BY <1>1
<1> QED
  BY <1>2, Invariance, PTL DEF Spec, ClaimsDontSteal
-----------------------------------------------------------------------------
(* Nobody takes a ticket over from the person who raised it.               *)

(* What a request has loaded of a ticket says who raised it.               *)
ReportersHeld ==
  \A r \in Requests : \A t \in req[r].todo :
    req[r].loaded[t].reporter = tickets[t].reporter

(* What a step makes of the request that takes it.                         *)
LEMMA RequestSteps ==
  ASSUME NEW r \in Requests, Handle(r)
  PROVE  /\ \/ UNCHANGED req
            \/ Goes(r, Idle)
            \/ \E pc \in {"insert", "save"} : Goes(r, [req[r] EXCEPT !.pc = pc])
            \/ \E t \in req[r].todo : Goes(r, [req[r] EXCEPT !.todo = @ \ {t}])
            \/ \E kind, new, pc, message : Loads(r, kind, new, pc, message)
         /\ issued' \in {issued, issued + 1}
<1>1. CASE CreateApi(r) \/ CreateStaff(r) \/ CreateCustomer(r)
  BY <1>1 DEF CreateApi, CreateStaff, CreateCustomer, Creates
<1>2. CASE Lookup(r) \/ Insert(r) \/ InsertFails(r)
  BY <1>2 DEF Lookup, Insert, InsertFails
<1>3. CASE Save(r) \/ Die(r) \/ SaveFails(r)
  BY <1>3 DEF Save, Die, SaveFails, Done, Fault
<1>4. CASE \/ RetestResult(r) \/ CloseApi(r) \/ CloseStaff(r) \/ BulkClose(r)
           \/ SelfAssign(r) \/ Assign(r) \/ Consolidate(r)
           \/ ReopenStaff(r) \/ BulkReopen(r) \/ QaReview(r)
  BY <1>4 DEF Loads, ChangesAll, Changes, RetestResult, CloseApi, CloseStaff, BulkClose,
     SelfAssign, Assign, Consolidate, ReopenStaff, BulkReopen, QaReview
<1>5. CASE \/ UpdateStaff(r) \/ UpdateCustomer(r) \/ BulkUpdate(r)
           \/ DeleteStaff(r) \/ BulkDelete(r) \/ Intake(r)
           \/ ReplyApi(r) \/ ReplyStaff(r) \/ ClientReply(r)
  BY <1>5 DEF Loads, ChangesAll, Changes, Writes, UpdateStaff, UpdateCustomer, BulkUpdate,
     DeleteStaff, BulkDelete, Intake, ReplyApi, ReplyStaff, ClientReply
<1> QED
  BY <1>1, <1>2, <1>3, <1>4, <1>5 DEF Handle

(* A request still has what it loaded, or has loaded the row as it is.     *)
LEMMA LoadsRows ==
  ASSUME IInv, Next, NEW q \in Requests, NEW t \in req'[q].todo
  PROVE  \/ t \in req[q].todo /\ req'[q].loaded[t] = req[q].loaded[t]
         \/ t \in 1..issued /\ req'[q].loaded[t] = tickets[t]
<1>1. PICK r \in Requests : Handle(r)
  BY DEF Next
<1>2. req \in [Requests -> RequestStates] /\ Sound(req[q]) /\ TypeOK
  BY SoundRequests DEF IInv, TypeOK
<1>3. \A s : Goes(r, s) => req'[q] = IF q = r THEN s ELSE req[q]
  BY <1>2 DEF Goes
<1>4. CASE UNCHANGED req
  BY <1>4
<1>5. CASE Goes(r, Idle)
  BY <1>3, <1>5 DEF Idle
<1>6. CASE \E pc \in {"insert", "save"} : Goes(r, [req[r] EXCEPT !.pc = pc])
  <2>0. PICK pc \in {"insert", "save"} : Goes(r, [req[r] EXCEPT !.pc = pc])
    BY <1>6
  <2>1. PICK s : s = [req[r] EXCEPT !.pc = pc] /\ Goes(r, s)
    BY <2>0
  <2>2. s.todo = req[r].todo /\ s.loaded = req[r].loaded
    BY <1>2, <2>1 DEF RequestStates
  <2> QED
    BY <1>3, <2>1, <2>2
<1>7. CASE \E u \in req[r].todo : Goes(r, [req[r] EXCEPT !.todo = @ \ {u}])
  <2>0. PICK u \in req[r].todo : Goes(r, [req[r] EXCEPT !.todo = @ \ {u}])
    BY <1>7
  <2>1. PICK s : s = [req[r] EXCEPT !.todo = @ \ {u}] /\ Goes(r, s)
    BY <2>0
  <2>2. s.todo \subseteq req[r].todo /\ s.loaded = req[r].loaded
    BY <1>2, <2>1 DEF RequestStates
  <2> QED
    BY <1>3, <2>1, <2>2
<1>8. CASE \E kind, new, pc, message : Loads(r, kind, new, pc, message)
  <2>1. PICK kind, new, pc, message : Loads(r, kind, new, pc, message)
    BY <1>8
  <2> DEFINE S == DOMAIN new
             s == [pc |-> pc, kind |-> kind,
                   loaded |-> [v \in Ids |-> IF v \in S THEN tickets[v] ELSE NoRow],
                   object |-> [v \in Ids |-> IF v \in S THEN new[v] ELSE NoRow],
                   todo |-> S, message |-> message]
  <2>2. /\ Goes(r, s) /\ s.todo = S
        /\ s.loaded = [v \in Ids |-> IF v \in S THEN tickets[v] ELSE NoRow]
    BY <2>1 DEF Loads
  <2>. HIDE DEF s
  <2>3. CASE q = r
    <3>1. IInv'
      BY NextIInv
    <3>2. t \in 1..issued' /\ t \in Ids
      BY <3>1, TicketsAssumption DEF IInv, TypeOK, Ids
    <3>3. req'[q] = s /\ issued' = issued
      BY <1>3, <2>1, <2>2, <2>3 DEF Loads
    <3>4. t \in DOMAIN new
      BY <2>2, <3>3
    <3>5. s.loaded[t] = tickets[t]
      BY <2>2, <3>2, <3>4
    <3> QED
      BY <3>2, <3>3, <3>5
  <2>4. CASE q # r
    BY <1>3, <2>2, <2>4
  <2> QED
    BY <2>3, <2>4
<1> QED
  BY <1>1, <1>4, <1>5, <1>6, <1>7, <1>8, RequestSteps

(* A ticket that is raised stays, and keeps its reporter.                  *)
LEMMA ReportersStay ==
  ASSUME IInv, ReportersHeld, [Next]_vars
  PROVE  /\ issued <= issued'
         /\ \A t \in 1..issued : tickets'[t].reporter = tickets[t].reporter
<1>1. issued <= issued'
  <2>1. issued \in Nat
    BY TicketsAssumption DEF IInv, TypeOK
  <2>2. CASE Next
    <3>1. PICK r \in Requests : Handle(r)
      BY <2>2 DEF Next
    <3>2. issued' \in {issued, issued + 1}
      BY <3>1, RequestSteps
    <3> QED
      BY <2>1, <3>2
  <2> QED
    BY <2>1, <2>2 DEF vars
<1>2. ASSUME NEW t \in 1..issued, Next, tickets'[t] # tickets[t]
      PROVE  tickets'[t].reporter = tickets[t].reporter
  <2>1. PICK r \in Requests : t \in req[r].todo /\ tickets'[t] = req[r].object[t]
    BY <1>2, RowsSavedByRequests
  <2>2. Permitted(t, req[r].kind, req[r].loaded[t], req[r].object[t])
    BY <2>1 DEF IInv, ChangesPermitted
  <2> QED
    BY <2>1, <2>2 DEF Permitted, ReportersHeld
<1> QED
  BY <1>1, <1>2 DEF vars

LEMMA NextReportersHeld ==
  IInv /\ ReportersHeld /\ [Next]_vars => ReportersHeld'
<1> SUFFICES ASSUME IInv, ReportersHeld, [Next]_vars,
                    NEW q \in Requests, NEW t \in req'[q].todo
             PROVE  req'[q].loaded[t].reporter = tickets'[t].reporter
  BY DEF ReportersHeld
<1>1. CASE UNCHANGED vars
  BY <1>1 DEF vars, ReportersHeld
<1>2. CASE Next
  <2>1. \A u \in req[q].todo : u \in 1..issued
    BY SoundRequests DEF Sound
  <2> QED
    BY <1>2, <2>1, LoadsRows, ReportersStay DEF ReportersHeld
<1> QED
  BY <1>1, <1>2

LEMMA ReportersInvariance == Spec => []ReportersHeld
<1>1. Init => ReportersHeld
  BY DEF Init, Idle, ReportersHeld
<1> QED
  BY <1>1, Invariance, NextReportersHeld, PTL DEF Spec

-----------------------------------------------------------------------------
(* The files, and the rows that name them.                                 *)

Storing == {"find", "count", "move", "insert", "unlink", "again"}
Holding == {"insert", "unlink", "delete", "remove"}

(* This person may have attached a file to this ticket.                    *)
MayHang(u, t) ==
  /\ u \in People /\ t \in Ids
  /\ ReporterOf[t] # NoOne
  /\ u \in Staff \/ ReporterOf[t] = u

(* What a request knows of its file: one that is not stored yet has no row,*)
(* nor has one whose row was deleted; until then its row is the one that   *)
(* was picked.                                                             *)
Placed(s) ==
  /\ s.pc \in Storing => MayHang(s.user, s.ticket)
  /\ s.pc \in Holding => s.file \in 1..named
  /\ s.pc \in {"insert", "unlink"} => s.file \in files
  /\ s.pc \in {"insert", "unlink", "remove"} =>
       \A a \in Attach!Stored : attachments[a].file # s.file
  /\ s.pc = "delete" =>
       /\ s.id \in 1..lastAttachment
       /\ \A a \in Attach!Stored : attachments[a].file = s.file <=> a = s.id

(* Nobody else works on a file that has no row yet.                        *)
Apart ==
  \A q, r \in FileRequests :
    q # r /\ fileReq[q].pc \in {"insert", "unlink"} /\ fileReq[r].pc \in Holding =>
      fileReq[q].file # fileReq[r].file

(* The files that are written and not yet refused a row.                   *)
Unstored == {r \in FileRequests : fileReq[r].pc = "insert"}

FileInv ==
  /\ Attach!TypeOK
  /\ \A r \in FileRequests : Placed(fileReq[r])
  /\ Apart
  /\ lastAttachment + Cardinality(Unstored) <= named
  /\ Attach!RowsHaveFiles
  /\ Attach!NothingLeftBehind
  /\ Attach!AttachedByParties

(* While the tickets move, who may have attached what stays as it was.     *)
LEMMA HangStays ==
  ASSUME Attach!TypeOK, Attach!TicketsMove
  PROVE  /\ \A u, t : MayHang(u, t) => MayHang(u, t)'
         /\ \A t \in Ids : ReporterOf[t] # NoOne => ReporterOf'[t] = ReporterOf[t]
BY DEF Attach!TicketsMove, MayHang

LEMMA TicketsStand ==
  ASSUME Attach!TypeOK, UNCHANGED Attach!ticketVars
  PROVE  Attach!TicketsMove
BY DEF Attach!TypeOK, Attach!ticketVars, Attach!TicketsMove

LEMMA StoredRows ==
  ASSUME Attach!TypeOK, NEW a \in Attach!Stored
  PROVE  /\ a \in Attach!Ids /\ a \in 1..lastAttachment
         /\ attachments[a] \in Attach!Rows
BY DeskAssumption DEF Attach!TypeOK, Attach!Stored, Attach!Ids

LEMMA PlacedStays ==
  ASSUME Attach!TypeOK, Attach!TicketsMove,
         UNCHANGED <<attachments, lastAttachment, files, named>>,
         NEW s, Placed(s)
  PROVE  Placed(s)'
<1>1. Attach!Stored' = Attach!Stored
  BY DEF Attach!Stored
<1> QED
  BY <1>1, HangStays DEF Placed

(* A step of one request that leaves rows and files as they are.           *)
LEMMA OneRequestMoves ==
  ASSUME FileInv, Attach!TicketsMove, NEW r \in FileRequests,
         NEW s \in Attach!RequestStates, Attach!Goes(r, s),
         UNCHANGED <<attachments, lastAttachment, files, named, recent>>,
         Placed(s)',
         s.pc \in {"insert", "unlink"} =>
           /\ s.file = fileReq[r].file
           /\ fileReq[r].pc = "insert" \/ fileReq[r].pc = s.pc,
         s.pc \in {"delete", "remove"} =>
           \/ fileReq[r].pc \in Holding /\ s.file = fileReq[r].file
           \/ \E a \in Attach!Stored : attachments[a].file = s.file,
         leaked' \subseteq 1..named, leaked \subseteq leaked',
         Attach!InHand(r) \subseteq
           leaked' \cup (IF s.pc \in {"insert", "unlink", "remove"}
                         THEN {s.file} ELSE {}),
         fileRequests' \in 0..MaxFileRequests, fileFaults' \in 0..MaxFileFaults
  PROVE  FileInv'
<1>1. /\ fileReq' \in [FileRequests -> Attach!RequestStates]
      /\ fileReq'[r] = s
      /\ \A q \in FileRequests \ {r} : fileReq'[q] = fileReq[q]
  BY DEF FileInv, Attach!TypeOK, Attach!Goes
<1>2. Attach!TypeOK'
  BY <1>1 DEF FileInv, Attach!TypeOK, Attach!Stored, Attach!TicketsMove
<1>3. Attach!Stored' = Attach!Stored
  BY DEF Attach!Stored
<1>4. \A z : Placed(z) => Placed(z)'
  BY PlacedStays DEF FileInv
<1>5. \A q \in FileRequests : Placed(fileReq[q])'
  BY <1>1, <1>4 DEF FileInv
<1>6. Apart'
  <2> SUFFICES ASSUME NEW p \in FileRequests, NEW q \in FileRequests, p # q,
                      fileReq'[p].pc \in {"insert", "unlink"},
                      fileReq'[q].pc \in Holding
               PROVE  fileReq'[p].file # fileReq'[q].file
    BY DEF Apart
  <2>1. CASE p = r
    BY <1>1, <2>1 DEF FileInv, Apart
  <2>2. CASE q = r
    BY <1>1, <2>2 DEF FileInv, Apart, Placed, Holding
  <2>3. CASE p # r /\ q # r
    BY <1>1, <2>3 DEF FileInv, Apart
  <2> QED
    BY <2>1, <2>2, <2>3
<1>7. lastAttachment' + Cardinality(Unstored') <= named'
  <2>1. Unstored' \subseteq Unstored
    BY <1>1 DEF Unstored
  <2>2. IsFiniteSet(Unstored)
    BY DeskAssumption, FS_Subset DEF Unstored
  <2>3. /\ Cardinality(Unstored) \in Nat /\ Cardinality(Unstored') \in Nat
        /\ Cardinality(Unstored') <= Cardinality(Unstored)
    BY <2>1, <2>2, FS_Subset, FS_CardinalityType
  <2> QED
    BY <2>3, DeskAssumption DEF FileInv, Attach!TypeOK
<1>8. Attach!RowsHaveFiles'
  BY <1>3 DEF FileInv, Attach!RowsHaveFiles
<1>9. Attach!NothingLeftBehind'
  <2> SUFFICES ASSUME NEW f \in files', f \notin leaked'
               PROVE  \/ \E a \in Attach!Stored' : attachments'[a].file = f
                      \/ \E q \in FileRequests : f \in Attach!InHand(q)'
    BY DEF Attach!NothingLeftBehind
  <2>1. \/ \E a \in Attach!Stored : attachments[a].file = f
        \/ \E q \in FileRequests : f \in Attach!InHand(q)
    BY DEF FileInv, Attach!NothingLeftBehind
  <2>2. CASE f \in Attach!InHand(r)
    BY <1>1, <2>2 DEF Attach!InHand
  <2>3. ASSUME NEW q \in FileRequests \ {r}, f \in Attach!InHand(q)
        PROVE  f \in Attach!InHand(q)'
    BY <1>1, <2>3 DEF Attach!InHand
  <2> QED
    BY <1>3, <2>1, <2>2, <2>3
<1>10. Attach!AttachedByParties'
  BY <1>3, HangStays, StoredRows DEF FileInv, Attach!AttachedByParties, Attach!Rows
<1> QED
  BY <1>2, <1>5, <1>6, <1>7, <1>8, <1>9, <1>10 DEF FileInv

-----------------------------------------------------------------------------
(* The requests, step by step.                                             *)

LEMMA IdleFits ==
  /\ Attach!Idle \in Attach!RequestStates
  /\ Attach!Idle.pc = "idle"
  /\ Placed(Attach!Idle)
BY DEF Attach!Idle, Attach!RequestStates, Placed, Storing, Holding

LEMMA BeginKeeps ==
  ASSUME FileInv, Attach!TicketsMove, NEW r \in FileRequests,
         NEW s \in Attach!RequestStates, Attach!Begin(r, s),
         s.pc \in {"find", "count", "move", "pick"},
         s.pc # "pick" => MayHang(s.user, s.ticket)'
  PROVE  FileInv'
<1>1. /\ Attach!Goes(r, s) /\ fileReq[r].pc = "idle"
      /\ UNCHANGED <<attachments, lastAttachment, files, named, recent, leaked>>
      /\ UNCHANGED fileFaults
      /\ fileRequests < MaxFileRequests /\ fileRequests' = fileRequests + 1
  BY DEF Attach!Begin, Attach!NoFault
<1>2. Placed(s)'
  BY DEF Placed, Storing, Holding
<1>3. Attach!InHand(r) = {}
  BY <1>1 DEF Attach!InHand
<1>4. /\ leaked' \subseteq 1..named /\ leaked \subseteq leaked'
      /\ fileRequests' \in 0..MaxFileRequests /\ fileFaults' \in 0..MaxFileFaults
  BY <1>1, DeskAssumption DEF FileInv, Attach!TypeOK
<1> QED
  BY <1>1, <1>2, <1>3, <1>4, OneRequestMoves

(* A request under way that goes on without a fault, and takes its file    *)
(* with it.                                                                *)
LEMMA GoesOnKeeps ==
  ASSUME FileInv, Attach!TicketsMove, NEW r \in FileRequests,
         NEW s \in Attach!RequestStates, Attach!Goes(r, s), Placed(s),
         UNCHANGED <<attachments, lastAttachment, files, named, recent>>,
         UNCHANGED <<leaked, fileFaults, fileRequests>>,
         \/ /\ s.pc \notin Holding
            /\ fileReq[r].pc \notin {"insert", "unlink", "remove"}
         \/ fileReq[r].pc = "insert" /\ s.pc = "unlink" /\ s.file = fileReq[r].file
         \/ /\ fileReq[r].pc = "pick" /\ s.pc = "delete"
            /\ \E a \in Attach!Stored : attachments[a].file = s.file
  PROVE  FileInv'
<1>1. Placed(s)'
  BY PlacedStays DEF FileInv
<1>2. Attach!InHand(r) \subseteq
           leaked' \cup (IF s.pc \in {"insert", "unlink", "remove"}
                         THEN {s.file} ELSE {})
  BY DEF Attach!InHand
<1>3. /\ leaked' \subseteq 1..named /\ leaked \subseteq leaked'
      /\ fileRequests' \in 0..MaxFileRequests /\ fileFaults' \in 0..MaxFileFaults
  BY DEF FileInv, Attach!TypeOK
<1> QED
  BY <1>1, <1>2, <1>3, OneRequestMoves DEF Holding

(* A request that a fault ends, or sends to clear its file away.           *)
LEMMA FaultEnds ==
  ASSUME FileInv, Attach!TicketsMove, NEW r \in FileRequests,
         NEW s \in Attach!RequestStates, Attach!Goes(r, s), Placed(s), NEW left,
         Attach!Fault(left), left \subseteq Attach!InHand(r),
         UNCHANGED <<attachments, lastAttachment, files, named, recent, fileRequests>>,
         \/ s.pc = "idle" /\ left = Attach!InHand(r)
         \/ fileReq[r].pc = "insert" /\ s.pc = "unlink" /\ s.file = fileReq[r].file
  PROVE  FileInv'
<1>1. Placed(s)'
  BY PlacedStays DEF FileInv
<1>2. leaked' = leaked \cup left
  BY DEF Attach!Fault
<1>3. Attach!InHand(r) \subseteq
           leaked' \cup (IF s.pc \in {"insert", "unlink", "remove"}
                         THEN {s.file} ELSE {})
  BY <1>2 DEF Attach!InHand
<1>4. Attach!InHand(r) \subseteq 1..named
  BY DEF FileInv, Attach!InHand, Placed, Holding
<1>5. /\ leaked' \subseteq 1..named /\ leaked \subseteq leaked'
      /\ fileRequests' \in 0..MaxFileRequests /\ fileFaults' \in 0..MaxFileFaults
  <2>1. fileFaults \in 0..MaxFileFaults /\ fileFaults < MaxFileFaults
        /\ fileFaults' = fileFaults + 1
    BY DEF FileInv, Attach!TypeOK, Attach!Fault
  <2>2. leaked \subseteq 1..named /\ fileRequests \in 0..MaxFileRequests
    BY DEF FileInv, Attach!TypeOK
  <2>3. fileFaults' \in 0..MaxFileFaults
    BY <2>1, DeskAssumption
  <2> QED
    BY <1>2, <1>4, <2>2, <2>3
<1> QED
  BY <1>1, <1>3, <1>5, OneRequestMoves DEF Holding

(* The request as it was, at another step.                                 *)
LEMMA StepState ==
  ASSUME FileInv, NEW r \in FileRequests,
         NEW pc \in {"count", "move", "unlink", "again", "remove"},
         NEW s, s = [fileReq[r] EXCEPT !.pc = pc]
  PROVE  /\ s \in Attach!RequestStates
         /\ s.pc = pc /\ s.user = fileReq[r].user /\ s.ticket = fileReq[r].ticket
         /\ s.file = fileReq[r].file /\ s.id = fileReq[r].id
BY DEF FileInv, Attach!TypeOK, Attach!RequestStates

(* The steps of a request that neither write a file nor a row.             *)
LEMMA AsksKeep ==
  ASSUME FileInv, Attach!TicketsMove, NEW r \in FileRequests,
         \/ Attach!FindRef(r) \/ Attach!CountUploads(r) \/ Attach!InsertRefused(r)
         \/ Attach!FindAgain(r)
  PROVE  FileInv'
<1>1. PICK s : /\ Attach!Goes(r, s)
               /\ \/ s = Attach!Idle
                  \/ /\ s = [fileReq[r] EXCEPT !.pc = "count"]
                     /\ fileReq[r].pc = "find"
                  \/ /\ s = [fileReq[r] EXCEPT !.pc = "move"]
                     /\ fileReq[r].pc = "count"
                  \/ /\ s = [fileReq[r] EXCEPT !.pc = "unlink"]
                     /\ fileReq[r].pc = "insert"
               /\ s.pc # "unlink" => fileReq[r].pc \in {"find", "count", "again"}
               /\ UNCHANGED <<attachments, lastAttachment, files, named, recent>>
               /\ UNCHANGED <<leaked, fileFaults, fileRequests>>
  <2>1. CASE Attach!FindRef(r)
    BY <2>1, IdleFits DEF Attach!FindRef, Attach!Ends, Attach!Step, Attach!NoFault
  <2>2. CASE Attach!CountUploads(r)
    BY <2>2, IdleFits DEF Attach!CountUploads, Attach!Ends, Attach!Step, Attach!NoFault
  <2>3. CASE Attach!InsertRefused(r)
    <3>1. [fileReq[r] EXCEPT !.pc = "unlink"].pc = "unlink"
      BY StepState
    <3> QED
      BY <2>3, <3>1 DEF Attach!InsertRefused, Attach!Step, Attach!NoFault
  <2>4. CASE Attach!FindAgain(r)
    BY <2>4 DEF Attach!FindAgain, Attach!Ends, Attach!NoFault
  <2> QED
    BY <2>1, <2>2, <2>3, <2>4
<1>2. Placed(fileReq[r])
  BY DEF FileInv
<1>3. /\ s \in Attach!RequestStates
      /\ s = Attach!Idle \/ s.pc \in {"count", "move", "unlink"}
      /\ s # Attach!Idle =>
           /\ s.user = fileReq[r].user /\ s.ticket = fileReq[r].ticket
           /\ s.file = fileReq[r].file
           /\ fileReq[r].pc \in {"find", "count", "insert"}
           /\ s.pc = "unlink" <=> fileReq[r].pc = "insert"
  <2>1. CASE s = Attach!Idle
    BY <2>1, IdleFits
  <2>2. ASSUME NEW pc \in {"count", "move", "unlink"},
               s = [fileReq[r] EXCEPT !.pc = pc]
        PROVE  /\ s \in Attach!RequestStates /\ s.pc = pc
               /\ s.user = fileReq[r].user /\ s.ticket = fileReq[r].ticket
               /\ s.file = fileReq[r].file
    BY <2>2, StepState
  <2> QED
    BY <1>1, <2>1, <2>2
<1>4. Placed(s)
  BY <1>2, <1>3, IdleFits DEF Placed, Storing, Holding
<1> QED
  BY <1>1, <1>3, <1>4, IdleFits, GoesOnKeeps DEF Holding

LEMMA PickKeeps ==
  ASSUME FileInv, Attach!TicketsMove, NEW r \in FileRequests, Attach!PickAttachment(r)
  PROVE  FileInv'
<1>1. /\ fileReq[r].pc = "pick" /\ fileReq[r] \in Attach!RequestStates
      /\ UNCHANGED <<attachments, lastAttachment, files, named, recent>>
      /\ UNCHANGED <<leaked, fileFaults, fileRequests>>
  BY DEF Attach!PickAttachment, Attach!NoFault, FileInv, Attach!TypeOK
<1>2. CASE Attach!Ends(r)
  BY <1>1, <1>2, IdleFits, GoesOnKeeps DEF Attach!Ends, Holding
<1>3. ASSUME NEW a \in Attach!Stored,
             Attach!Goes(r, [fileReq[r] EXCEPT !.pc = "delete", !.id = a,
                                               !.file = attachments[a].file])
      PROVE  FileInv'
  <2>1. PICK s : /\ s = [fileReq[r] EXCEPT !.pc = "delete", !.id = a,
                                           !.file = attachments[a].file]
                 /\ Attach!Goes(r, s)
    BY <1>3
  <2>2. /\ a \in Attach!Ids /\ a \in 1..lastAttachment
        /\ attachments[a].file \in files /\ attachments[a].file \in Attach!Files
        /\ attachments[a].file \in 1..named
    BY StoredRows DEF FileInv, Attach!RowsHaveFiles, Attach!Rows, Attach!TypeOK
  <2>3. /\ s \in Attach!RequestStates /\ s.pc = "delete" /\ s.id = a
        /\ s.file = attachments[a].file
    BY <1>1, <2>1, <2>2 DEF Attach!RequestStates
  <2>4. \A b \in Attach!Stored : attachments[b].file = s.file <=> b = a
    BY <2>3 DEF FileInv, Attach!TypeOK
  <2>5. Placed(s)
    BY <2>2, <2>3, <2>4 DEF Placed, Storing, Holding
  <2> QED
    BY <1>1, <2>1, <2>3, <2>5, GoesOnKeeps
<1> QED
  BY <1>2, <1>3 DEF Attach!PickAttachment

(* Faults: the process dies, or an operation fails.                        *)
LEMMA FaultsKeep ==
  ASSUME FileInv, Attach!TicketsMove, NEW r \in FileRequests,
         \/ Attach!MoveFails(r) \/ Attach!InsertFails(r) \/ Attach!DeleteFails(r)
         \/ Attach!Die(r)
  PROVE  FileInv'
<1>1. UNCHANGED <<attachments, lastAttachment, files, named, recent, fileRequests>>
  BY DEF Attach!MoveFails, Attach!InsertFails, Attach!DeleteFails, Attach!Die
<1>2. ASSUME Attach!Fault(Attach!InHand(r)), Attach!Ends(r)
      PROVE  FileInv'
  <2>1. PICK left : left = Attach!InHand(r) /\ Attach!Fault(left)
    BY <1>2
  <2> QED
    BY <1>1, <1>2, <2>1, IdleFits, FaultEnds DEF Attach!Ends
<1>3. ASSUME Attach!Fault({}), fileReq[r].pc = "insert", Attach!Step(r, "unlink")
      PROVE  FileInv'
  <2>1. PICK s : s = [fileReq[r] EXCEPT !.pc = "unlink"] /\ Attach!Goes(r, s)
    BY <1>3 DEF Attach!Step
  <2>2. /\ s \in Attach!RequestStates /\ s.pc = "unlink"
        /\ s.file = fileReq[r].file
        /\ s.user = fileReq[r].user /\ s.ticket = fileReq[r].ticket
    BY <2>1, StepState
  <2>3. Placed(s)
    BY <1>3, <2>2 DEF FileInv, Placed, Storing, Holding
  <2> QED
    BY <1>1, <1>3, <2>1, <2>2, <2>3, FaultEnds
<1>4. CASE Attach!MoveFails(r)
  <2>1. Attach!InHand(r) = {}
    BY <1>4 DEF Attach!MoveFails, Attach!InHand
  <2> QED
    BY <1>2, <1>4, <2>1 DEF Attach!MoveFails
<1>5. CASE Attach!DeleteFails(r)
  <2>1. Attach!InHand(r) = {}
    BY <1>5 DEF Attach!DeleteFails, Attach!InHand
  <2> QED
    BY <1>2, <1>5, <2>1 DEF Attach!DeleteFails
<1>6. CASE Attach!InsertFails(r)
  <2>1. Attach!InHand(r) = {fileReq[r].file} /\ fileReq[r].pc = "insert"
    BY <1>6 DEF Attach!InsertFails, Attach!InHand
  <2> QED
    BY <1>2, <1>3, <1>6, <2>1 DEF Attach!InsertFails
<1>7. CASE Attach!Die(r)
  BY <1>2, <1>7 DEF Attach!Die
<1> QED
  BY <1>4, <1>5, <1>6, <1>7

-----------------------------------------------------------------------------
(* A file is written, gets its row, or is cleared away.                    *)

LEMMA UnstoredFinite ==
  ASSUME FileInv
  PROVE  /\ IsFiniteSet(Unstored) /\ Cardinality(Unstored) \in Nat
         /\ lastAttachment \in Nat /\ named \in Nat /\ named <= MaxUploads
BY DeskAssumption, FS_Subset, FS_CardinalityType
   DEF Unstored, FileInv, Attach!TypeOK

LEMMA MoveToKeeps ==
  ASSUME FileInv, Attach!TicketsMove, NEW r \in FileRequests, Attach!MoveTo(r)
  PROVE  FileInv'
<1>0. PICK s : s = [fileReq[r] EXCEPT !.pc = "insert", !.file = named + 1]
  OBVIOUS
<1>1. /\ fileReq[r].pc = "move" /\ fileReq[r] \in Attach!RequestStates
      /\ named < MaxUploads /\ named' = named + 1
      /\ files' = files \cup {named + 1} /\ Attach!Goes(r, s)
      /\ UNCHANGED <<attachments, lastAttachment, recent, leaked>>
      /\ UNCHANGED <<fileRequests, fileFaults>>
  BY <1>0 DEF Attach!MoveTo, Attach!NoFault, FileInv, Attach!TypeOK
<1>2. /\ named \in Nat /\ MaxUploads \in Nat /\ lastAttachment \in Nat
      /\ named + 1 \in Attach!Files
      /\ named + 1 \notin 1..named /\ 1..named \subseteq 1..(named + 1)
  BY <1>1, DeskAssumption, UnstoredFinite DEF Attach!Files
<1>3. /\ s \in Attach!RequestStates /\ s.pc = "insert" /\ s.file = named + 1
      /\ s.user = fileReq[r].user /\ s.ticket = fileReq[r].ticket
  BY <1>0, <1>1, <1>2 DEF Attach!RequestStates
<1>4. /\ fileReq' \in [FileRequests -> Attach!RequestStates]
      /\ fileReq'[r] = s
      /\ \A q \in FileRequests \ {r} : fileReq'[q] = fileReq[q]
  BY <1>1, <1>3 DEF FileInv, Attach!TypeOK, Attach!Goes
<1>5. Attach!Stored' = Attach!Stored
  BY <1>1 DEF Attach!Stored
<1>6. Attach!TypeOK'
  <2>1. /\ named' \in 0..MaxUploads
        /\ files' \subseteq 1..named' /\ leaked' \subseteq 1..named'
    BY <1>1, <1>2 DEF FileInv, Attach!TypeOK
  <2> QED
    BY <1>1, <1>4, <1>5, <2>1 DEF FileInv, Attach!TypeOK, Attach!TicketsMove
<1>7. \A a \in Attach!Stored : attachments[a].file \in 1..named
  BY DEF FileInv, Attach!RowsHaveFiles, Attach!TypeOK
<1>8. ASSUME NEW q \in FileRequests PROVE Placed(fileReq[q])'
  <2>1. CASE q = r
    <3>1. MayHang(s.user, s.ticket)
      BY <1>1, <1>3 DEF FileInv, Placed, Storing
    <3>2. MayHang(s.user, s.ticket)'
      BY <3>1, HangStays DEF FileInv
    <3> QED
      BY <1>1, <1>2, <1>3, <1>4, <1>5, <1>7, <2>1, <3>2 DEF Placed, Storing, Holding
  <2>2. CASE q # r
    <3>1. Placed(fileReq[q]) /\ fileReq'[q] = fileReq[q]
      BY <1>4, <2>2 DEF FileInv
    <3>2. PICK z : z = fileReq[q]
      OBVIOUS
    <3>3. Placed(z)'
      BY <1>1, <1>2, <1>5, <3>1, <3>2, HangStays DEF FileInv, Placed
    <3> QED
      BY <3>1, <3>2, <3>3
  <2> QED
    BY <2>1, <2>2
<1>9. Apart'
  <2>1. \A q \in FileRequests \ {r} :
          fileReq'[q].pc \in Holding => fileReq'[q].file # named + 1
    BY <1>2, <1>4 DEF FileInv, Placed
  <2> SUFFICES ASSUME NEW p \in FileRequests, NEW q \in FileRequests, p # q,
                      fileReq'[p].pc \in {"insert", "unlink"},
                      fileReq'[q].pc \in Holding
               PROVE  fileReq'[p].file # fileReq'[q].file
    BY DEF Apart
  <2>2. CASE p = r
    BY <1>3, <1>4, <2>1, <2>2
  <2>3. CASE q = r
    BY <1>3, <1>4, <2>1, <2>3 DEF Holding
  <2>4. CASE p # r /\ q # r
    BY <1>4, <2>4 DEF FileInv, Apart
  <2> QED
    BY <2>2, <2>3, <2>4
<1>10. lastAttachment' + Cardinality(Unstored') <= named'
  <2>1. Unstored' = Unstored \cup {r} /\ r \notin Unstored
    BY <1>1, <1>3, <1>4 DEF Unstored
  <2>2. Cardinality(Unstored') = Cardinality(Unstored) + 1
    BY <2>1, UnstoredFinite, FS_AddElement
  <2> QED
    BY <1>1, <1>2, <2>2, UnstoredFinite DEF FileInv
<1>11. Attach!RowsHaveFiles'
  BY <1>1, <1>5 DEF FileInv, Attach!RowsHaveFiles
<1>12. Attach!NothingLeftBehind'
  <2> SUFFICES ASSUME NEW f \in files', f \notin leaked'
               PROVE  \/ \E a \in Attach!Stored' : attachments'[a].file = f
                      \/ \E q \in FileRequests : f \in Attach!InHand(q)'
    BY DEF Attach!NothingLeftBehind
  <2>1. CASE f = named + 1
    BY <1>3, <1>4, <2>1 DEF Attach!InHand
  <2>2. ASSUME f \in files, NEW q \in FileRequests, f \in Attach!InHand(q)
        PROVE  f \in Attach!InHand(q)'
    BY <1>1, <1>4, <2>2 DEF Attach!InHand
  <2>3. CASE f \in files
    BY <1>1, <1>5, <2>2, <2>3 DEF FileInv, Attach!NothingLeftBehind
  <2> QED
    BY <1>1, <2>1, <2>3
<1>13. Attach!AttachedByParties'
  BY <1>1, <1>5, HangStays, StoredRows DEF FileInv, Attach!AttachedByParties, Attach!Rows
<1> QED
  BY <1>6, <1>8, <1>9, <1>10, <1>11, <1>12, <1>13 DEF FileInv

LEMMA FileInserted ==
  ASSUME FileInv, Attach!TicketsMove, NEW r \in FileRequests, Attach!Insert(r)
  PROVE  FileInv'
<1>0. PICK s : s = fileReq[r]
  OBVIOUS
<1>1. PICK n : n = lastAttachment + 1
  OBVIOUS
<1>2. PICK row : row = [ticket |-> s.ticket, file |-> s.file, ref |-> s.ref,
                        user |-> s.user]
  OBVIOUS
<1>3. /\ s.pc = "insert" /\ ~ Attach!Conflict(r)
      /\ lastAttachment' = n /\ attachments' = [attachments EXCEPT ![n] = row]
      /\ recent' = recent \cup {n} /\ Attach!Goes(r, Attach!Idle)
      /\ UNCHANGED <<files, named, leaked>> /\ UNCHANGED <<fileRequests, fileFaults>>
  BY <1>0, <1>1, <1>2 DEF Attach!Insert, Attach!NoFault, Attach!Ends
<1>4. /\ s \in Attach!RequestStates /\ Placed(s) /\ MayHang(s.user, s.ticket)
      /\ s.file \in 1..named /\ s.file \in files
      /\ \A a \in Attach!Stored : attachments[a].file # s.file
  BY <1>0, <1>3 DEF FileInv, Attach!TypeOK, Placed, Storing, Holding
<1>5. n \in Attach!Ids /\ n \in Nat /\ n > lastAttachment /\ lastAttachment \in Nat
  <2>1. r \in Unstored
    BY <1>0, <1>3 DEF Unstored
  <2>2. Cardinality(Unstored) # 0
    BY <2>1, UnstoredFinite, FS_EmptySet
  <2>3. lastAttachment + Cardinality(Unstored) <= named
    BY DEF FileInv
  <2> QED
    BY <1>1, <2>2, <2>3, UnstoredFinite, DeskAssumption DEF Attach!Ids
<1>6. /\ row \in Attach!Rows /\ row # NoRow /\ row.file = s.file /\ row.ref = s.ref
      /\ row.ticket = s.ticket /\ row.user = s.user
  <2>1. s.user \in People /\ s.ticket \in Ids
    BY <1>4 DEF MayHang
  <2>2. s.file \in Attach!Files
    BY <1>4, UnstoredFinite, DeskAssumption DEF Attach!Files
  <2>3. s.ref \in Refs \cup {NoRef}
    BY <1>4 DEF Attach!RequestStates
  <2>4. row \in Attach!Rows
    BY <1>2, <2>1, <2>2, <2>3 DEF Attach!Rows
  <2> QED
    BY <1>2, <2>4, DeskAssumption
<1>7. /\ attachments \in [Attach!Ids -> Attach!Rows \cup {NoRow}]
      /\ attachments' \in [Attach!Ids -> Attach!Rows \cup {NoRow}]
      /\ attachments'[n] = row
      /\ \A a \in Attach!Ids \ {n} : attachments'[a] = attachments[a]
  <2>1. attachments \in [Attach!Ids -> Attach!Rows \cup {NoRow}]
    BY DEF FileInv, Attach!TypeOK
  <2> QED
    BY <1>3, <1>5, <1>6, <2>1
<1>8. /\ Attach!Stored' = Attach!Stored \cup {n} /\ n \notin Attach!Stored
      /\ \A a \in Attach!Stored : attachments'[a] = attachments[a] /\ a \in Attach!Ids
  <2>1. 1..lastAttachment' = 1..lastAttachment \cup {n} /\ n \notin 1..lastAttachment
    BY <1>1, <1>3, <1>5
  <2>2. 1..lastAttachment \subseteq Attach!Ids
    BY UnstoredFinite, DeskAssumption DEF Attach!Ids, FileInv, Attach!TypeOK
  <2> QED
    BY <1>5, <1>6, <1>7, <2>1, <2>2 DEF Attach!Stored
<1>9. /\ fileReq' \in [FileRequests -> Attach!RequestStates]
      /\ fileReq'[r] = Attach!Idle
      /\ \A q \in FileRequests \ {r} : fileReq'[q] = fileReq[q]
  BY <1>3, IdleFits DEF FileInv, Attach!TypeOK, Attach!Goes
<1>10. Attach!TypeOK'
  <2>1. \A a \in Attach!Ids : a > lastAttachment' => attachments'[a] = NoRow
    <3>1. \A a \in Attach!Ids : a > n => a > lastAttachment /\ a # n
      BY <1>5 DEF Attach!Ids
    <3> QED
      BY <1>3, <1>7, <3>1 DEF FileInv, Attach!TypeOK
  <2>2. ASSUME NEW a \in Attach!Stored', NEW b \in Attach!Stored'
        PROVE  attachments'[a].file = attachments'[b].file => a = b
    <3>1. \A c, d \in Attach!Stored : attachments[c].file = attachments[d].file => c = d
      BY DEF FileInv, Attach!TypeOK
    <3> QED
      BY <1>4, <1>6, <1>7, <1>8, <3>1
  <2>3. ASSUME NEW a \in Attach!Stored', NEW b \in Attach!Stored'
        PROVE  (/\ attachments'[a].ref # NoRef
                /\ attachments'[a].ref = attachments'[b].ref
                /\ attachments'[a].ticket = attachments'[b].ticket) => a = b
    <3>1. \A c, d \in Attach!Stored :
            (/\ attachments[c].ref # NoRef /\ attachments[c].ref = attachments[d].ref
             /\ attachments[c].ticket = attachments[d].ticket) => c = d
      BY DEF FileInv, Attach!TypeOK
    <3>2. s.ref # NoRef => \A c \in Attach!Stored :
            ~ (attachments[c].ticket = s.ticket /\ attachments[c].ref = s.ref)
      BY <1>0, <1>3 DEF Attach!Conflict, Attach!ByRef
    <3> QED
      BY <1>6, <1>7, <1>8, <3>1, <3>2
  <2>4. recent' \subseteq 1..lastAttachment' /\ lastAttachment' \in 0..MaxUploads
    BY <1>1, <1>3, <1>5, DeskAssumption DEF FileInv, Attach!TypeOK, Attach!Ids
  <2>5. /\ named' \in 0..MaxUploads
        /\ files' \subseteq 1..named' /\ leaked' \subseteq 1..named'
        /\ fileRequests' \in 0..MaxFileRequests /\ fileFaults' \in 0..MaxFileFaults
    BY <1>3 DEF FileInv, Attach!TypeOK
  <2>6. /\ ReporterOf' \in [Ids -> People \cup {NoOne}]
        /\ Found' \subseteq {t \in Ids : ReporterOf'[t] # NoOne}
        /\ ClosedTickets' \subseteq Ids
    BY DEF Attach!TicketsMove
  <2> QED
    BY <1>7, <1>9, <2>1, <2>2, <2>3, <2>4, <2>5, <2>6 DEF Attach!TypeOK
<1>11. ASSUME NEW q \in FileRequests PROVE Placed(fileReq[q])'
  <2>1. CASE q = r
    BY <1>9, <2>1, IdleFits DEF Placed, Storing, Holding
  <2>2. CASE q # r
    <3>1. PICK z : z = fileReq[q] /\ z = fileReq'[q] /\ Placed(z)
      BY <1>9, <2>2 DEF FileInv
    <3>2. z.pc \in Holding => z.file # s.file
      BY <1>0, <1>3, <2>2, <3>1 DEF FileInv, Apart
    <3>3. z.pc \in Storing => MayHang(z.user, z.ticket)'
      BY <3>1, HangStays DEF FileInv, Placed
    <3>4. z.pc \in {"insert", "unlink", "remove"} =>
            \A a \in Attach!Stored' : attachments'[a].file # z.file
      BY <1>6, <1>7, <1>8, <3>1, <3>2 DEF Placed, Holding
    <3>5. z.pc = "delete" =>
            /\ z.id \in 1..lastAttachment'
            /\ \A a \in Attach!Stored' : attachments'[a].file = z.file <=> a = z.id
      <4>1. z.pc = "delete" => z.id \in 1..n /\ z.id # n
        BY <1>1, <1>5, <3>1 DEF Placed
      <4> QED
        BY <1>3, <1>6, <1>7, <1>8, <3>1, <3>2, <4>1 DEF Placed, Holding
    <3>6. Placed(z)'
      BY <1>3, <3>1, <3>3, <3>4, <3>5 DEF Placed
    <3> QED
      BY <3>1, <3>6
  <2> QED
    BY <2>1, <2>2
<1>12. Apart'
  BY <1>9, IdleFits DEF FileInv, Apart, Holding
<1>13. lastAttachment' + Cardinality(Unstored') <= named'
  <2>1. Unstored' = Unstored \ {r} /\ r \in Unstored
    BY <1>0, <1>3, <1>9, IdleFits DEF Unstored
  <2>2. Cardinality(Unstored') = Cardinality(Unstored) - 1
    BY <2>1, UnstoredFinite, FS_RemoveElement
  <2> QED
    BY <1>1, <1>3, <2>2, UnstoredFinite DEF FileInv
<1>14. Attach!RowsHaveFiles'
  BY <1>3, <1>4, <1>6, <1>7, <1>8 DEF FileInv, Attach!RowsHaveFiles
<1>15. Attach!NothingLeftBehind'
  <2> SUFFICES ASSUME NEW f \in files', f \notin leaked'
               PROVE  \/ \E a \in Attach!Stored' : attachments'[a].file = f
                      \/ \E q \in FileRequests : f \in Attach!InHand(q)'
    BY DEF Attach!NothingLeftBehind
  <2>1. CASE f \in Attach!InHand(r)
    <3>1. f = s.file
      BY <1>0, <1>3, <2>1 DEF Attach!InHand
    <3> QED
      BY <1>6, <1>7, <1>8, <3>1
  <2>2. ASSUME NEW q \in FileRequests \ {r}, f \in Attach!InHand(q)
        PROVE  f \in Attach!InHand(q)'
    BY <1>9, <2>2 DEF Attach!InHand
  <2>3. \/ \E a \in Attach!Stored : attachments[a].file = f
        \/ \E q \in FileRequests : f \in Attach!InHand(q)
    BY <1>3 DEF FileInv, Attach!NothingLeftBehind
  <2> QED
    BY <1>8, <2>1, <2>2, <2>3
<1>16. Attach!AttachedByParties'
  <2>1. MayHang(s.user, s.ticket)'
    BY <1>4, HangStays DEF FileInv
  <2>2. ASSUME NEW a \in Attach!Stored
        PROVE  /\ ReporterOf'[attachments'[a].ticket] # NoOne
               /\ \/ attachments'[a].user \in Staff
                  \/ ReporterOf'[attachments'[a].ticket] = attachments'[a].user
    BY <1>8, HangStays, StoredRows DEF FileInv, Attach!AttachedByParties, Attach!Rows
  <2> QED
    BY <1>6, <1>7, <1>8, <2>1, <2>2 DEF Attach!AttachedByParties, MayHang
<1> QED
  BY <1>10, <1>11, <1>12, <1>13, <1>14, <1>15, <1>16 DEF FileInv

(* A file that no row names goes.                                          *)
LEMMA FileCleared ==
  ASSUME FileInv, Attach!TicketsMove, NEW r \in FileRequests,
         Attach!Unlink(r) \/ Attach!RemoveFile(r)
  PROVE  FileInv'
<1>1. PICK s : /\ s = Attach!Idle \/ s = [fileReq[r] EXCEPT !.pc = "again"]
               /\ s = Attach!Idle \/ fileReq[r].pc = "unlink"
               /\ Attach!Goes(r, s)
               /\ fileReq[r].pc \in {"unlink", "remove"}
               /\ files' = files \ {fileReq[r].file}
               /\ UNCHANGED <<attachments, lastAttachment, named, recent, leaked>>
               /\ UNCHANGED <<fileFaults, fileRequests>>
  BY DEF Attach!Unlink, Attach!RemoveFile, Attach!Ends, Attach!Step, Attach!NoFault
<1>2. /\ s \in Attach!RequestStates /\ s.pc \in {"idle", "again"}
      /\ s.pc = "again" => /\ fileReq[r].pc = "unlink"
                           /\ s.user = fileReq[r].user /\ s.ticket = fileReq[r].ticket
  <2>1. CASE s = Attach!Idle
    BY <2>1, IdleFits
  <2>2. CASE s # Attach!Idle
    BY <1>1, <2>2, StepState
  <2> QED
    BY <2>1, <2>2
<1>3. Placed(fileReq[r])
  BY DEF FileInv
<1>4. /\ fileReq' \in [FileRequests -> Attach!RequestStates]
      /\ fileReq'[r] = s
      /\ \A q \in FileRequests \ {r} : fileReq'[q] = fileReq[q]
  BY <1>1, <1>2 DEF FileInv, Attach!TypeOK, Attach!Goes
<1>5. Attach!Stored' = Attach!Stored
  BY <1>1 DEF Attach!Stored
<1>6. Attach!TypeOK'
  <2>1. files' \subseteq 1..named' /\ leaked' \subseteq 1..named'
    BY <1>1 DEF FileInv, Attach!TypeOK
  <2> QED
    BY <1>1, <1>4, <1>5, <2>1 DEF FileInv, Attach!TypeOK, Attach!TicketsMove
<1>7. ASSUME NEW q \in FileRequests PROVE Placed(fileReq[q])'
  <2>1. CASE q = r
    <3>1. s.pc = "again" => MayHang(s.user, s.ticket)'
      BY <1>2, <1>3, HangStays DEF FileInv, Placed, Storing
    <3>2. Placed(s)'
      BY <1>2, <3>1 DEF Placed, Storing, Holding
    <3> QED
      BY <1>4, <2>1, <3>2
  <2>2. CASE q # r
    <3>1. PICK z : z = fileReq[q] /\ z = fileReq'[q] /\ Placed(z)
      BY <1>4, <2>2 DEF FileInv
    <3>2. z.pc \in {"insert", "unlink"} => z.file # fileReq[r].file
      BY <1>1, <2>2, <3>1 DEF FileInv, Apart, Holding
    <3>3. z.pc \in Storing => MayHang(z.user, z.ticket)'
      BY <3>1, HangStays DEF FileInv, Placed
    <3>4. Placed(z)'
      BY <1>1, <1>5, <3>1, <3>2, <3>3 DEF Placed
    <3> QED
      BY <3>1, <3>4
  <2> QED
    BY <2>1, <2>2
<1>8. Apart'
  BY <1>2, <1>4 DEF FileInv, Apart, Holding
<1>9. lastAttachment' + Cardinality(Unstored') <= named'
  <2>1. Unstored' = Unstored
    BY <1>1, <1>2, <1>4 DEF Unstored
  <2> QED
    BY <1>1, <2>1 DEF FileInv
<1>10. Attach!RowsHaveFiles'
  BY <1>1, <1>3, <1>5 DEF FileInv, Attach!RowsHaveFiles, Placed
<1>11. Attach!NothingLeftBehind'
  <2> SUFFICES ASSUME NEW f \in files', f \notin leaked'
               PROVE  \/ \E a \in Attach!Stored' : attachments'[a].file = f
                      \/ \E q \in FileRequests : f \in Attach!InHand(q)'
    BY DEF Attach!NothingLeftBehind
  <2>1. f \in files /\ f \notin leaked /\ f # fileReq[r].file
    BY <1>1
  <2>2. f \notin Attach!InHand(r)
    BY <2>1 DEF Attach!InHand
  <2>3. \A q \in FileRequests \ {r} : f \in Attach!InHand(q) => f \in Attach!InHand(q)'
    BY <1>4 DEF Attach!InHand
  <2> QED
    BY <1>1, <1>5, <2>1, <2>2, <2>3 DEF FileInv, Attach!NothingLeftBehind
<1>12. Attach!AttachedByParties'
  BY <1>1, <1>5, HangStays, StoredRows DEF FileInv, Attach!AttachedByParties, Attach!Rows
<1> QED
  BY <1>6, <1>7, <1>8, <1>9, <1>10, <1>11, <1>12 DEF FileInv

LEMMA RowDeleted ==
  ASSUME FileInv, Attach!TicketsMove, NEW r \in FileRequests, Attach!DeleteRow(r)
  PROVE  FileInv'
<1>1. PICK s : /\ s = [fileReq[r] EXCEPT !.pc = "remove"]
               /\ Attach!Goes(r, s) /\ fileReq[r].pc = "delete"
               /\ attachments' = [attachments EXCEPT ![fileReq[r].id] = NoRow]
               /\ UNCHANGED <<lastAttachment, files, named, recent, leaked>>
               /\ UNCHANGED <<fileFaults, fileRequests>>
  BY DEF Attach!DeleteRow, Attach!Step, Attach!NoFault
<1>2. /\ s \in Attach!RequestStates /\ s.pc = "remove" /\ s.file = fileReq[r].file
      /\ Placed(fileReq[r]) /\ s.file \in 1..named
  BY <1>1, StepState DEF FileInv, Placed, Holding
<1>3. PICK id : /\ id = fileReq[r].id /\ id \in 1..lastAttachment /\ id \in Attach!Ids
                /\ \A a \in Attach!Stored : attachments[a].file = s.file <=> a = id
  BY <1>1, <1>2, UnstoredFinite, DeskAssumption
     DEF Placed, Attach!Ids, FileInv, Attach!TypeOK
<1>4. /\ attachments \in [Attach!Ids -> Attach!Rows \cup {NoRow}]
      /\ attachments' \in [Attach!Ids -> Attach!Rows \cup {NoRow}]
      /\ attachments'[id] = NoRow
      /\ \A a \in Attach!Ids \ {id} : attachments'[a] = attachments[a]
  BY <1>1, <1>3 DEF FileInv, Attach!TypeOK
<1>5. /\ Attach!Stored' = Attach!Stored \ {id}
      /\ \A a \in Attach!Stored' :
           a \in Attach!Stored /\ attachments'[a] = attachments[a]
  <2>1. 1..lastAttachment \subseteq Attach!Ids
    BY UnstoredFinite, DeskAssumption DEF Attach!Ids, FileInv, Attach!TypeOK
  <2> QED
    BY <1>1, <1>4, <2>1 DEF Attach!Stored
<1>6. /\ fileReq' \in [FileRequests -> Attach!RequestStates]
      /\ fileReq'[r] = s
      /\ \A q \in FileRequests \ {r} : fileReq'[q] = fileReq[q]
  BY <1>1, <1>2 DEF FileInv, Attach!TypeOK, Attach!Goes
<1>7. Attach!TypeOK'
  <2>1. \A a \in Attach!Ids : a > lastAttachment' => attachments'[a] = NoRow
    BY <1>1, <1>4 DEF FileInv, Attach!TypeOK
  <2> QED
    BY <1>1, <1>4, <1>5, <1>6, <2>1 DEF FileInv, Attach!TypeOK, Attach!TicketsMove
<1>8. ASSUME NEW q \in FileRequests PROVE Placed(fileReq[q])'
  <2>1. CASE q = r
    <3>1. \A a \in Attach!Stored' : attachments'[a].file # s.file
      BY <1>3, <1>5
    <3>2. Placed(s)'
      BY <1>1, <1>2, <3>1 DEF Placed, Storing, Holding
    <3> QED
      BY <1>6, <2>1, <3>2
  <2>2. CASE q # r
    <3>1. PICK z : z = fileReq[q] /\ z = fileReq'[q] /\ Placed(z)
      BY <1>6, <2>2 DEF FileInv
    <3>2. z.pc \in Storing => MayHang(z.user, z.ticket)'
      BY <3>1, HangStays DEF FileInv, Placed
    <3>3. Placed(z)'
      BY <1>1, <1>5, <3>1, <3>2 DEF Placed
    <3> QED
      BY <3>1, <3>3
  <2> QED
    BY <2>1, <2>2
<1>9. Apart'
  <2> SUFFICES ASSUME NEW p \in FileRequests, NEW q \in FileRequests, p # q,
                      fileReq'[p].pc \in {"insert", "unlink"},
                      fileReq'[q].pc \in Holding
               PROVE  fileReq'[p].file # fileReq'[q].file
    BY DEF Apart
  <2>1. fileReq[p].pc \in {"insert", "unlink"} /\ fileReq[q].pc \in Holding
    BY <1>1, <1>2, <1>6 DEF Holding
  <2> QED
    BY <1>2, <1>6, <2>1 DEF FileInv, Apart
<1>10. lastAttachment' + Cardinality(Unstored') <= named'
  <2>1. Unstored' = Unstored
    BY <1>1, <1>2, <1>6 DEF Unstored
  <2> QED
    BY <1>1, <2>1 DEF FileInv
<1>11. Attach!RowsHaveFiles'
  BY <1>1, <1>5 DEF FileInv, Attach!RowsHaveFiles
<1>12. Attach!NothingLeftBehind'
  <2> SUFFICES ASSUME NEW f \in files', f \notin leaked'
               PROVE  \/ \E a \in Attach!Stored' : attachments'[a].file = f
                      \/ \E q \in FileRequests : f \in Attach!InHand(q)'
    BY DEF Attach!NothingLeftBehind
  <2>1. \/ \E a \in Attach!Stored : attachments[a].file = f
        \/ \E q \in FileRequests : f \in Attach!InHand(q)
    BY <1>1 DEF FileInv, Attach!NothingLeftBehind
  <2>2. f = s.file => f \in Attach!InHand(r)'
    BY <1>2, <1>6 DEF Attach!InHand
  <2>3. \A a \in Attach!Stored : a # id => a \in Attach!Stored'
    BY <1>5
  <2>4. ASSUME NEW a \in Attach!Stored, attachments[a].file = f
        PROVE  \/ \E b \in Attach!Stored' : attachments'[b].file = f
               \/ f \in Attach!InHand(r)'
    BY <1>3, <1>5, <2>2, <2>3, <2>4
  <2>5. f \notin Attach!InHand(r)
    BY <1>1 DEF Attach!InHand
  <2>6. \A q \in FileRequests \ {r} : f \in Attach!InHand(q) => f \in Attach!InHand(q)'
    BY <1>6 DEF Attach!InHand
  <2> QED
    BY <2>1, <2>4, <2>5, <2>6
<1>13. Attach!AttachedByParties'
  BY <1>5, HangStays, StoredRows DEF FileInv, Attach!AttachedByParties, Attach!Rows
<1> QED
  BY <1>7, <1>8, <1>9, <1>10, <1>11, <1>12, <1>13 DEF FileInv

(* The tickets move, or uploads grow old, and no request does anything.    *)
LEMMA FilesStand ==
  ASSUME FileInv, Attach!TicketsMove,
         UNCHANGED <<attachments, lastAttachment, files, named, fileReq, leaked>>,
         UNCHANGED <<fileRequests, fileFaults>>, recent' \subseteq recent
  PROVE  FileInv'
<1>1. Attach!Stored' = Attach!Stored /\ Unstored' = Unstored
  BY DEF Attach!Stored, Unstored
<1>2. Attach!TypeOK'
  BY <1>1 DEF FileInv, Attach!TypeOK, Attach!TicketsMove
<1>3. ASSUME NEW q \in FileRequests PROVE Placed(fileReq[q])'
  <2>1. PICK z : z = fileReq[q] /\ z = fileReq'[q]
    OBVIOUS
  <2>2. Placed(z)'
    BY <2>1, PlacedStays DEF FileInv
  <2> QED
    BY <2>1, <2>2
<1>4. Apart' /\ lastAttachment' + Cardinality(Unstored') <= named'
  BY <1>1 DEF FileInv, Apart
<1>5. Attach!RowsHaveFiles' /\ Attach!NothingLeftBehind'
  <2>1. \A q \in FileRequests : Attach!InHand(q)' = Attach!InHand(q)
    BY DEF Attach!InHand
  <2> QED
    BY <1>1, <2>1 DEF FileInv, Attach!RowsHaveFiles, Attach!NothingLeftBehind
<1>6. Attach!AttachedByParties'
  BY <1>1, HangStays, StoredRows DEF FileInv, Attach!AttachedByParties, Attach!Rows
<1> QED
  BY <1>2, <1>3, <1>4, <1>5, <1>6 DEF FileInv

-----------------------------------------------------------------------------
(* The requests that begin.                                                *)

(* attachUploadedFile(), on a ticket that may have been raised just now.   *)
LEMMA CustomersBegin ==
  ASSUME FileInv, Attach!TicketsMove, NEW r \in FileRequests, NEW u, NEW t,
         Attach!AttachUploadedFile(r, u, t), MayHang(u, t)'
  PROVE  FileInv'
<1>1. PICK s : s = [Attach!Idle EXCEPT !.pc = "move", !.via = "customer", !.user = u,
                                       !.ticket = t]
  OBVIOUS
<1>2. u \in People /\ t \in Ids
  BY DEF MayHang
<1>3. /\ s \in Attach!RequestStates /\ s.pc = "move"
      /\ s.user = u /\ s.ticket = t
  BY <1>1, <1>2 DEF Attach!Idle, Attach!RequestStates
<1>4. MayHang(s.user, s.ticket)'
  BY <1>3
<1> QED
  BY <1>1, <1>3, <1>4, BeginKeeps DEF Attach!AttachUploadedFile

LEMMA BeginsKeep ==
  ASSUME FileInv, Attach!TicketsMove, NEW r \in FileRequests,
         \/ Attach!UploadApi(r) \/ Attach!UploadStaff(r) \/ Attach!UploadCustomer(r)
         \/ Attach!DeleteApi(r) \/ Attach!DeleteStaff(r)
  PROVE  FileInv'
<1>0. /\ Found \subseteq {t \in Ids : ReporterOf[t] # NoOne}
      /\ ReporterOf \in [Ids -> People \cup {NoOne}]
      /\ 0 \in {0} \cup Ids /\ 0 \in {0} \cup Attach!Ids /\ 0 \in {0} \cup Attach!Files
      /\ NoRef \in Refs \cup {NoRef}
  BY DEF FileInv, Attach!TypeOK
<1>1. CASE Attach!UploadApi(r)
  <2>1. PICK u \in People, t \in Found, ref \in Refs \cup {NoRef} :
          /\ Attach!MayAttach(u, t)
          /\ Attach!Begin(r, [Attach!Idle EXCEPT
               !.pc = IF ref = NoRef THEN "count" ELSE "find",
               !.user = u, !.ticket = t, !.ref = ref])
    BY <1>1 DEF Attach!UploadApi
  <2>2. PICK s : s = [Attach!Idle EXCEPT
                        !.pc = IF ref = NoRef THEN "count" ELSE "find",
                        !.user = u, !.ticket = t, !.ref = ref]
    OBVIOUS
  <2>3. /\ s \in Attach!RequestStates /\ s.pc \in {"find", "count"}
        /\ s.user = u /\ s.ticket = t
    BY <1>0, <2>2 DEF Attach!Idle, Attach!RequestStates
  <2>4. MayHang(u, t)
    BY <1>0, <2>1 DEF MayHang, Attach!MayAttach
  <2>5. MayHang(s.user, s.ticket)'
    BY <2>3, <2>4, HangStays DEF FileInv
  <2> QED
    BY <2>1, <2>2, <2>3, <2>5, BeginKeeps
<1>2. CASE Attach!UploadStaff(r)
  <2>1. PICK u \in People, t \in Found :
          /\ Attach!MayAttach(u, t)
          /\ Attach!Begin(r, [Attach!Idle EXCEPT !.pc = "count", !.via = "staff",
                                                 !.user = u, !.ticket = t])
    BY <1>2 DEF Attach!UploadStaff
  <2>2. PICK s : s = [Attach!Idle EXCEPT !.pc = "count", !.via = "staff",
                                         !.user = u, !.ticket = t]
    OBVIOUS
  <2>3. /\ s \in Attach!RequestStates /\ s.pc = "count"
        /\ s.user = u /\ s.ticket = t
    BY <1>0, <2>2 DEF Attach!Idle, Attach!RequestStates
  <2>4. MayHang(u, t)
    BY <1>0, <2>1 DEF MayHang, Attach!MayAttach
  <2>5. MayHang(s.user, s.ticket)'
    BY <2>3, <2>4, HangStays DEF FileInv
  <2> QED
    BY <2>1, <2>2, <2>3, <2>5, BeginKeeps
<1>3. CASE Attach!UploadCustomer(r)
  <2>1. PICK t \in Found : Attach!AttachUploadedFile(r, ReporterOf[t], t)
    BY <1>3 DEF Attach!UploadCustomer
  <2>2. MayHang(ReporterOf[t], t)
    BY <1>0 DEF MayHang
  <2>3. PICK u : u = ReporterOf[t]
    OBVIOUS
  <2>4. MayHang(u, t)'
    BY <2>2, <2>3, HangStays DEF FileInv
  <2> QED
    BY <2>1, <2>3, <2>4, CustomersBegin
<1>4. CASE Attach!DeleteApi(r)
  <2>1. PICK u \in People, t \in Found :
          Attach!Begin(r, [Attach!Idle EXCEPT
                             !.pc = "pick", !.user = u, !.ticket = t,
                             !.found_closed = t \in ClosedTickets])
    BY <1>4 DEF Attach!DeleteApi
  <2>2. PICK c \in BOOLEAN : c = (t \in ClosedTickets)
    <3>1. (t \in ClosedTickets) \in BOOLEAN
      OBVIOUS
    <3> QED
      BY ONLY <3>1, Zenon
  <2>3. PICK s : s = [Attach!Idle EXCEPT !.pc = "pick", !.user = u, !.ticket = t,
                                         !.found_closed = c]
    OBVIOUS
  <2>4. t \in Ids
    BY <1>0
  <2>5. s \in Attach!RequestStates /\ s.pc = "pick"
    BY <1>0, <2>3, <2>4 DEF Attach!Idle, Attach!RequestStates
  <2> QED
    BY <2>1, <2>2, <2>3, <2>5, BeginKeeps
<1>5. CASE Attach!DeleteStaff(r)
  <2>1. PICK u \in Staff, t \in Ids :
          Attach!Begin(r, [Attach!Idle EXCEPT !.pc = "pick", !.via = "staff",
                                              !.user = u, !.ticket = t])
    BY <1>5 DEF Attach!DeleteStaff
  <2>2. PICK s : s = [Attach!Idle EXCEPT !.pc = "pick", !.via = "staff",
                                         !.user = u, !.ticket = t]
    OBVIOUS
  <2>3. s \in Attach!RequestStates /\ s.pc = "pick"
    BY <1>0, <2>2, TicketsAssumption DEF Attach!Idle, Attach!RequestStates
  <2> QED
    BY <2>1, <2>2, <2>3, BeginKeeps
<1> QED
  BY <1>1, <1>2, <1>3, <1>4, <1>5

LEMMA FilesNext ==
  ASSUME FileInv, [Attach!Next]_Attach!vars
  PROVE  FileInv'
<1>1. ASSUME UNCHANGED Attach!fileVars, Attach!TicketsMove
      PROVE  FileInv'
  BY <1>1, FilesStand DEF Attach!fileVars
<1>2. ASSUME NEW r \in FileRequests, Attach!Handle(r), UNCHANGED Attach!ticketVars
      PROVE  FileInv'
  <2>1. Attach!TicketsMove
    BY <1>2, TicketsStand DEF FileInv
  <2>2. CASE \/ Attach!UploadApi(r) \/ Attach!UploadStaff(r) \/ Attach!UploadCustomer(r)
             \/ Attach!DeleteApi(r) \/ Attach!DeleteStaff(r)
    BY <2>1, <2>2, BeginsKeep
  <2>3. CASE \/ Attach!FindRef(r) \/ Attach!CountUploads(r) \/ Attach!InsertRefused(r)
             \/ Attach!FindAgain(r)
    BY <2>1, <2>3, AsksKeep
  <2>4. CASE \/ Attach!MoveFails(r) \/ Attach!InsertFails(r) \/ Attach!DeleteFails(r)
             \/ Attach!Die(r)
    BY <2>1, <2>4, FaultsKeep
  <2>5. CASE Attach!MoveTo(r)
    BY <2>1, <2>5, MoveToKeeps
  <2>6. CASE Attach!Insert(r)
    BY <2>1, <2>6, FileInserted
  <2>7. CASE Attach!Unlink(r) \/ Attach!RemoveFile(r)
    BY <2>1, <2>7, FileCleared
  <2>8. CASE Attach!PickAttachment(r)
    BY <2>1, <2>8, PickKeeps
  <2>9. CASE Attach!DeleteRow(r)
    BY <2>1, <2>9, RowDeleted
  <2> QED
    BY <1>2, <2>2, <2>3, <2>4, <2>5, <2>6, <2>7, <2>8, <2>9 DEF Attach!Handle
<1>3. ASSUME Attach!Ages, UNCHANGED Attach!ticketVars
      PROVE  FileInv'
  <2>1. Attach!TicketsMove
    BY <1>3, TicketsStand DEF FileInv
  <2>2. recent' \subseteq recent
    BY <1>3 DEF Attach!Ages
  <2> QED
    BY <1>3, <2>1, <2>2, FilesStand DEF Attach!Ages, Attach!NoFault
<1>4. ASSUME NEW r \in FileRequests, Attach!CreateWithFile(r)
      PROVE  FileInv'
  <2>1. PICK t \in Found' : Attach!AttachUploadedFile(r, ReporterOf'[t], t)
    BY <1>4 DEF Attach!CreateWithFile
  <2>2. PICK u : u = ReporterOf'[t]
    OBVIOUS
  <2>3. Attach!TicketsMove
    BY <1>4 DEF Attach!CreateWithFile
  <2>4. t \in Ids /\ ReporterOf'[t] # NoOne /\ u \in People
    BY <2>2, <2>3 DEF Attach!TicketsMove
  <2>5. MayHang(u, t)'
    BY <2>2, <2>4 DEF MayHang
  <2> QED
    BY <2>1, <2>2, <2>3, <2>5, CustomersBegin
<1>5. CASE UNCHANGED Attach!vars
  <2>1. UNCHANGED Attach!fileVars /\ UNCHANGED Attach!ticketVars
    BY <1>5 DEF Attach!vars
  <2> QED
    BY <1>1, <2>1, TicketsStand DEF FileInv
<1> QED
  BY <1>1, <1>2, <1>3, <1>4, <1>5 DEF Attach!Next

LEMMA FilesInit ==
  ASSUME Attach!Init
  PROVE  FileInv
<1>1. Attach!Stored = {} /\ Unstored = {}
  BY DeskAssumption, IdleFits DEF Attach!Init, Attach!Stored, Unstored
<1>2. Attach!TypeOK
  BY <1>1, DeskAssumption, IdleFits DEF Attach!Init, Attach!TypeOK
<1>3. \A r \in FileRequests : fileReq[r] = Attach!Idle
  BY DEF Attach!Init
<1>4. \A r \in FileRequests : Placed(fileReq[r])
  BY <1>3, IdleFits
<1>5. Apart
  BY <1>3, IdleFits DEF Apart, Holding
<1>6. lastAttachment + Cardinality(Unstored) <= named
  BY <1>1, FS_EmptySet DEF Attach!Init
<1>7. Attach!RowsHaveFiles /\ Attach!NothingLeftBehind /\ Attach!AttachedByParties
  BY <1>1 DEF Attach!Init, Attach!RowsHaveFiles, Attach!NothingLeftBehind,
              Attach!AttachedByParties
<1> QED
  BY <1>2, <1>4, <1>5, <1>6, <1>7 DEF FileInv

(* Whatever the tickets do, as long as nobody takes one over from the      *)
(* person who raised it.                                                   *)
THEOREM FilesInvariance == Attach!Spec => []FileInv
<1>1. Attach!Init => FileInv
  BY FilesInit
<1>2. FileInv /\ [Attach!Next]_Attach!vars => FileInv'
  BY FilesNext
<1> QED
  BY <1>1, <1>2, PTL DEF Attach!Spec

-----------------------------------------------------------------------------
(* The limits.                                                             *)

Most == IF ApiLimit > StaffLimit THEN ApiLimit ELSE StaffLimit

NeverRaised(u) == \A t \in Ids : ReporterOf[t] # u

(* The uploads of u that have been counted and are not stored yet.         *)
InFlight(u) ==
  {r \in FileRequests : fileReq[r].user = u /\ fileReq[r].pc \in {"move", "insert"}}

(* The last of them that was counted found fewer than the limit, and all   *)
(* the others may have been under way.                                     *)
LimitInv ==
  \A u \in People : NeverRaised(u) =>
    Cardinality(Attach!RecentOf(u)) + Cardinality(InFlight(u))
      <= Most + Cardinality(FileRequests) - 1

(* TicketAttachments has the counting of FiniteSets under a name of its    *)
(* own here.                                                               *)
LEMMA SameCount ==
  ASSUME NEW S
  PROVE  Attach!Cardinality(S) = Cardinality(S)
BY DEF Cardinality, Attach!Cardinality

LEMMA CountsFinite ==
  ASSUME FileInv, NEW u
  PROVE  /\ IsFiniteSet(Attach!RecentOf(u)) /\ IsFiniteSet(InFlight(u))
         /\ Cardinality(Attach!RecentOf(u)) \in Nat
         /\ Cardinality(InFlight(u)) \in Nat
         /\ Cardinality(FileRequests) \in Nat /\ Most \in Nat \ {0}
<1>1. IsFiniteSet(1..lastAttachment)
  BY UnstoredFinite, FS_Interval
<1>2. Attach!RecentOf(u) \subseteq 1..lastAttachment
  BY DEF Attach!RecentOf, FileInv, Attach!TypeOK
<1>3. InFlight(u) \subseteq FileRequests
  BY DEF InFlight
<1>4. IsFiniteSet(Attach!RecentOf(u)) /\ IsFiniteSet(InFlight(u))
  BY <1>1, <1>2, <1>3, DeskAssumption, FS_Subset
<1> QED
  BY <1>4, DeskAssumption, FS_CardinalityType DEF Most

LEMMA NeverBefore ==
  ASSUME FileInv, Attach!TicketsMove, NEW u \in People, NeverRaised(u)'
  PROVE  NeverRaised(u)
BY HangStays, TicketsAssumption DEF FileInv, NeverRaised

(* Nothing is added to what counts for u.                                  *)
LEMMA LimitStays ==
  ASSUME FileInv, LimitInv, FileInv', Attach!TicketsMove,
         \A u \in People : Attach!RecentOf(u)' \subseteq Attach!RecentOf(u),
         \A u \in People : NeverRaised(u)' => InFlight(u)' \subseteq InFlight(u)
  PROVE  LimitInv'
<1> SUFFICES ASSUME NEW u \in People, NeverRaised(u)'
             PROVE  Cardinality(Attach!RecentOf(u)') + Cardinality(InFlight(u)')
                      <= Most + Cardinality(FileRequests) - 1
  BY DEF LimitInv, Most
<1>1. Cardinality(Attach!RecentOf(u)) + Cardinality(InFlight(u))
        <= Most + Cardinality(FileRequests) - 1
  BY NeverBefore DEF LimitInv
<1>2. /\ Cardinality(Attach!RecentOf(u)') \in Nat
      /\ Cardinality(Attach!RecentOf(u)') <= Cardinality(Attach!RecentOf(u))
      /\ Cardinality(InFlight(u)') \in Nat
      /\ Cardinality(InFlight(u)') <= Cardinality(InFlight(u))
  BY CountsFinite, FS_Subset, FS_CardinalityType
<1> QED
  BY <1>1, <1>2, CountsFinite

LEMMA RecentStays ==
  ASSUME FileInv, recent' \subseteq recent, lastAttachment' = lastAttachment,
         \/ attachments' = attachments
         \/ \E r \in FileRequests : Attach!DeleteRow(r),
         NEW u
  PROVE  Attach!RecentOf(u)' \subseteq Attach!RecentOf(u)
<1>1. \A a \in Attach!Stored' : a \in Attach!Stored /\ attachments'[a] = attachments[a]
  <2>1. CASE attachments' = attachments
    BY <2>1 DEF Attach!Stored
  <2>2. ASSUME NEW r \in FileRequests, Attach!DeleteRow(r)
        PROVE  \A a \in Attach!Stored' :
                 a \in Attach!Stored /\ attachments'[a] = attachments[a]
    <3>1. /\ attachments' = [attachments EXCEPT ![fileReq[r].id] = NoRow]
          /\ attachments \in [Attach!Ids -> Attach!Rows \cup {NoRow}]
      BY <2>2 DEF Attach!DeleteRow, FileInv, Attach!TypeOK
    <3>2. 1..lastAttachment \subseteq Attach!Ids
      BY UnstoredFinite, DeskAssumption DEF Attach!Ids, FileInv, Attach!TypeOK
    <3> QED
      BY <3>1, <3>2 DEF Attach!Stored
  <2> QED
    BY <2>1, <2>2
<1> QED
  BY <1>1 DEF Attach!RecentOf

(* A request that was not counted, or was counted before.                  *)
LEMMA FlightStays ==
  ASSUME FileInv, NEW r \in FileRequests, NEW s, Attach!Goes(r, s),
         \/ s.pc \notin {"move", "insert"}
         \/ fileReq[r].pc \in {"move", "insert"} /\ s.user = fileReq[r].user,
         NEW u
  PROVE  InFlight(u)' \subseteq InFlight(u)
<1>1. /\ fileReq'[r] = s
      /\ \A q \in FileRequests \ {r} : fileReq'[q] = fileReq[q]
  BY DEF FileInv, Attach!TypeOK, Attach!Goes
<1> QED
  BY <1>1 DEF InFlight

LEMMA FlightOfOthers ==
  ASSUME FileInv, NEW r \in FileRequests, NEW s, Attach!Goes(r, s),
         NEW u, s.user # u, fileReq[r].user # u \/ fileReq[r].pc = "idle"
  PROVE  InFlight(u)' \subseteq InFlight(u)
<1>1. /\ fileReq'[r] = s
      /\ \A q \in FileRequests \ {r} : fileReq'[q] = fileReq[q]
  BY DEF FileInv, Attach!TypeOK, Attach!Goes
<1> QED
  BY <1>1 DEF InFlight

(* What comes by the customers' pages counts for a reporter.               *)
LEMMA CustomersCounted ==
  ASSUME FileInv, LimitInv, FileInv', Attach!TicketsMove, NEW r \in FileRequests,
         NEW t \in Ids, Attach!AttachUploadedFile(r, ReporterOf'[t], t)
  PROVE  LimitInv'
<1>1. PICK s : /\ s = [Attach!Idle EXCEPT !.pc = "move", !.via = "customer",
                                          !.user = ReporterOf'[t], !.ticket = t]
               /\ Attach!Goes(r, s)
               /\ fileReq[r].pc = "idle"
               /\ UNCHANGED <<attachments, lastAttachment, recent>>
  BY DEF Attach!AttachUploadedFile, Attach!Begin
<1>2. s.user = ReporterOf'[t]
  BY <1>1 DEF Attach!Idle
<1>3. ASSUME NEW u \in People, NeverRaised(u)'
      PROVE  InFlight(u)' \subseteq InFlight(u)
  <2>1. s.user # u
    BY <1>2, <1>3 DEF NeverRaised
  <2> QED
    BY <1>1, <2>1, FlightOfOthers
<1> QED
  BY <1>1, <1>3, LimitStays, RecentStays

(* An upload is counted: fewer than the limit were stored, and no more are *)
(* under way than there are requests.                                      *)
LEMMA CountedOnce ==
  ASSUME FileInv, LimitInv, FileInv', Attach!TicketsMove, NEW r \in FileRequests,
         Attach!CountUploads(r)
  PROVE  LimitInv'
<1>1. UNCHANGED <<attachments, lastAttachment, recent>> /\ fileReq[r].pc = "count"
  BY DEF Attach!CountUploads
<1>2. CASE Attach!Ends(r)
  <2>1. PICK s : s = Attach!Idle /\ Attach!Goes(r, s)
    BY <1>2 DEF Attach!Ends
  <2> QED
    BY <1>1, <2>1, IdleFits, FlightStays, RecentStays, LimitStays
<1>3. CASE ~ Attach!Limited(r) /\ Attach!Step(r, "move")
  <2>1. PICK s : s = [fileReq[r] EXCEPT !.pc = "move"] /\ Attach!Goes(r, s)
    BY <1>3 DEF Attach!Step
  <2>2. s.user = fileReq[r].user
    BY <2>1, StepState
  <2> SUFFICES ASSUME NEW u \in People, NeverRaised(u)'
               PROVE  Cardinality(Attach!RecentOf(u)') + Cardinality(InFlight(u)')
                        <= Most + Cardinality(FileRequests) - 1
    BY DEF LimitInv, Most
  <2>3. Attach!RecentOf(u)' = Attach!RecentOf(u)
    BY <1>1 DEF Attach!RecentOf, Attach!Stored
  <2>4. CASE u = s.user
    <3>1. Cardinality(Attach!RecentOf(u)) < Most
      <4>1. PICK limit : limit = Attach!Limit(fileReq[r].via)
        OBVIOUS
      <4>2. limit \in {ApiLimit, StaffLimit}
        BY <4>1, Zenon DEF Attach!Limit
      <4>4. limit \in Nat /\ limit <= Most
        BY <4>2, DeskAssumption DEF Most
      <4>3. ~ Cardinality(Attach!RecentOf(u)) >= limit
        BY <1>3, <2>2, <2>4, <4>1, SameCount DEF Attach!Limited
      <4> QED
        BY <4>3, <4>4, CountsFinite
    <3>2. InFlight(u)' \subseteq FileRequests
      BY DEF InFlight
    <3>3. /\ Cardinality(InFlight(u)') \in Nat
          /\ Cardinality(InFlight(u)') <= Cardinality(FileRequests)
      BY <3>2, DeskAssumption, FS_Subset, FS_CardinalityType
    <3> QED
      BY <2>3, <3>1, <3>3, CountsFinite
  <2>5. CASE u # s.user
    <3>1. InFlight(u)' \subseteq InFlight(u)
      BY <2>1, <2>2, <2>5, FlightOfOthers
    <3>2. /\ Cardinality(InFlight(u)') \in Nat
          /\ Cardinality(InFlight(u)') <= Cardinality(InFlight(u))
      BY <3>1, CountsFinite, FS_Subset, FS_CardinalityType
    <3>3. Cardinality(Attach!RecentOf(u)) + Cardinality(InFlight(u))
            <= Most + Cardinality(FileRequests) - 1
      BY NeverBefore DEF LimitInv
    <3> QED
      BY <2>3, <3>2, <3>3, CountsFinite
  <2> QED
    BY <2>4, <2>5
<1> QED
  BY <1>2, <1>3 DEF Attach!CountUploads

(* An upload is stored, and is no longer under way.                        *)
LEMMA StoredOnce ==
  ASSUME FileInv, LimitInv, FileInv', Attach!TicketsMove, NEW r \in FileRequests,
         Attach!Insert(r)
  PROVE  LimitInv'
<1>1. PICK n : n = lastAttachment + 1
  OBVIOUS
<1>2. PICK row : row = [ticket |-> fileReq[r].ticket, file |-> fileReq[r].file,
                        ref |-> fileReq[r].ref, user |-> fileReq[r].user]
  OBVIOUS
<1>3. /\ lastAttachment' = n /\ attachments' = [attachments EXCEPT ![n] = row]
      /\ recent' = recent \cup {n} /\ fileReq[r].pc = "insert"
      /\ row.user = fileReq[r].user
      /\ Attach!Goes(r, Attach!Idle)
  BY <1>1, <1>2 DEF Attach!Insert, Attach!Ends
<1>4. /\ fileReq'[r] = Attach!Idle
      /\ \A q \in FileRequests \ {r} : fileReq'[q] = fileReq[q]
  BY <1>3 DEF FileInv, Attach!TypeOK, Attach!Goes
<1>5. /\ n \notin recent /\ n \in Attach!Ids
      /\ attachments \in [Attach!Ids -> Attach!Rows \cup {NoRow}]
      /\ recent \subseteq 1..lastAttachment /\ lastAttachment \in Nat
  BY <1>1, <1>3, UnstoredFinite, DeskAssumption DEF FileInv, Attach!TypeOK, Attach!Ids
<1>6. /\ \A a \in Attach!Ids \ {n} : attachments'[a] = attachments[a]
      /\ attachments'[n] = row
      /\ 1..lastAttachment \subseteq Attach!Ids \ {n}
  BY <1>1, <1>3, <1>5, UnstoredFinite, DeskAssumption
     DEF FileInv, Attach!TypeOK, Attach!Ids
<1> SUFFICES ASSUME NEW u \in People, NeverRaised(u)'
             PROVE  Cardinality(Attach!RecentOf(u)') + Cardinality(InFlight(u)')
                      <= Most + Cardinality(FileRequests) - 1
  BY DEF LimitInv, Most
<1>7. Cardinality(Attach!RecentOf(u)) + Cardinality(InFlight(u))
        <= Most + Cardinality(FileRequests) - 1
  BY NeverBefore DEF LimitInv
<1>8. CASE u = fileReq[r].user
  <2>1. InFlight(u)' = InFlight(u) \ {r} /\ r \in InFlight(u)
    BY <1>3, <1>4, <1>8, IdleFits DEF InFlight
  <2>2. Cardinality(InFlight(u)') = Cardinality(InFlight(u)) - 1
    BY <2>1, CountsFinite, FS_RemoveElement, ZenonT(60)
  <2>3. Attach!RecentOf(u)' \subseteq Attach!RecentOf(u) \cup {n}
    BY <1>3, <1>5, <1>6 DEF Attach!RecentOf, Attach!Stored
  <2>4. n \notin Attach!RecentOf(u)
    BY <1>5 DEF Attach!RecentOf
  <2>5. /\ IsFiniteSet(Attach!RecentOf(u) \cup {n})
        /\ Cardinality(Attach!RecentOf(u) \cup {n}) = Cardinality(Attach!RecentOf(u)) + 1
    BY <2>4, CountsFinite, FS_AddElement
  <2>6. /\ Cardinality(Attach!RecentOf(u)') \in Nat
        /\ Cardinality(Attach!RecentOf(u)') <= Cardinality(Attach!RecentOf(u)) + 1
    BY <2>3, <2>5, CountsFinite, FS_Subset, FS_CardinalityType
  <2> QED
    BY <1>7, <2>2, <2>6, CountsFinite
<1>9. CASE u # fileReq[r].user
  <2>1. InFlight(u)' \subseteq InFlight(u)
    BY <1>4, <1>9, IdleFits DEF InFlight
  <2>2. Attach!RecentOf(u)' \subseteq Attach!RecentOf(u)
    BY <1>3, <1>5, <1>6, <1>9 DEF Attach!RecentOf, Attach!Stored
  <2>3. /\ Cardinality(Attach!RecentOf(u)') \in Nat
        /\ Cardinality(Attach!RecentOf(u)') <= Cardinality(Attach!RecentOf(u))
        /\ Cardinality(InFlight(u)') \in Nat
        /\ Cardinality(InFlight(u)') <= Cardinality(InFlight(u))
    BY <2>1, <2>2, CountsFinite, FS_Subset, FS_CardinalityType
  <2> QED
    BY <1>7, <2>3, CountsFinite
<1> QED
  BY <1>8, <1>9

LEMMA LimitNext ==
  ASSUME FileInv, LimitInv, [Attach!Next]_Attach!vars
  PROVE  LimitInv'
<1>0. FileInv'
  BY FilesNext
<1>1. ASSUME UNCHANGED <<attachments, lastAttachment, fileReq>>,
             recent' \subseteq recent, Attach!TicketsMove
      PROVE  LimitInv'
  <2>1. \A u \in People : InFlight(u)' = InFlight(u)
    BY <1>1 DEF InFlight
  <2> QED
    BY <1>0, <1>1, <2>1, RecentStays, LimitStays
<1>2. ASSUME NEW r \in FileRequests, Attach!Handle(r), UNCHANGED Attach!ticketVars
      PROVE  LimitInv'
  <2>1. Attach!TicketsMove /\ fileReq[r] \in Attach!RequestStates
    BY <1>2, TicketsStand DEF FileInv, Attach!TypeOK
  <2>2. ASSUME NEW s, Attach!Goes(r, s), s.pc \notin {"move", "insert"},
               UNCHANGED <<lastAttachment, recent>>,
               UNCHANGED attachments \/ Attach!DeleteRow(r)
        PROVE  LimitInv'
    BY <1>0, <2>1, <2>2, FlightStays, RecentStays, LimitStays
  <2>3. ASSUME Attach!Ends(r), UNCHANGED <<attachments, lastAttachment, recent>>
        PROVE  LimitInv'
    BY <2>2, <2>3, IdleFits DEF Attach!Ends
  <2>4. ASSUME NEW pc \in {"count", "unlink", "again", "remove"}, Attach!Step(r, pc),
               UNCHANGED <<lastAttachment, recent>>,
               UNCHANGED attachments \/ Attach!DeleteRow(r)
        PROVE  LimitInv'
    <3>1. PICK s : s = [fileReq[r] EXCEPT !.pc = pc]
      OBVIOUS
    <3>2. s.pc = pc
      BY <3>1, StepState
    <3> QED
      BY <2>2, <2>4, <3>1, <3>2 DEF Attach!Step
  <2>5. CASE Attach!UploadApi(r) \/ Attach!UploadStaff(r)
    <3>1. PICK s : /\ Attach!Goes(r, s) /\ s.pc \in {"find", "count"}
                   /\ UNCHANGED <<attachments, lastAttachment, recent>>
      BY <2>5 DEF Attach!UploadApi, Attach!UploadStaff, Attach!Begin, Attach!Idle
    <3> QED
      BY <2>2, <3>1
  <2>6. CASE Attach!DeleteApi(r) \/ Attach!DeleteStaff(r)
    <3>1. PICK s : /\ Attach!Goes(r, s) /\ s.pc = "pick"
                   /\ UNCHANGED <<attachments, lastAttachment, recent>>
      BY <2>6 DEF Attach!DeleteApi, Attach!DeleteStaff, Attach!Begin, Attach!Idle
    <3> QED
      BY <2>2, <3>1
  <2>7. CASE Attach!UploadCustomer(r)
    <3>1. PICK t \in Found : Attach!AttachUploadedFile(r, ReporterOf[t], t)
      BY <2>7 DEF Attach!UploadCustomer
    <3>2. t \in Ids /\ ReporterOf' = ReporterOf
      BY <1>2 DEF FileInv, Attach!TypeOK, Attach!ticketVars
    <3> QED
      BY <1>0, <2>1, <3>1, <3>2, CustomersCounted
  <2>8. CASE Attach!FindRef(r) \/ Attach!InsertRefused(r) \/ Attach!FindAgain(r)
    BY <2>3, <2>4, <2>8
       DEF Attach!FindRef, Attach!InsertRefused, Attach!FindAgain
  <2>9. CASE Attach!CountUploads(r)
    BY <1>0, <2>1, <2>9, CountedOnce
  <2>10. CASE Attach!MoveTo(r)
    <3>1. PICK s : /\ s = [fileReq[r] EXCEPT !.pc = "insert", !.file = named']
                   /\ Attach!Goes(r, s)
      BY <2>10 DEF Attach!MoveTo
    <3>2. s.user = fileReq[r].user /\ fileReq[r].pc = "move"
      BY <2>1, <2>10, <3>1 DEF Attach!MoveTo, Attach!RequestStates
    <3>3. UNCHANGED <<attachments, lastAttachment, recent>>
      BY <2>10 DEF Attach!MoveTo
    <3> QED
      BY <1>0, <2>1, <3>1, <3>2, <3>3, FlightStays, RecentStays, LimitStays
  <2>11. CASE Attach!MoveFails(r) \/ Attach!InsertFails(r) \/ Attach!DeleteFails(r)
              \/ Attach!Die(r)
    BY <2>3, <2>4, <2>11
       DEF Attach!MoveFails, Attach!InsertFails, Attach!DeleteFails, Attach!Die
  <2>12. CASE Attach!Insert(r)
    BY <1>0, <2>1, <2>12, StoredOnce
  <2>13. CASE Attach!Unlink(r) \/ Attach!RemoveFile(r)
    BY <2>3, <2>4, <2>13 DEF Attach!Unlink, Attach!RemoveFile
  <2>14. CASE Attach!PickAttachment(r)
    <3>1. PICK s : /\ Attach!Goes(r, s) /\ s.pc \in {"delete", "idle"}
                   /\ UNCHANGED <<attachments, lastAttachment, recent>>
      BY <2>1, <2>14, IdleFits
         DEF Attach!PickAttachment, Attach!Ends, Attach!RequestStates
    <3> QED
      BY <2>2, <3>1
  <2>15. CASE Attach!DeleteRow(r)
    <3>1. Attach!Step(r, "remove") /\ UNCHANGED <<lastAttachment, recent>>
      BY <2>15 DEF Attach!DeleteRow
    <3> QED
      BY <2>4, <2>15, <3>1
  <2> QED
    BY <1>2, <2>5, <2>6, <2>7, <2>8, <2>9, <2>10, <2>11, <2>12, <2>13, <2>14, <2>15
       DEF Attach!Handle
<1>3. ASSUME Attach!Ages, UNCHANGED Attach!ticketVars
      PROVE  LimitInv'
  <2>1. Attach!TicketsMove
    BY <1>3, TicketsStand DEF FileInv
  <2>2. recent' \subseteq recent
    BY <1>3 DEF Attach!Ages
  <2> QED
    BY <1>1, <1>3, <2>1, <2>2 DEF Attach!Ages
<1>4. ASSUME NEW r \in FileRequests, Attach!CreateWithFile(r)
      PROVE  LimitInv'
  <2>1. PICK t \in Found' : Attach!AttachUploadedFile(r, ReporterOf'[t], t)
    BY <1>4 DEF Attach!CreateWithFile
  <2>2. Attach!TicketsMove /\ t \in Ids
    BY <1>4 DEF Attach!CreateWithFile, Attach!TicketsMove
  <2> QED
    BY <1>0, <2>1, <2>2, CustomersCounted
<1>5. CASE UNCHANGED Attach!vars
  <2>1. UNCHANGED Attach!fileVars /\ Attach!TicketsMove
    BY <1>5, TicketsStand DEF FileInv, Attach!vars
  <2> QED
    BY <1>1, <2>1 DEF Attach!fileVars
<1> QED
  BY <1>1, <1>2, <1>3, <1>4, <1>5 DEF Attach!Next, Attach!fileVars

LEMMA LimitInit ==
  ASSUME Attach!Init, FileInv
  PROVE  LimitInv
<1> SUFFICES ASSUME NEW u \in People
             PROVE  Cardinality(Attach!RecentOf(u)) + Cardinality(InFlight(u))
                      <= Most + Cardinality(FileRequests) - 1
  BY DEF LimitInv
<1>1. Attach!RecentOf(u) = {} /\ InFlight(u) = {}
  BY IdleFits DEF Attach!Init, Attach!RecentOf, InFlight
<1>2. Cardinality(Attach!RecentOf(u)) = 0 /\ Cardinality(InFlight(u)) = 0
  BY <1>1, FS_EmptySet
<1> QED
  BY <1>2, CountsFinite

(* Nobody gets past a limit by more than what was under way at once.       *)
THEOREM LimitInvariance == Attach!Spec => []LimitInv
<1>1. Attach!Init => FileInv /\ LimitInv
  BY FilesInit, LimitInit
<1>2. FileInv /\ LimitInv /\ [Attach!Next]_Attach!vars => FileInv' /\ LimitInv'
  BY FilesNext, LimitNext
<1> QED
  BY <1>1, <1>2, PTL DEF Attach!Spec

LEMMA LimitHolds ==
  ASSUME FileInv, LimitInv
  PROVE  Attach!LimitKept
<1> SUFFICES ASSUME NEW u \in People, NeverRaised(u)
             PROVE  Cardinality(Attach!RecentOf(u))
                      <= Most + Cardinality(FileRequests) - 1
  BY SameCount DEF Attach!LimitKept, NeverRaised, Most
<1>1. Cardinality(Attach!RecentOf(u)) + Cardinality(InFlight(u))
        <= Most + Cardinality(FileRequests) - 1
  BY DEF LimitInv
<1> QED
  BY <1>1, CountsFinite

-----------------------------------------------------------------------------
(* The desk: what the files suppose of the tickets is what the tickets do. *)

DeskInv == IInv /\ ReportersHeld

(* Who raised a ticket is known of those that are raised.                  *)
TicketsFit ==
  /\ issued \in Nat /\ 1..issued \subseteq Ids
  /\ ReporterOf \in [Ids -> People \cup {NoOne}]
  /\ \A t \in 1..issued :
       ReporterOf[t] = tickets[t].reporter /\ ReporterOf[t] # NoOne
  /\ \A t \in Ids : ReporterOf[t] # NoOne => t \in 1..issued
  /\ Found \subseteq {t \in Ids : ReporterOf[t] # NoOne}
  /\ ClosedTickets \subseteq Ids

LEMMA TicketsSeen == IInv => TicketsFit
<1> SUFFICES ASSUME IInv
             PROVE  TicketsFit
  OBVIOUS
<1>1. issued \in Nat /\ MaxTickets \in Nat /\ issued <= MaxTickets
  BY TicketsAssumption DEF IInv, TypeOK
<1>2. 1..issued \subseteq Ids
  BY <1>1 DEF Ids
<1>3. \A t \in 1..issued : tickets[t].reporter \in People
  BY RowOf DEF IInv, Rows
<1>4. \A t \in 1..issued : ReporterOf[t] = tickets[t].reporter /\ ReporterOf[t] # NoOne
  BY <1>2, <1>3, TicketsAssumption DEF ReporterOf
<1>5. ReporterOf \in [Ids -> People \cup {NoOne}]
  BY <1>3 DEF ReporterOf
<1>6. \A t \in Ids : ReporterOf[t] # NoOne => t \in 1..issued
  BY DEF ReporterOf
<1>7. Found \subseteq {t \in Ids : ReporterOf[t] # NoOne} /\ ClosedTickets \subseteq Ids
  BY <1>2, <1>4 DEF Found, ClosedTickets
<1> QED
  BY <1>1, <1>2, <1>4, <1>5, <1>6, <1>7 DEF TicketsFit

LEMMA TicketsSeenNext == IInv' => TicketsFit'
BY TicketsSeen, PTL

(* No save gives a ticket to another reporter, and none takes one back: an *)
(* object is only saved over the row of the ticket it was read from.       *)
LEMMA TicketsMoveOn ==
  ASSUME DeskInv, [Next]_vars
  PROVE  DeskInv' /\ Attach!TicketsMove
<1>1. IInv /\ IInv' /\ ReportersHeld /\ ReportersHeld'
  BY NextIInv, NextReportersHeld DEF DeskInv
<1>2. /\ issued <= issued'
      /\ \A t \in 1..issued : tickets'[t].reporter = tickets[t].reporter
  BY <1>1, ReportersStay
<1>3. \A t \in Ids : ReporterOf[t] # NoOne => ReporterOf'[t] = ReporterOf[t]
  BY <1>1, <1>2, TicketsSeen, TicketsSeenNext DEF TicketsFit
<1>4. /\ ReporterOf' \in [Ids -> People \cup {NoOne}]
      /\ Found' \subseteq {t \in Ids : ReporterOf'[t] # NoOne}
      /\ ClosedTickets' \subseteq Ids
  BY <1>1, TicketsSeenNext DEF TicketsFit
<1> QED
  BY <1>1, <1>3, <1>4 DEF DeskInv, Attach!TicketsMove

LEMMA DeskStarts ==
  ASSUME InitDesk
  PROVE  DeskInv /\ Attach!Init
<1>1. IInv
  BY InitIInv DEF InitDesk
<1>2. ReportersHeld
  BY DEF InitDesk, Init, Idle, ReportersHeld
<1> QED
  BY <1>1, <1>2 DEF InitDesk, DeskInv

LEMMA DeskSteps ==
  ASSUME DeskInv, [NextOfDesk]_deskVars
  PROVE  DeskInv' /\ [Attach!Next]_Attach!vars /\ [Next]_vars
<1>1. ASSUME [Next]_vars, UNCHANGED fileVars
      PROVE  DeskInv' /\ [Attach!Next]_Attach!vars
  BY <1>1, TicketsMoveOn DEF fileVars, Attach!fileVars, Attach!Next
<1>2. CASE TicketStep
  BY <1>1, <1>2 DEF TicketStep
<1>3. CASE FileStep
  <2>1. UNCHANGED vars /\ UNCHANGED Attach!ticketVars
    BY <1>3 DEF FileStep, vars, Attach!ticketVars, ReporterOf, Found, ClosedTickets
  <2>2. DeskInv'
    BY <2>1, TicketsMoveOn
  <2> QED
    BY <1>3, <2>1, <2>2 DEF FileStep, Attach!Next
<1>4. ASSUME NEW r \in Requests, NEW q \in FileRequests, CreateWithFile(r, q)
      PROVE  DeskInv' /\ [Attach!Next]_Attach!vars /\ Next
  <2>1. Next
    BY <1>4 DEF CreateWithFile, Next, Handle
  <2>2. DeskInv' /\ Attach!TicketsMove
    BY <2>1, TicketsMoveOn
  <2>3. /\ issued' = issued + 1 /\ issued + 1 \in Ids
        /\ issued + 1 \in Found'
    <3>1. /\ issued \in Nat /\ issued < MaxTickets /\ issued' = issued + 1
          /\ tickets \in [Ids -> Rows \cup {NoRow}]
      BY <1>4, TicketsSeen
         DEF TicketsFit, DeskInv, IInv, TypeOK, CreateWithFile, CreateCustomer, Creates
    <3>2. PICK p, assignee, token :
            tickets' = [tickets EXCEPT ![issued + 1] = NewTicket(p, assignee, token)]
      BY <1>4 DEF CreateWithFile, CreateCustomer, Creates
    <3>3. issued + 1 \in Ids /\ issued + 1 \in 1..issued'
      BY <3>1, TicketsAssumption DEF Ids
    <3>4. ~ tickets'[issued + 1].deleted_at
      BY <3>1, <3>2, <3>3 DEF NewTicket
    <3> QED
      BY <3>1, <3>3, <3>4 DEF Found
  <2>4. ReporterOf'[issued'] = tickets'[issued'].reporter
    BY <2>2, <2>3, TicketsSeenNext DEF DeskInv, TicketsFit, Found
  <2>5. Attach!AttachUploadedFile(q, ReporterOf'[issued + 1], issued + 1)
    BY <1>4, <2>3, <2>4 DEF CreateWithFile
  <2>6. Attach!CreateWithFile(q)
    BY <2>2, <2>3, <2>5 DEF Attach!CreateWithFile
  <2> QED
    BY <1>4, <2>1, <2>2, <2>6 DEF Attach!Next
<1>5. CASE UNCHANGED deskVars
  <2>1. UNCHANGED vars /\ UNCHANGED fileVars
    BY <1>5 DEF deskVars
  <2> QED
    BY <1>1, <2>1
<1> QED
  BY <1>1, <1>2, <1>3, <1>4, <1>5 DEF NextOfDesk, TicketStep, FileStep

(* The files are handled at the desk as they are in TicketAttachments.     *)
THEOREM DeskAttaches == SpecOfDesk => Attach!Spec
<1>1. InitDesk => DeskInv /\ Attach!Init
  BY DeskStarts
<1>2. DeskInv /\ [NextOfDesk]_deskVars => DeskInv' /\ [Attach!Next]_Attach!vars
  BY DeskSteps
<1> QED
  BY <1>1, <1>2, PTL DEF SpecOfDesk, Attach!Spec

(* And the tickets as in TicketTriage: what is proved of them above is     *)
(* true of the desk.                                                       *)
THEOREM DeskTriages == SpecOfDesk => Spec
<1>1. InitDesk => DeskInv /\ Init
  BY DeskStarts DEF InitDesk
<1>2. DeskInv /\ [NextOfDesk]_deskVars => DeskInv' /\ [Next]_vars
  BY DeskSteps
<1> QED
  BY <1>1, <1>2, PTL DEF SpecOfDesk, Spec

(* The rows and the files are of the ids and names given out, an           *)
(* external_ref is used once per ticket, and no two rows share a file.     *)
THEOREM AttachmentTypes == SpecOfDesk => []Attach!TypeOK
BY DeskAttaches, FilesInvariance, PTL DEF FileInv

(* No row is ever stored before its file, or kept after it, whoever else   *)
(* removes the attachment and wherever a process dies                      *)
(* (uploadAttachmentAction(), deleteAttachmentAction()).                   *)
THEOREM ListedCanBeDownloaded == SpecOfDesk => []RowsHaveFiles
BY DeskAttaches, FilesInvariance, PTL DEF FileInv, RowsHaveFiles

(* Neither the loser of a race for an external_ref nor a removal leaves a  *)
(* file behind, unless a failure cut it short: also when the ticket is     *)
(* deleted meanwhile.                                                      *)
THEOREM NoFileIsForgotten == SpecOfDesk => []NothingLeftBehind
BY DeskAttaches, FilesInvariance, PTL DEF FileInv, NothingLeftBehind

(* An attachment is of the staff or of the reporter of its ticket, for as  *)
(* long as it is there: the ticket was found before the file was stored,   *)
(* and no save of the ticket in between or since changed its reporter.     *)
THEOREM OnlyPartiesAttach == SpecOfDesk => []AttachedByParties
BY DeskAttaches, FilesInvariance, PTL DEF FileInv, AttachedByParties

(* Checked and then stored without a transaction, a limit is still passed  *)
(* by no more than the uploads under way at once, less one                 *)
(* (isApiUploadRateLimited(), isUploadRateLimited()).                      *)
THEOREM LimitsAreKept == SpecOfDesk => []LimitKept
BY DeskAttaches, FilesInvariance, LimitInvariance, LimitHolds, PTL DEF LimitKept
=============================================================================
