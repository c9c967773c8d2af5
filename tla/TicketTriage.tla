---------------------------- MODULE TicketTriage ----------------------------
(***************************************************************************)
(* Tickets: what the API (Api\TicketsController), the staff screens        *)
(* (Backend\TicketsController with TicketTriageActions and                 *)
(* TicketMessageActions), the customers' pages (Frontend\TicketsController)*)
(* and the public intake form (PublicIntakeController) do to a ticket's    *)
(* row and to its conversation.                                            *)
(*                                                                         *)
(* Every handler loads the ticket, changes the object and saves it later,  *)
(* and save() writes all the columns of the object; `stale` remembers the  *)
(* tickets that were written from an object older than the row.  Requests  *)
(* interleave at every query.  A time stamp is abstracted to whether it is *)
(* set; title, severity, type, notes and the results of retests are left   *)
(* out.  So are the requests that are turned away, for their arguments or  *)
(* for the role that their handler asks for before it touches a ticket,    *)
(* and reversals from the audit log, which write rows by SQL of their own. *)
(***************************************************************************)
EXTENDS Naturals

CONSTANTS
  People,
  Staff,        \* admin or operator
  Agents,       \* users with the agent role
  Reporters,    \* those who raise tickets
  GameAssignee, \* who gets the tickets of the game stream; NoOne if the rule is off
  NoOne,        \* SQL NULL for a user
  Refs,         \* the external_ref of messages
  NoRef,        \* SQL NULL in external_ref
  NoRow,        \* an id that tickets has not given out
  NoMessage,    \* a request that stores no message
  Initial,      \* the tickets stored to begin with: a sequence of rows
  Requests,
  Kinds,        \* the kinds of request made
  MaxTickets,   \* bound: tickets
  MaxRequests,  \* bound: requests made
  MaxFaults     \* bound: processes that die, saves that fail

AllKinds == {"create", "retestPass", "retestFail", "close", "claim", "reply",
             "clientReply", "assign", "consolidate", "reopen",
             "qaConfirmed", "qaReopened", "edit", "delete", "intake"}

Statuses == {"open", "in_review", "closed", "consolidated"}
Reasons == {"none", "manual", "auto_retest", "given"}
Ids == 1..MaxTickets

Rows ==
  [status: Statuses, reporter: People, assigned_to: People \cup {NoOne},
   consolidated_into: {0} \cup Ids, closed_at: BOOLEAN,
   auto_closed_at: BOOLEAN, close_reason: Reasons, qa_reviewed_at: BOOLEAN,
   intake_token: BOOLEAN, deleted_at: BOOLEAN]

(* What the columns of a close say of a row's status.                      *)
Tells(row) ==
  /\ row.status = "open" =>
       ~ row.closed_at /\ ~ row.auto_closed_at /\ row.close_reason = "none"
  /\ row.status = "closed" => row.closed_at /\ row.close_reason # "none"
  /\ row.auto_closed_at => row.closed_at

(* No handler asks whether a message is public or internal, or what it     *)
(* says, before it changes the ticket.                                     *)
Messages == [ticket: Ids, author: People, ref: Refs \cup {NoRef}]

ASSUME TicketsAssumption ==
  /\ Staff \subseteq People /\ Agents \subseteq People /\ Reporters \subseteq People
  /\ NoOne \notin People /\ GameAssignee \in People \cup {NoOne}
  /\ NoRef \notin Refs /\ NoRow \notin Rows
  /\ NoMessage \notin Messages
  /\ MaxTickets \in Nat /\ MaxRequests \in Nat /\ MaxFaults \in Nat
  /\ Initial \in [DOMAIN Initial -> Rows]
  /\ \E n \in 0..MaxTickets : DOMAIN Initial = 1..n
  /\ \A t \in DOMAIN Initial :   \* rows that the handlers may have left
       /\ Tells(Initial[t])
       /\ Initial[t].consolidated_into \in ({0} \cup DOMAIN Initial) \ {t}
  /\ Kinds \subseteq AllKinds

VARIABLES
  tickets,      \* per id, its row
  issued,       \* the last id given out
  messages,     \* the rows of ticket_messages
  req,          \* per request, its local state
  stale,        \* history: tickets saved from an object older than the row
  unheard,      \* history: tickets found closed by a client's message and not reopened since
  cut,          \* history: tickets whose save did not follow the message
  requests, faults

vars == <<tickets, issued, messages, req, stale, unheard, cut, requests, faults>>

(* loaded: the objects as they were read; object: as they are to be saved; *)
(* todo: those not saved yet; message: the one to be stored first.         *)
RequestStates ==
  [pc: {"idle", "lookup", "insert", "save"}, kind: AllKinds,
   loaded: [Ids -> Rows \cup {NoRow}], object: [Ids -> Rows \cup {NoRow}],
   todo: SUBSET Ids, message: Messages \cup {NoMessage}]

NothingLoaded == [t \in Ids |-> NoRow]

Idle ==
  [pc |-> "idle", kind |-> "create",
   loaded |-> NothingLoaded, object |-> NothingLoaded, todo |-> {},
   message |-> NoMessage]

(* A ticket is not consolidated into itself.                               *)
TypeOK ==
  /\ issued \in 0..MaxTickets
  /\ tickets \in [Ids -> Rows \cup {NoRow}]
  /\ \A t \in Ids :
       /\ tickets[t] = NoRow <=> t > issued
       /\ tickets[t] # NoRow => tickets[t].consolidated_into \in 0..issued \ {t}
  /\ messages \subseteq Messages
  /\ req \in [Requests -> RequestStates]
  /\ \A r \in Requests :
       /\ req[r].todo \subseteq {t \in 1..issued : req[r].object[t] # NoRow}
       /\ req[r].pc = "idle" <=> req[r].todo = {}
       /\ req[r].pc \in {"lookup", "insert"} => req[r].message # NoMessage
  /\ stale \in SUBSET Ids /\ unheard \in SUBSET Ids /\ cut \in SUBSET Ids
  /\ requests \in 0..MaxRequests
  /\ faults \in 0..MaxFaults

Init ==
  /\ \E n \in 0..MaxTickets : DOMAIN Initial = 1..n /\ issued = n
  /\ tickets = [t \in Ids |-> IF t \in DOMAIN Initial THEN Initial[t] ELSE NoRow]
  /\ messages = {}
  /\ req = [r \in Requests |-> Idle]
  /\ stale = {} /\ unheard = {} /\ cut = {}
  /\ requests = 0
  /\ faults = 0

-----------------------------------------------------------------------------
(* What the handlers do to the object.                                     *)

NewTicket(reporter, assignee, token) ==
  [status |-> "open", reporter |-> reporter, assigned_to |-> assignee,
   consolidated_into |-> 0, closed_at |-> FALSE, auto_closed_at |-> FALSE,
   close_reason |-> "none", qa_reviewed_at |-> FALSE, intake_token |-> token,
   deleted_at |-> FALSE]

(* Mutant of Closed: a person's close replaces the automatic one.          *)
Closed_Manually(row, reason) ==
  [row EXCEPT !.status = "closed", !.closed_at = TRUE,
              !.auto_closed_at = FALSE, !.close_reason = reason]

Closed(row, reason) ==
  [row EXCEPT !.status = "closed", !.closed_at = TRUE, !.close_reason = reason]

(* retestResultAction(), result "pass".                                    *)
AutoClosed(row) ==
  [Closed(row, "auto_retest") EXCEPT !.auto_closed_at = TRUE]

(* Mutant of Reopened: why it was closed stays behind.                     *)
Reopened_KeepsReason(row) ==
  [row EXCEPT !.status = "open", !.closed_at = FALSE, !.auto_closed_at = FALSE]

Reopened(row) ==
  [row EXCEPT !.status = "open", !.closed_at = FALSE,
              !.auto_closed_at = FALSE, !.close_reason = "none"]

(* Mutant of FollowedUp: a client's message is kept like a staff reply.    *)
FollowedUp_AsReply(row) == row

(* createMessage() for the client that raised the ticket.                  *)
FollowedUp(row) == IF row.status = "closed" THEN Reopened(row) ELSE row

Reviewed(row) == [row EXCEPT !.qa_reviewed_at = TRUE]

-----------------------------------------------------------------------------
(* A request: the tickets are found, ...                                   *)

(* SoftDeletes: find() leaves out what was deleted.                        *)
Found == {t \in 1..issued : ~ tickets[t].deleted_at}

Goes(r, state) == req' = [req EXCEPT ![r] = state]

Starts(r, kind) ==
  /\ req[r].pc = "idle"
  /\ kind \in Kinds
  /\ requests < MaxRequests
  /\ requests' = requests + 1
  /\ UNCHANGED <<messages, stale, unheard, cut, faults>>

(* The objects are kept beside the rows they were made from.               *)
Loads(r, kind, new, pc, message) ==
  LET S == DOMAIN new IN
  /\ Starts(r, kind)
  /\ S # {}
  /\ Goes(r, [pc |-> pc, kind |-> kind,
              loaded |-> [t \in Ids |-> IF t \in S THEN tickets[t] ELSE NoRow],
              object |-> [t \in Ids |-> IF t \in S THEN new[t] ELSE NoRow],
              todo |-> S, message |-> message])
  /\ UNCHANGED <<tickets, issued>>

ChangesAll(r, kind, new) == Loads(r, kind, new, "save", NoMessage)

Changes(r, kind, t, row) == ChangesAll(r, kind, [u \in {t} |-> row])

(* createAction(): the assignee of the game stream is filled in by the     *)
(* model; only the API hands out a token for the intake form.              *)
Creates(r, tokens) ==
  /\ Starts(r, "create")
  /\ issued < MaxTickets
  /\ issued' = issued + 1
  /\ \E p \in Reporters, assignee \in {NoOne, GameAssignee}, token \in tokens :
       tickets' = [tickets EXCEPT ![issued + 1] = NewTicket(p, assignee, token)]
  /\ UNCHANGED req

CreateApi(r) == Creates(r, BOOLEAN)
CreateStaff(r) == Creates(r, {FALSE})
CreateCustomer(r) == Creates(r, {FALSE})

RetestResult(r) ==
  \E t \in Found :
    \/ Changes(r, "retestPass", t, AutoClosed(tickets[t]))
    \/ Changes(r, "retestFail", t, [tickets[t] EXCEPT !.status = "in_review"])

CloseApi(r) ==
  \E t \in Found : Changes(r, "close", t, Closed(tickets[t], "given"))

CloseStaff(r) ==
  \E t \in Found : Changes(r, "close", t, Closed(tickets[t], "manual"))

(* bulkAction(): the tickets are loaded together and saved one by one.     *)
BulkClose(r) ==
  \E S \in SUBSET Found :
    ChangesAll(r, "close", [t \in S |-> Closed(tickets[t], "manual")])

(* Mutant of MayClaim: whoever asks last gets it.                          *)
MayClaim_Always(p, row) == TRUE

MayClaim(p, row) == row.assigned_to \in {NoOne, p}

SelfAssign(r) ==
  \E p \in People, t \in Found :
    /\ MayClaim(p, tickets[t])
    /\ Changes(r, "claim", t, [tickets[t] EXCEPT !.assigned_to = p])

Assign(r) ==
  \E t \in Found, assignee \in People \ Agents :
    Changes(r, "assign", t, [tickets[t] EXCEPT !.assigned_to = assignee])

Target(t, target) == target \in Found \ {t}

Consolidate(r) ==
  \E t \in Found : \E target \in Ids :
    /\ Target(t, target)
    /\ Changes(r, "consolidate", t,
               [tickets[t] EXCEPT !.consolidated_into = target,
                                  !.status = "consolidated"])

ReopenStaff(r) == \E t \in Found : Changes(r, "reopen", t, Reopened(tickets[t]))
BulkReopen(r) ==
  \E S \in SUBSET Found :
    ChangesAll(r, "reopen", [t \in S |-> Reopened(tickets[t])])

QaReview(r) ==
  \E t \in Found :
    \/ Changes(r, "qaConfirmed", t, Reviewed(tickets[t]))
    \/ Changes(r, "qaReopened", t, Reopened(Reviewed(tickets[t])))

(* updateAction(), and the bulk change of severity or type: none of the    *)
(* columns modelled.                                                       *)
UpdateStaff(r) == \E t \in Found : Changes(r, "edit", t, tickets[t])

UpdateCustomer(r) ==
  \E t \in Found :
    /\ tickets[t].reporter \in Reporters
    /\ Changes(r, "edit", t, tickets[t])

BulkUpdate(r) ==
  \E S \in SUBSET Found : ChangesAll(r, "edit", [t \in S |-> tickets[t]])

Deleted(row) == [row EXCEPT !.deleted_at = TRUE]

DeleteStaff(r) == \E t \in Found : Changes(r, "delete", t, Deleted(tickets[t]))
BulkDelete(r) ==
  \E S \in SUBSET Found :
    ChangesAll(r, "delete", [t \in S |-> Deleted(tickets[t])])

(* PublicIntakeController: found by its token, which the save clears.      *)
Intake(r) ==
  \E t \in Found :
    /\ tickets[t].intake_token
    /\ Changes(r, "intake", t, [tickets[t] EXCEPT !.intake_token = FALSE])

(* A message with a reference is looked for first.                         *)
Writes(r, kind, p, t, refs, row) ==
  \E ref \in refs :
    Loads(r, kind, [u \in {t} |-> row], IF ref = NoRef THEN "insert" ELSE "lookup",
          [ticket |-> t, author |-> p, ref |-> ref])

(* Replies to the client and internal notes; the form has no reference.    *)
ReplyApi(r) ==
  \E p \in Staff, t \in Found :
    Writes(r, "reply", p, t, Refs \cup {NoRef}, tickets[t])

ReplyStaff(r) ==
  \E p \in Staff, t \in Found : Writes(r, "reply", p, t, {NoRef}, tickets[t])

ClientReply(r) ==
  \E p \in People, t \in Found :
    /\ tickets[t].reporter = p
    /\ Writes(r, "clientReply", p, t, Refs \cup {NoRef}, FollowedUp(tickets[t]))

-----------------------------------------------------------------------------
(* ... the message is stored, ...                                          *)

(* The message of the same ticket, author and reference: the unique key.   *)
Same(m, n) ==
  /\ m.ref # NoRef
  /\ <<m.ticket, m.author, m.ref>> = <<n.ticket, n.author, n.ref>>

(* A repeat is answered with the message stored before, or refused when it *)
(* says something else; the ticket is left as it is.                       *)
Lookup(r) ==
  /\ req[r].pc = "lookup"
  /\ Goes(r, IF \E m \in messages : Same(req[r].message, m) THEN Idle
             ELSE [req[r] EXCEPT !.pc = "insert"])
  /\ UNCHANGED <<tickets, issued, messages, stale, unheard, cut, requests, faults>>

Insert(r) ==
  /\ req[r].pc = "insert"
  /\ ~ \E m \in messages : Same(req[r].message, m)
  /\ messages' = messages \cup {req[r].message}
  /\ unheard' = IF req[r].kind = "clientReply"
                THEN unheard \cup {t \in req[r].todo : tickets[t].status = "closed"}
                ELSE unheard
  /\ Goes(r, [req[r] EXCEPT !.pc = "save"])
  /\ UNCHANGED <<tickets, issued, stale, cut, requests, faults>>

(* The unique key refuses the INSERT, which nothing catches.               *)
InsertFails(r) ==
  /\ req[r].pc = "insert"
  /\ \E m \in messages : Same(req[r].message, m)
  /\ Goes(r, Idle)
  /\ UNCHANGED <<tickets, issued, messages, stale, unheard, cut, requests, faults>>

-----------------------------------------------------------------------------
(* ... and the objects are saved.                                          *)

Done(r, t) ==
  Goes(r, IF req[r].todo = {t} THEN Idle
          ELSE [req[r] EXCEPT !.todo = @ \ {t}])

Save(r) ==
  /\ req[r].pc = "save"
  /\ \E t \in req[r].todo :
       /\ tickets' = [tickets EXCEPT ![t] = req[r].object[t]]
       /\ stale' = IF req[r].loaded[t] = tickets[t] THEN stale ELSE stale \cup {t}
       /\ unheard' = IF req[r].object[t].status # "closed"
                        \/ req[r].kind \in {"close", "retestPass"}
                     THEN unheard \ {t} ELSE unheard
       /\ Done(r, t)
  /\ UNCHANGED <<issued, messages, cut, requests, faults>>

(* The process dies, or a save() returns false and the next one is made.   *)
Unsaved(r) == IF req[r].kind = "clientReply" /\ req[r].pc = "save"
              THEN req[r].todo ELSE {}

Fault(r) ==
  /\ faults < MaxFaults
  /\ faults' = faults + 1
  /\ cut' = cut \cup Unsaved(r)
  /\ UNCHANGED <<tickets, issued, messages, stale, unheard, requests>>

Die(r) ==
  /\ req[r].pc # "idle"
  /\ Fault(r)
  /\ Goes(r, Idle)

SaveFails(r) ==
  /\ req[r].pc = "save"
  /\ Fault(r)
  /\ \E t \in req[r].todo : Done(r, t)

-----------------------------------------------------------------------------
Handle(r) ==
  \/ CreateApi(r) \/ CreateStaff(r) \/ CreateCustomer(r)
  \/ RetestResult(r) \/ CloseApi(r) \/ CloseStaff(r) \/ BulkClose(r)
  \/ SelfAssign(r) \/ Assign(r) \/ Consolidate(r)
  \/ ReopenStaff(r) \/ BulkReopen(r) \/ QaReview(r)
  \/ UpdateStaff(r) \/ UpdateCustomer(r) \/ BulkUpdate(r)
  \/ DeleteStaff(r) \/ BulkDelete(r) \/ Intake(r)
  \/ ReplyApi(r) \/ ReplyStaff(r) \/ ClientReply(r)
  \/ Lookup(r) \/ Insert(r) \/ InsertFails(r) \/ Save(r)
  \/ Die(r) \/ SaveFails(r)

Next == \E r \in Requests : Handle(r)

Spec == Init /\ [][Next]_vars

-----------------------------------------------------------------------------
(* The step saves ticket t for a request of one of these kinds.            *)
SavedBy(kinds, t) ==
  \E r \in Requests :
    /\ req[r].pc = "save" /\ req[r].kind \in kinds
    /\ t \in req[r].todo \ req'[r].todo

(* Whichever of the handlers closed, retested or reopened it last, an open *)
(* ticket keeps nothing of an earlier close, a closed one says when and    *)
(* why, and an automatic close is also a close (the same four columns are  *)
(* reset by hand in reopenAction(), qaReviewAction(), bulkAction() and     *)
(* createMessage()).                                                       *)
ClosedAtTells == \A t \in 1..issued : Tells(tickets[t])

(* The needs_qa filter of the staff's list, which find() looks for among   *)
(* the tickets that are not deleted.                                       *)
NeedsQa(row) == row.auto_closed_at /\ ~ row.qa_reviewed_at /\ ~ row.deleted_at

(* A ticket that a retest closed leaves the queue of those that nobody     *)
(* checked only by a review, by being reopened, by the staff or a client's *)
(* follow-up, or by being deleted, whatever else happens to it: a second   *)
(* close, a consolidation, an edit, a failing retest.  Only a save from an *)
(* older object may drop it (indexAction(), needs_qa).  Who deletes a      *)
(* ticket of the queue does so without a review.                           *)
LeavesQaForCause ==
  [][\A t \in 1..issued :
       NeedsQa(tickets[t]) /\ ~ NeedsQa(tickets'[t]) /\ t \notin stale' =>
         SavedBy({"qaConfirmed", "qaReopened", "reopen", "clientReply", "delete"},
                 t)]_vars

(* Nobody takes over a ticket that somebody has by claiming it ("won't     *)
(* steal a ticket already assigned to someone else", selfAssignAction()):  *)
(* its assignee is replaced by a person of the staff only, or by a save    *)
(* from an older object.                                                   *)
ClaimsDontSteal ==
  [][\A t \in 1..issued :
       tickets[t].assigned_to \notin {NoOne, tickets'[t].assigned_to} =>
         t \in stale' \/ SavedBy({"assign"}, t)]_vars

(* "A follow-up on a closed ticket reopens it": once the message is stored,*)
(* the request that stored it is about to reopen the ticket, or the ticket *)
(* was reopened or closed again since, unless that request was cut short   *)
(* between the two (clientReplyAction(), createMessage()).                 *)
FollowUpReopens ==
  \A t \in unheard \ cut :
    \E r \in Requests :
      /\ req[r].pc = "save" /\ req[r].kind = "clientReply"
      /\ t \in req[r].todo
=============================================================================
