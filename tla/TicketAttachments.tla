------------------------- MODULE TicketAttachments -------------------------
(***************************************************************************)
(* The files attached to tickets: a row of ticket_attachments and a file   *)
(* under storage/ticket-attachments/ each, stored and removed by the API   *)
(* (Api\TicketsController), the staff's screens (TicketAttachmentActions)  *)
(* and the customers' pages (Frontend\TicketsController).                  *)
(*                                                                         *)
(* No transaction covers a row and its file.  Requests interleave at every *)
(* query and every file operation, and a process may die in between.       *)
(* Types and sizes, and requests refused for them, are left out.  The      *)
(* window of a rate limit is the set of the rows younger than it.  An      *)
(* INSERT that fails has stored no row, and unlink() does not fail.        *)
(*                                                                         *)
(* Of the tickets it is known here who raised each, which are found and    *)
(* which are closed; TicketDesk composes this module with TicketTriage,    *)
(* where the tickets themselves are.                                       *)
(***************************************************************************)
EXTENDS Naturals, FiniteSets

CONSTANTS
  Tickets,
  Users,
  Staff,        \* admin or operator
  NoTicket,     \* the ticket of a process that handles no request
  NoUser,       \* its user; the reporter of a ticket that is not raised yet
  Refs,         \* the external_ref of uploads over the API
  NoRef,        \* SQL NULL in external_ref
  NoRow,        \* no such row
  ApiLimit,     \* UPLOAD_RATE_LIMIT_MAX of the API
  StaffLimit,   \* UPLOAD_RATE_LIMIT_MAX of the staff's screens
  Requests,
  MaxUploads,   \* bound: files written
  MaxRequests,  \* bound: requests made
  MaxFaults     \* bound: processes that die, operations that fail

Ids == 1..MaxUploads
Files == 1..MaxUploads
Rows == [ticket: Tickets, file: Files, ref: Refs \cup {NoRef}, user: Users]

VARIABLES
  attachments,  \* per id, its row
  issued,       \* the last id given out
  files,        \* the names of the files on disk
  named,        \* the last name drawn
  recent,       \* the ids of rows younger than the window of the limits
  reporter,     \* per ticket, who raised it
  found,        \* the tickets that are raised and not deleted
  closed,       \* the tickets whose status is closed
  req,          \* per request, its local state
  leaked,       \* history: files that a failure left behind
  requests, faults

fileVars == <<attachments, issued, files, named, recent, req, leaked,
              requests, faults>>
ticketVars == <<reporter, found, closed>>
vars == <<fileVars, ticketVars>>

(* via: the door the request came by; id, file: the attachment it stores   *)
(* or removes; found_closed: the status it loaded with the ticket.         *)
RequestStates ==
  [pc: {"idle", "find", "count", "move", "insert", "unlink", "again",
        "pick", "delete", "remove"},
   via: {"api", "staff", "customer"}, user: Users \cup {NoUser},
   ticket: Tickets \cup {NoTicket},
   ref: Refs \cup {NoRef}, found_closed: BOOLEAN,
   id: {0} \cup Ids, file: {0} \cup Files]

Idle ==
  [pc |-> "idle", via |-> "api", user |-> NoUser, ticket |-> NoTicket,
   ref |-> NoRef, found_closed |-> FALSE, id |-> 0, file |-> 0]

Stored == {a \in 1..issued : attachments[a] # NoRow}

(* The unique index: an external_ref is used once per ticket.              *)
TypeOK ==
  /\ issued \in 0..MaxUploads
  /\ named \in 0..MaxUploads
  /\ attachments \in [Ids -> Rows \cup {NoRow}]
  /\ \A a \in Ids : a > issued => attachments[a] = NoRow
  /\ \A a, b \in Stored :
       /\ attachments[a].file = attachments[b].file => a = b
       /\ attachments[a].ref # NoRef /\ attachments[a].ref = attachments[b].ref
          /\ attachments[a].ticket = attachments[b].ticket => a = b
  /\ files \subseteq 1..named /\ leaked \subseteq 1..named
  /\ recent \subseteq 1..issued
  /\ reporter \in [Tickets -> Users \cup {NoUser}]
  /\ found \subseteq {t \in Tickets : reporter[t] # NoUser}
  /\ closed \subseteq Tickets
  /\ req \in [Requests -> RequestStates]
  /\ requests \in 0..MaxRequests
  /\ faults \in 0..MaxFaults

Init ==
  /\ attachments = [a \in Ids |-> NoRow]
  /\ issued = 0
  /\ files = {}
  /\ named = 0
  /\ recent = {}
  /\ req = [r \in Requests |-> Idle]
  /\ leaked = {}
  /\ requests = 0
  /\ faults = 0
  /\ reporter \in [Tickets -> Users \cup {NoUser}]
  /\ found \subseteq {t \in Tickets : reporter[t] # NoUser}
  /\ closed \subseteq Tickets

-----------------------------------------------------------------------------
Goes(r, state) == req' = [req EXCEPT ![r] = state]
Ends(r) == Goes(r, Idle)
Step(r, pc) == Goes(r, [req[r] EXCEPT !.pc = pc])

NoFault == UNCHANGED <<leaked, faults>>

Fault(left) ==
  /\ faults < MaxFaults
  /\ faults' = faults + 1
  /\ leaked' = leaked \cup left

Begin(r, state) ==
  /\ req[r].pc = "idle"
  /\ requests < MaxRequests
  /\ requests' = requests + 1
  /\ Goes(r, state)
  /\ NoFault
  /\ UNCHANGED <<attachments, issued, files, named, recent>>

(* Mutant of MayAttach: anybody, on any ticket.                            *)
MayAttach_Anybody(u, t) == TRUE

MayAttach(u, t) == u \in Staff \/ reporter[t] = u

(* findAttachmentByRef().                                                  *)
ByRef(t, ref) ==
  {a \in Stored : attachments[a].ticket = t /\ attachments[a].ref = ref}

Conflict(r) == req[r].ref # NoRef /\ ByRef(req[r].ticket, req[r].ref) # {}

-----------------------------------------------------------------------------
(* Uploads.                                                                *)

UploadApi(r) ==
  \E u \in Users, t \in found, ref \in Refs \cup {NoRef} :
    /\ MayAttach(u, t)
    /\ Begin(r, [Idle EXCEPT !.pc = IF ref = NoRef THEN "count" ELSE "find",
                             !.user = u, !.ticket = t, !.ref = ref])

(* Charter agents, who may attach to what they lodged, are reporters too.  *)
UploadStaff(r) ==
  \E u \in Users, t \in found :
    /\ MayAttach(u, t)
    /\ Begin(r, [Idle EXCEPT !.pc = "count", !.via = "staff", !.user = u,
                             !.ticket = t])

(* attachUploadedFile(): no limit.                                         *)
AttachUploadedFile(r, u, t) ==
  Begin(r, [Idle EXCEPT !.pc = "move", !.via = "customer", !.user = u,
                        !.ticket = t])

(* findOwnTicket().                                                        *)
UploadCustomer(r) == \E t \in found : AttachUploadedFile(r, reporter[t], t)

(* A retry is answered with the copy that is stored.                       *)
FindRef(r) ==
  /\ req[r].pc = "find"
  /\ IF ByRef(req[r].ticket, req[r].ref) # {} THEN Ends(r) ELSE Step(r, "count")
  /\ NoFault
  /\ UNCHANGED <<attachments, issued, files, named, recent, requests>>

RecentOf(u) == {a \in recent \cap Stored : attachments[a].user = u}
Limit(via) == IF via = "api" THEN ApiLimit ELSE StaffLimit

(* Mutant of Limited: one upload too many.                                 *)
Limited_Above(r) == Cardinality(RecentOf(req[r].user)) > Limit(req[r].via)

(* isApiUploadRateLimited(), isUploadRateLimited().                        *)
Limited(r) == Cardinality(RecentOf(req[r].user)) >= Limit(req[r].via)

CountUploads(r) ==
  /\ req[r].pc = "count"
  /\ IF Limited(r) THEN Ends(r) ELSE Step(r, "move")
  /\ NoFault
  /\ UNCHANGED <<attachments, issued, files, named, recent, requests>>

(* mkdir() and moveTo(), under a random name.                              *)
MoveTo(r) ==
  /\ req[r].pc = "move"
  /\ named < MaxUploads
  /\ named' = named + 1
  /\ files' = files \cup {named'}
  /\ Goes(r, [req[r] EXCEPT !.pc = "insert", !.file = named'])
  /\ NoFault
  /\ UNCHANGED <<attachments, issued, recent, requests>>

MoveFails(r) ==
  /\ req[r].pc = "move"
  /\ Fault({})
  /\ Ends(r)
  /\ UNCHANGED <<attachments, issued, files, named, recent, requests>>

Insert(r) ==
  /\ req[r].pc = "insert"
  /\ ~ Conflict(r)
  /\ issued' = issued + 1
  /\ attachments' =
       [attachments EXCEPT ![issued'] =
          [ticket |-> req[r].ticket, file |-> req[r].file, ref |-> req[r].ref,
           user |-> req[r].user]]
  /\ recent' = recent \cup {issued'}
  /\ Ends(r)
  /\ NoFault
  /\ UNCHANGED <<files, named, requests>>

(* Mutant of InsertRefused: the copy of the request that lost stays.       *)
InsertRefused_KeepsFile(r) ==
  /\ req[r].pc = "insert"
  /\ Conflict(r)
  /\ Step(r, "again")
  /\ NoFault
  /\ UNCHANGED <<attachments, issued, files, named, recent, requests>>

(* "A concurrent retry stored the same reference between the lookup above  *)
(* and this insert": caught.                                               *)
InsertRefused(r) ==
  /\ req[r].pc = "insert"
  /\ Conflict(r)
  /\ Step(r, "unlink")
  /\ NoFault
  /\ UNCHANGED <<attachments, issued, files, named, recent, requests>>

(* The INSERT fails: the API catches what is thrown, the two others only   *)
(* see a save() that returns false.                                        *)
InsertFails(r) ==
  /\ req[r].pc = "insert"
  /\ \/ Fault({}) /\ Step(r, "unlink")
     \/ req[r].via # "api" /\ Fault({req[r].file}) /\ Ends(r)
  /\ UNCHANGED <<attachments, issued, files, named, recent, requests>>

Unlink(r) ==
  /\ req[r].pc = "unlink"
  /\ files' = files \ {req[r].file}
  /\ IF req[r].ref # NoRef THEN Step(r, "again") ELSE Ends(r)
  /\ NoFault
  /\ UNCHANGED <<attachments, issued, named, recent, requests>>

(* Answered like a repeat, or with the error.                              *)
FindAgain(r) ==
  /\ req[r].pc = "again"
  /\ Ends(r)
  /\ NoFault
  /\ UNCHANGED <<attachments, issued, files, named, recent, requests>>

-----------------------------------------------------------------------------
(* Removals.                                                               *)

(* deleteAttachmentAction() of the API loads the ticket first.             *)
DeleteApi(r) ==
  \E u \in Users, t \in found :
    /\ MayAttach(u, t)
    /\ Begin(r, [Idle EXCEPT !.pc = "pick", !.user = u, !.ticket = t,
                             !.found_closed = t \in closed])

(* The staff's screen does not ask for the ticket: a file can be removed   *)
(* from one that is deleted.                                               *)
DeleteStaff(r) ==
  \E u \in Staff, t \in Tickets :
    Begin(r, [Idle EXCEPT !.pc = "pick", !.via = "staff", !.user = u, !.ticket = t])

MayRemove(r) == req[r].user \in Staff \/ ~ req[r].found_closed

PickAttachment(r) ==
  /\ req[r].pc = "pick"
  /\ \/ \E a \in Stored :
          /\ attachments[a].ticket = req[r].ticket
          /\ MayRemove(r)
          /\ Goes(r, [req[r] EXCEPT !.pc = "delete", !.id = a,
                                    !.file = attachments[a].file])
     \/ Ends(r)
  /\ NoFault
  /\ UNCHANGED <<attachments, issued, files, named, recent, requests>>

(* Mutant of DeleteRow: the file goes first.                               *)
DeleteRow_FileFirst(r) ==
  /\ req[r].pc = "delete"
  /\ files' = files \ {req[r].file}
  /\ Step(r, "remove")
  /\ NoFault
  /\ UNCHANGED <<attachments, issued, named, recent, requests>>

(* A DELETE that finds the row gone succeeds too.                          *)
DeleteRow(r) ==
  /\ req[r].pc = "delete"
  /\ attachments' = [attachments EXCEPT ![req[r].id] = NoRow]
  /\ Step(r, "remove")
  /\ NoFault
  /\ UNCHANGED <<issued, files, named, recent, requests>>

DeleteFails(r) ==
  /\ req[r].pc = "delete"
  /\ Fault({})
  /\ Ends(r)
  /\ UNCHANGED <<attachments, issued, files, named, recent, requests>>

RemoveFile(r) ==
  /\ req[r].pc = "remove"
  /\ files' = files \ {req[r].file}
  /\ Ends(r)
  /\ NoFault
  /\ UNCHANGED <<attachments, issued, named, recent, requests>>

-----------------------------------------------------------------------------
(* What a request that ends here leaves on disk without a row.             *)
InHand(r) == IF req[r].pc \in {"insert", "unlink", "remove"} THEN {req[r].file} ELSE {}

Die(r) ==
  /\ req[r].pc # "idle"
  /\ Fault(InHand(r))
  /\ Ends(r)
  /\ UNCHANGED <<attachments, issued, files, named, recent, requests>>

(* Fifteen minutes pass for the oldest.                                    *)
Ages ==
  /\ \E a \in recent : recent' = {b \in recent : b > a}
  /\ NoFault
  /\ UNCHANGED <<attachments, issued, files, named, req, requests>>

Handle(r) ==
  \/ UploadApi(r) \/ UploadStaff(r) \/ UploadCustomer(r)
  \/ FindRef(r) \/ CountUploads(r) \/ MoveTo(r) \/ MoveFails(r)
  \/ Insert(r) \/ InsertRefused(r) \/ InsertFails(r) \/ Unlink(r) \/ FindAgain(r)
  \/ DeleteApi(r) \/ DeleteStaff(r) \/ PickAttachment(r)
  \/ DeleteRow(r) \/ DeleteFails(r) \/ RemoveFile(r) \/ Die(r)

(* What is supposed of the tickets: one that is raised stays so, and its   *)
(* reporter is never another.                                              *)
TicketsMove ==
  /\ reporter' \in [Tickets -> Users \cup {NoUser}]
  /\ \A t \in Tickets : reporter[t] # NoUser => reporter'[t] = reporter[t]
  /\ found' \subseteq {t \in Tickets : reporter'[t] # NoUser}
  /\ closed' \subseteq Tickets

(* The customers' form for a new ticket takes a file with it.              *)
CreateWithFile(r) ==
  /\ TicketsMove
  /\ \E t \in found' : AttachUploadedFile(r, reporter'[t], t)

Next ==
  \/ (Ages \/ \E r \in Requests : Handle(r)) /\ UNCHANGED ticketVars
  \/ TicketsMove /\ UNCHANGED fileVars
  \/ \E r \in Requests : CreateWithFile(r)

Spec == Init /\ [][Next]_vars

-----------------------------------------------------------------------------
(* Every attachment that is listed can be downloaded: its file was there   *)
(* before its row and goes after it, whoever else removes it and wherever  *)
(* a process dies (uploadAttachmentAction(), deleteAttachmentAction()).    *)
RowsHaveFiles == \A a \in Stored : attachments[a].file \in files

(* A file on disk belongs to a row or to a request under way, unless a     *)
(* failure cut one short: neither a retry that lost the race for its       *)
(* external_ref nor a removal leaves a customer's file behind.             *)
NothingLeftBehind ==
  \A f \in files \ leaked :
    \/ \E a \in Stored : attachments[a].file = f
    \/ \E r \in Requests : f \in InHand(r)

(* What hangs on a ticket was put there by the staff or by whoever raised  *)
(* it, on a ticket that was raised: the door looked the ticket up before   *)
(* anything was stored (isStaff(), raisedByCaller(), findOwnTicket()).     *)
AttachedByParties ==
  \A a \in Stored :
    LET row == attachments[a] IN
    /\ reporter[row.ticket] # NoUser
    /\ row.user \in Staff \/ reporter[row.ticket] = row.user

(* Somebody who has raised no ticket, which among those who may upload are *)
(* members of the staff only, gets past a limit by no more than the uploads*)
(* that were under way at once, each of which had counted before the others*)
(* were stored.  Whoever has raised one may upload to it without a limit,  *)
(* on the customers' pages, so that no number bounds their rows.           *)
LimitKept ==
  \A u \in Users :
    (\A t \in Tickets : reporter[t] # u) =>
      Cardinality(RecentOf(u))
        <= (IF ApiLimit > StaffLimit THEN ApiLimit ELSE StaffLimit)
           + Cardinality(Requests) - 1
=============================================================================
