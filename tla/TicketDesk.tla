----------------------------- MODULE TicketDesk -----------------------------
(***************************************************************************)
(* The ticket desk as a whole: the tickets (TicketTriage) and the files    *)
(* attached to them (TicketAttachments).  Both are reached through the     *)
(* same controllers.  A request about a file looks its ticket up first,    *)
(* among those that are not deleted, and holds what it has read while      *)
(* other requests close, reopen or delete the ticket; the customers' form  *)
(* for a new ticket stores the ticket and goes on to the file.             *)
(***************************************************************************)
EXTENDS TicketTriage, FiniteSets

CONSTANTS
  ApiLimit, StaffLimit,   \* as in TicketAttachments
  FileRequests,           \* the requests about files
  MaxUploads, MaxFileRequests, MaxFileFaults   \* bounds, as in TicketAttachments

VARIABLES
  attachments, lastAttachment, files, named, recent, fileReq, leaked,
  fileRequests, fileFaults

(* Who raised each ticket, and which are closed.                           *)
ReporterOf ==
  [t \in Ids |-> IF t \in 1..issued THEN tickets[t].reporter ELSE NoOne]
ClosedTickets == {t \in 1..issued : tickets[t].status = "closed"}

Attach ==
  INSTANCE TicketAttachments
  WITH Tickets <- Ids, Users <- People, NoTicket <- 0, NoUser <- NoOne,
       Requests <- FileRequests, MaxRequests <- MaxFileRequests,
       MaxFaults <- MaxFileFaults, issued <- lastAttachment,
       reporter <- ReporterOf, found <- Found, closed <- ClosedTickets,
       req <- fileReq, requests <- fileRequests, faults <- fileFaults

ASSUME DeskAssumption ==
  /\ IsFiniteSet(FileRequests)
  /\ NoRow \notin Attach!Rows
  /\ ApiLimit \in Nat \ {0} /\ StaffLimit \in Nat \ {0}
  /\ MaxUploads \in Nat /\ MaxFileRequests \in Nat /\ MaxFileFaults \in Nat

fileVars ==
  <<attachments, lastAttachment, files, named, recent, fileReq, leaked,
    fileRequests, fileFaults>>
deskVars == <<vars, fileVars>>

InitDesk == Init /\ Attach!Init

(* A request about the ticket itself.                                      *)
TicketStep == Next /\ UNCHANGED fileVars

(* A request about its files; or those uploaded long ago stop counting.    *)
FileStep ==
  /\ Attach!Ages \/ \E r \in FileRequests : Attach!Handle(r)
  /\ UNCHANGED vars

(* Frontend\TicketsController: the file is attached to the object that was *)
(* just saved.                                                             *)
CreateWithFile(r, q) ==
  /\ CreateCustomer(r)
  /\ Attach!AttachUploadedFile(q, tickets'[issued'].reporter, issued')

NextOfDesk ==
  \/ TicketStep
  \/ FileStep
  \/ \E r \in Requests, q \in FileRequests : CreateWithFile(r, q)

SpecOfDesk == InitDesk /\ [][NextOfDesk]_deskVars

(***************************************************************************)
(* What TicketAttachments promises, beside everything that happens to the  *)
(* tickets.                                                                *)
(***************************************************************************)

(* Every attachment that is listed can be downloaded, whoever removes it   *)
(* and wherever a process dies.                                            *)
RowsHaveFiles == Attach!RowsHaveFiles

(* Unless a failure cut a request short, every file belongs to a row or to *)
(* a request under way: also those of a ticket that is deleted meanwhile.  *)
NothingLeftBehind == Attach!NothingLeftBehind

(* What hangs on a ticket is of the staff or of its reporter, whatever     *)
(* whole-row saves the ticket has been through since.                      *)
AttachedByParties == Attach!AttachedByParties

(* Somebody who never raised a ticket gets past a limit by no more than    *)
(* the uploads under way at once.                                          *)
LimitKept == Attach!LimitKept
=============================================================================
