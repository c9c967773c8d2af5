---------------------------- MODULE MCTicketDesk ----------------------------
(* Instances of TicketDesk for TLC: a ticket that a client raises, and     *)
(* somebody of the staff.                                                  *)
EXTENDS TicketDesk, TLC

CONSTANTS staff, client, other

NoTickets == <<>>
DeskKinds == {"create", "close", "delete"}

RequestSymmetry == Permutations(FileRequests)
=============================================================================
