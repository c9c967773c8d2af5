--------------------------- MODULE MCTicketTriage ---------------------------
(* Instances of TicketTriage for TLC: somebody of the staff, an agent and  *)
(* the client that raised the first ticket.                                *)
EXTENDS TicketTriage, TLC

CONSTANTS staff, agent, client

OneTicket == <<NewTicket(client, NoOne, TRUE)>>

RequestSymmetry == Permutations(Requests)
=============================================================================
