---------------------------- MODULE MCAuditTrail ----------------------------
(* Instances of AuditTrail for TLC: rows of two columns, so that an update *)
(* may change one of them and leave the other; the database fills in the   *)
(* second one at the INSERT.                                               *)
EXTENDS AuditTrail, TLC

RequestSymmetry == Permutations(Requests)
=============================================================================
