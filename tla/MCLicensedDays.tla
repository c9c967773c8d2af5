--------------------------- MODULE MCLicensedDays ---------------------------
(* Instances of LicensedDays for TLC.                                      *)
EXTENDS LicensedDays, TLC

CONSTANTS m1, k1

Alone == [m \in {m1} |-> None]
OneStored == {<<k1, m1>>}

(* Any request is made beside any other.                                   *)
AllBeside == Kinds \X Kinds

RequestSymmetry == Permutations(Requests)
=============================================================================
