---------------------------- MODULE MCLicensing ----------------------------
(* Instances of Licensing for TLC.                                         *)
EXTENDS Licensing, TLC

CONSTANTS m1, m2, k1, k2

Alone == [m \in {m1} |-> None]
(* m2 may use m1's keys. *)
Sharing == [m \in {m1, m2} |-> IF m = m2 THEN m1 ELSE None]

OneStored == {<<k1, m1>>}

(* One module is checked in beside any check-in that is under way, and     *)
(* beside the removal of a key.                                            *)
CheckInsBeside ==
  {"checkInAll", "checkIn"} \X {"checkIn"} \cup {<<"removeKey", "checkIn">>}

RequestSymmetry == Permutations(Requests)
=============================================================================
