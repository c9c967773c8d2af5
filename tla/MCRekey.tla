------------------------------ MODULE MCRekey ------------------------------
(* An instance of Rekey for TLC.                                           *)
EXTENDS Rekey, TLC

Symmetries ==
  Permutations(Secrets) \cup Permutations(Data) \cup Permutations(Stashes)
    \cup Permutations(Writers) \cup Permutations(Keys)
=============================================================================
