-------------------------- MODULE MCApiKeyRotation --------------------------
(* Instances of ApiKeyRotation for TLC: an administrator and an agent,     *)
(* each with a key.                                                        *)
EXTENDS ApiKeyRotation, TLC

CONSTANTS admin, agent, name

OneKeyEach ==
  <<[user |-> admin, name |-> name, expires |-> Never, revoked |-> FALSE],
    [user |-> agent, name |-> name, expires |-> Never, revoked |-> FALSE]>>

RequestSymmetry == Permutations(Requests)
=============================================================================
