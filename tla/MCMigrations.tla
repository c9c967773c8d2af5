---------------------------- MODULE MCMigrations ----------------------------
(* Instances of Migrations for TLC.                                        *)
EXTENDS Migrations, TLC

CONSTANTS base1, base2, crm1, lms1

InOrder == (base1 :> 1) @@ (base2 :> 2) @@ (crm1 :> 3)
OwnVersions == [f \in {base1, base2, crm1} |-> f]
Lengths == [f \in {base1, base2, crm1} |-> IF f = base2 THEN 1 ELSE 2]

(* Two modules that both begin with 001_initial_schema.sql.                *)
TwoModules == (crm1 :> 1) @@ (lms1 :> 2)
SameVersion == [f \in {crm1, lms1} |-> "001_initial_schema"]
OneStatement == [f \in {crm1, lms1} |-> 1]

ProcessSymmetry == Permutations(Processes)
=============================================================================
