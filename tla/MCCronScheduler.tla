-------------------------- MODULE MCCronScheduler --------------------------
(* Instances of CronScheduler for TLC: ids are model values, and a job may *)
(* be scheduled every minute or every other minute.                        *)
EXTENDS CronScheduler, TLC

EveryOneOrTwo == {1, 2}
EveryTwo == {2}

(* nextAnchor() does not look at the result: one of the two stands for both. *)
OneResult == {"error"}

JobSymmetry == Permutations(Jobs)
RunnerSymmetry == Permutations(CliRunners)
Symmetry == JobSymmetry \cup RunnerSymmetry
=============================================================================
