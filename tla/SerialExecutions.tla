-------------------------- MODULE SerialExecutions --------------------------
(***************************************************************************)
(* What the cron runner promises about one job: its executions follow one  *)
(* another, and only the process that is executing it records outcomes.    *)
(* How many it records, who executes, when, and what makes a job due are   *)
(* left open.                                                              *)
(***************************************************************************)
EXTENDS Naturals, Sequences

CONSTANTS Jobs, Runners, Outcomes

VARIABLES
  executors,  \* per job, the processes executing it
  history     \* per job, the recorded outcomes

vars == <<executors, history>>

Init ==
  /\ executors = [j \in Jobs |-> {}]
  /\ history = [j \in Jobs |-> <<>>]

Begin(r, j) ==
  /\ executors[j] = {}
  /\ executors' = [executors EXCEPT ![j] = {r}]
  /\ UNCHANGED history

Record(r, j) ==
  /\ executors[j] = {r}
  /\ Len(history'[j]) = Len(history[j]) + 1
  /\ LET o == history'[j][Len(history[j]) + 1]
     IN  /\ o \in Outcomes
         /\ history' = [history EXCEPT ![j] = Append(@, o)]
  /\ UNCHANGED executors

End(r, j) ==
  /\ executors[j] = {r}
  /\ executors' = [executors EXCEPT ![j] = {}]
  /\ UNCHANGED history

Next == \E r \in Runners, j \in Jobs : Begin(r, j) \/ Record(r, j) \/ End(r, j)

Spec == Init /\ [][Next]_vars
=============================================================================
