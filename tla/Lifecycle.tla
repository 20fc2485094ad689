------------------------------ MODULE Lifecycle ------------------------------
(***************************************************************************)
(* What experiments/state.py promises about the durable status of every    *)
(* experiment: it starts as CREATING, moves only along the edges of        *)
(* EXPERIMENT_TRANSITIONS, and DESTROYED is the end.                       *)
(***************************************************************************)
EXTENDS ExperimentState

CONSTANT Experiments

VARIABLE status

Init == status = [e \in Experiments |-> None]

Begin(e) ==
  /\ status[e] = None
  /\ status' = [status EXCEPT ![e] = "CREATING"]

Move(e) ==
  /\ status[e] # None
  /\ \E target \in Successors[status[e]] : status' = [status EXCEPT ![e] = target]

Next == \E e \in Experiments : Begin(e) \/ Move(e)

Spec == Init /\ [][Next]_status
=============================================================================
