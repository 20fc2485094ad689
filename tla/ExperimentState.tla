--------------------------- MODULE ExperimentState ---------------------------
(* experiments/state.py: the statuses of an experiment and the legal moves. *)

\* Before the row of an experiment exists.
None == "NONE"

\* EXPERIMENT_TRANSITIONS
Successors ==
  [CREATING  |-> {"READY", "FAILED", "DESTROYED"},
   READY     |-> {"RUNNING", "COMPLETED", "FAILED", "CANCELLED", "DESTROYED"},
   RUNNING   |-> {"READY", "COMPLETED", "FAILED", "TIMEOUT", "CANCELLED", "DESTROYED"},
   COMPLETED |-> {"RUNNING", "DESTROYED"},
   FAILED    |-> {"RUNNING", "DESTROYED"},
   TIMEOUT   |-> {"RUNNING", "DESTROYED"},
   CANCELLED |-> {"RUNNING", "DESTROYED"},
   DESTROYED |-> {}]

ExperimentStatuses ==
  {"CREATING", "READY", "RUNNING", "COMPLETED", "FAILED", "TIMEOUT", "CANCELLED", "DESTROYED"}

\* "States in which the sandbox exists and can accept work."
LiveStates == ExperimentStatuses \ {"CREATING", "DESTROYED"}

\* assert_transition lets the move pass.
CanMove(current, target) == current = target \/ target \in Successors[current]
=============================================================================
