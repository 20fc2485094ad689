------------------------------- MODULE MCJobs -------------------------------
(* Small instances of Jobs for TLC. *)
EXTENDS Jobs, TLC

CONSTANT e1

\* All the jobs compete in one experiment.
OneExperiment == [j \in JobIds |-> e1]

\* Jobs are interchangeable, and so are callers.
Symmetry == Permutations(JobIds) \cup Permutations(Callers)
=============================================================================
