---------------------------- MODULE MCExperiments ----------------------------
(* Small instances of Experiments for TLC. *)
EXTENDS Experiments, TLC

\* Ids are interchangeable, and so are calls.
Symmetry == Permutations(Experiments) \cup Permutations(Calls)
=============================================================================
