----------------------------- MODULE MCToolTasks -----------------------------
(* Instances of ToolTasks for TLC. *)
EXTENDS ToolTasks, TLC

Symmetry == Permutations(Tasks) \cup Permutations(Files)
=============================================================================
