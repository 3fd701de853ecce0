--------------------------- MODULE MCContextWindow ---------------------------
(* Instances of ContextWindow for TLC. *)
EXTENDS ContextWindow, TLC
=============================================================================
