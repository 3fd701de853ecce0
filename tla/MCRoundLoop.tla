---------------------------- MODULE MCRoundLoop ----------------------------
EXTENDS RoundLoop, TLC
PlanOfTwo == <<"read", "write">>
=============================================================================
