--------------------------- MODULE MCRunPersistence ---------------------------
EXTENDS RunPersistence, TLC
=============================================================================
