---------------------------- MODULE MCMcpService ----------------------------
EXTENDS McpService, TLC
ClientSymmetry == Permutations(Callers)
=============================================================================
