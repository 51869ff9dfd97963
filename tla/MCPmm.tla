------------------------------- MODULE MCPmm -------------------------------
EXTENDS Pmm, TLC

CONSTANTS c1, c2
Symmetric == Permutations({c1, c2})
MCCPUs == {c1, c2}
=============================================================================
