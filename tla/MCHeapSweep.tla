------------------------------ MODULE MCHeapSweep ------------------------------
EXTENDS HeapSweep, TLC
CONSTANTS v1, v2
Sym == Permutations(Vars)
=============================================================================
