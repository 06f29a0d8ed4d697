------------------------------ MODULE MCHeapLife ------------------------------
EXTENDS HeapLife, TLC
CONSTANTS v1, v2
Sym == Permutations(Vars)
=============================================================================
