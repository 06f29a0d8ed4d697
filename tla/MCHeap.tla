------------------------------ MODULE MCHeap ------------------------------
EXTENDS Heap, TLC
CONSTANTS v1, v2
Sym == Permutations(Vars)
=============================================================================
