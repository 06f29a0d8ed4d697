---------------------------- MODULE MCSemaphores ----------------------------
EXTENDS Semaphores, TLC
CONSTANTS p1, p2, p3
Sym == Permutations(Processes)
=============================================================================
