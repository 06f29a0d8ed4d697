--------------------------- MODULE MCSharedMemory ---------------------------
EXTENDS SharedMemory, TLC

CONSTANTS p, q, g, h, a, u, v

ModelSymmetry == Permutations({p, q}) \cup Permutations({g, h}) \cup Permutations({u, v})
=============================================================================
