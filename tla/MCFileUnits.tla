---------------------------- MODULE MCFileUnits ----------------------------
EXTENDS FileUnits, TLC
CONSTANTS a, b
Sym == Permutations(Files)
=============================================================================
