------------------------------ MODULE MCHash ------------------------------
(* Keys 1 .. 4 are "a", "B", "A" and a number; HashCompare puts strings    *)
(* before numbers and capitals before small letters.                       *)
EXTENDS Hash, TLC

RawRanks == <<3, 2, 1, 4>>
FoldedRanks == <<1, 2, 1, 3>>

E(k, v) == [key |-> k, value |-> v]

\* Only the key 3 has two values: enough to see a value go astray.
SomeAssignments == {E(1, 1), E(2, 1), E(3, 1), E(3, 2), E(4, 1)}

SomeBatches == {<<>>, <<E(1, 1), E(2, 1)>>, <<E(4, 1), E(3, 2), E(1, 1), E(2, 1)>>}

\* The variables that hold a HASH are interchangeable.
AnyVariable == Permutations(Hashes)
=============================================================================
