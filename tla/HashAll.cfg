SPECIFICATION Spec
CONSTANTS
  h1 = h1
  h2 = h2
  Hashes = {h1, h2}
  Keys = {1, 2, 3, 4}
  Values = {1, 2}
  Raw <- RawRanks
  Folded <- FoldedRanks
  Assignments <- SomeAssignments
  Batches <- SomeBatches
  MaxSize = 8
  MaxEntries = 2
  MaxMixed = 2
SYMMETRY AnyVariable
INVARIANTS TypeOK KeysFound AssertionsHold SearchEnds
PROPERTIES ImplementsKeyMap
