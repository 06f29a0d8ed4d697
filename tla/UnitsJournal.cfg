SPECIFICATION Spec
CONSTANTS
  a = a
  b = b
  UserUnits = {1}
  PoolUnits = {2, 3}
  Files = {a, b}
  Descriptors = {5}
  Ops = {"get_lun", "open", "delete", "close", "close_all", "free_lun", "spawn", "journal"}
SYMMETRY Sym
INVARIANTS JournalOpen NoUnitLost
PROPERTIES DeletesOnlyAsked
