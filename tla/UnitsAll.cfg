SPECIFICATION Spec
CONSTANTS
  a = a
  b = b
  UserUnits = {}
  PoolUnits = {2, 3}
  Files = {a}
  Descriptors = {5}
  Ops = {"get_lun", "open", "compress", "close", "close_all", "free_lun", "spawn", "socket", "truncate", "journal", "journal_close", "reset_session"}
SYMMETRY Sym
INVARIANTS TypeOK NeverTwice
