SPECIFICATION Spec
CONSTANTS
  v1 = v1
  v2 = v2
  Vars = {v1, v2}
  MaxIx = 3
  MaxDepth = 12
  CleanupIds = {}
  GCModes = {{"ptr", "obj"}}
  MainOps = {"ptr_new", "assign", "clear", "ptr_free", "heap_gc", "heap_refcount"}
  CleanupOps = {}
SYMMETRY Sym
INVARIANTS TypeOK CountExact
PROPERTIES DiesUnreferenced
