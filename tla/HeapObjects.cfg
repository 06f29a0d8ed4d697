SPECIFICATION Spec
CONSTANTS
  v1 = v1
  v2 = v2
  Vars = {v1, v2}
  MaxIx = 2
  MaxDepth = 12
  CleanupIds = {1,2}
  GCModes = {{"ptr", "obj"}}
  MainOps = {"obj_new", "member", "clear", "obj_destroy", "heap_gc"}
  CleanupOps = {"member", "clear", "assign", "obj_destroy", "heap_gc", "error"}
SYMMETRY Sym
INVARIANTS CountExact CleanupExclusive GCFlag
PROPERTIES DiesUnreferenced ObjectsLive
