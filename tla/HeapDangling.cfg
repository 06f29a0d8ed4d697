SPECIFICATION Spec
CONSTANTS
  v1 = v1
  v2 = v2
  Vars = {v1, v2}
  MaxIx = 3
  MaxDepth = 12
  CleanupIds = {1,2,3}
  GCModes = {{"ptr", "obj"}}
  MainOps = {"obj_new", "obj_new_fails", "ptr_new", "assign", "member", "clear", "heap_refcount"}
  CleanupOps = {"obj_new", "obj_new_fails", "ptr_new", "clear", "heap_refcount"}
SYMMETRY Sym
INVARIANTS NoDangling
