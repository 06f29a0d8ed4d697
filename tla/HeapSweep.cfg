SPECIFICATION FairSpec
CONSTANTS
  v1 = v1
  v2 = v2
  Vars = {v1, v2}
  MaxIx = 2
  MaxDepth = 12
  CleanupIds = {1,2}
  GCModes = {{"ptr", "obj"}}
  MainOps = {"obj_new", "ptr_new", "member", "clear", "heap_gc"}
  CleanupOps = {"clear", "heap_gc"}
PROPERTIES SweepSparesReachable SweepCollectsDoomed SweepEnds CleanupFinishes
