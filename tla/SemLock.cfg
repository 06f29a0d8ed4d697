SPECIFICATION Spec
CONSTANTS
  p1 = p1
  p2 = p2
  p3 = p3
  Processes = {p1, p2, p3}
  MaxSems = 2
  MaxValue = 2
  Ops = {"release", "create_again", "delete", "exit", "crash", "keep"}
SYMMETRY Sym
INVARIANTS TypeOK MutualExclusion
PROPERTIES UnlinksAsTable
CHECK_DEADLOCK FALSE
