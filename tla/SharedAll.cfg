SPECIFICATION Spec
CONSTANTS
  p = p
  q = q
  a = a
  g = g
  u = u
  v = v
  h = h
  Processes = {p, q}
  Handles = {g, h}
  Names = {a}
  Vars = {u, v}
  Sizes = {1, 2}
  MaxObjects = 2
  MaxAddrs = 2
  Ops = {"destroy", "keep", "die"}
INVARIANTS TypeOK CountExact Backed OwnerKeepsName NothingLeft
CHECK_DEADLOCK FALSE
SYMMETRY ModelSymmetry
