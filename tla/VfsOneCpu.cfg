SPECIFICATION Spec
CONSTANTS
  Cpus = {c1}
  Path = {p1, p2}
  Obj = {o1, o2, o3, o4}
  None = None
  MaxOpens = 6
SYMMETRY Symmetry
INVARIANTS RefsExact NoDangling 
CHECK_DEADLOCK FALSE
