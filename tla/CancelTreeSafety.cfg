CONSTANTS
  Tokens = {a, b, c}
  Threads = {th1, th2}
  None = None
SPECIFICATION Spec
SYMMETRY Symmetry
INVARIANTS TypeOK FreedWhenUnused CascadeReachesAll NoStaleSleep
PROPERTY ImplementsTree
CHECK_DEADLOCK FALSE
