SPECIFICATION Spec
CONSTANTS
  a = a
  b = b
  c = c
  d = d
  Tasks = {a, b, c}
  Workers = {w1}
  Main = Main
  Parent <- ChainParent
  Suspends = {a}
  TimedCallers = {}
  Cancellers = {}
CHECK_DEADLOCK FALSE
INVARIANT NoBuriedWait
