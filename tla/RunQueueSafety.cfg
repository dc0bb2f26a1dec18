SPECIFICATION Spec
CONSTANTS
  a = a
  b = b
  c = c
  d = d
  Tasks = {a, b, c, d}
  Workers = {w1, w2}
  Main = Main
  Parent <- ChainParent
  Suspends = {c, d}
  TimedCallers = {}
  Cancellers = {}
CHECK_DEADLOCK FALSE
INVARIANTS TypeOK NoSleepOnWork NoBuriedWait 
