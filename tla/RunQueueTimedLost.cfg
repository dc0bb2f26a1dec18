SPECIFICATION Spec
CONSTANTS
  a = a
  b = b
  c = c
  d = d
  Tasks = {a, d}
  Workers = {w1}
  Main = Main
  Parent <- ChainParent
  Suspends = {d}
  TimedCallers = {Main}
  Cancellers = {}
CHECK_DEADLOCK FALSE
INVARIANT NoSleepOnWork
