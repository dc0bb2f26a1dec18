SPECIFICATION FairSpec
CONSTANTS
  a = a
  b = b
  c = c
  d = d
  Tasks = {a, b, d}
  Workers = {w1}
  Main = Main
  Parent <- ChainParent
  Suspends = {d}
  TimedCallers = {Main}
  Cancellers = {a}
CHECK_DEADLOCK FALSE
INVARIANT NoSleepOnDone
PROPERTIES MainWaitReturns ShutdownEnds
