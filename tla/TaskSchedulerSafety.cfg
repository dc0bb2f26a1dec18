SPECIFICATION FairSpec
CONSTANTS
  Tasks = {t1, t2, t3}
  IoTasks = {t1}
  Threads = {w1, w2}
  None = None
  Io = Io
INVARIANTS TypeOK OneRunner DispatchIsSound NoLostWake NoTaskDropped
PROPERTIES ImplementsLifecycle QueuedIsDispatched JoinerResumes
