SPECIFICATION Spec
CONSTANTS
  reader = reader
  writer = writer
  task = task
  Callers = {reader, writer}
  Kind <- MCKind
  Dir <- MCDir
  WithToken = {}
  Deadlined = {}
  MaxSeq = 2
INVARIANT ReleasedAtShutdown
