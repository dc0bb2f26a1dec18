SPECIFICATION Spec
CONSTANTS
  reader = reader
  writer = writer
  task = task
  Callers = {reader, writer, task}
  Kind <- MCKind
  Dir <- MCDir
  WithToken = {reader}
  Deadlined = {}
  MaxSeq = 2
INVARIANTS TypeOK NoDanglingFrame NoStranded StopIsSeen
PROPERTY ImplementsPromise
