SPECIFICATION Spec
CONSTANTS
  reader = reader
  writer = writer
  task = task
  Callers = {reader}
  Kind <- MCKind
  Dir <- MCDir
  WithToken = {reader}
  Deadlined = {}
  MaxSeq = 2
INVARIANT CancelIsSeen
