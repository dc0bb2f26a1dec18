SPECIFICATION Spec
CONSTANTS
  Children = {run, tracked}
  Managed = {tracked}
  Forks = {f, g}
  None = None
CHECK_DEADLOCK FALSE
INVARIANTS TypeOK CallLeavesNothing OnlyStraysSurvive
PROPERTY Resolves
