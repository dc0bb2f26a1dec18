SPECIFICATION Spec
CONSTANTS
  p = p
  j = j
  Handles = {p, j}
  Pooled = {p}
  Parent <- MCParent
  Main = Main
  Workers = {w1, w2}
  Regions = {arena}
  Unset = Unset
  NoRecord = NoRecord
  Spawns = 2
  MaxHeld = 2
  LateReuse = TRUE
SYMMETRY Symmetry
CHECK_DEADLOCK FALSE
INVARIANTS TypeOK FollowsTask ScratchIsOwn FreedWhenUnused
