SPECIFICATION Spec
CONSTANTS
  None = None
  Loop = Loop
  Ops = {o1, o2}
  Ids = {1, 2, 3}
  Admins = {a1}
  ResultCap = 2
  FirstActs = {"secret", "prepare"}
  LaterActs = {"query", "apply", "rollback", "cancel"}
  MaxRequests = 2
  MaxMishaps = 1
INVARIANTS TypeOK EndedHasNoWork UnfinishedHoldsSlot
CHECK_DEADLOCK FALSE
SYMMETRY Symmetry
