SPECIFICATION Spec
CONSTANTS
  None = None
  Loop = Loop
  Ops = {o1}
  Ids = {1, 2, 3}
  Admins = {a1}
  ResultCap = 2
  FirstActs = {"prepare"}
  LaterActs = {"apply", "rollback"}
  MaxRequests = 3
  MaxMishaps = 1
INVARIANT RollbackFailedHoldsSlot
CHECK_DEADLOCK FALSE
