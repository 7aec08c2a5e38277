SPECIFICATION FairSpec
CONSTANTS
  None = None
  Loop = Loop
  Ops = {o1}
  Ids = {1, 2, 3}
  Admins = {a1}
  ResultCap = 2
  FirstActs = {"prepare"}
  LaterActs = {"query", "apply", "rollback", "cancel"}
  MaxRequests = 2
  MaxMishaps = 1
PROPERTIES SlotIsFreed
CHECK_DEADLOCK FALSE
