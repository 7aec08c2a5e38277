SPECIFICATION Spec
CONSTANTS
  None = None
  Loop = Loop
  Ops = {o1}
  Ids = {1, 2, 3}
  Admins = {a1}
  ResultCap = 2
  FirstActs = {"prepare"}
  LaterActs = {"apply", "rollback", "cancel"}
  MaxRequests = 3
  MaxMishaps = 1
INVARIANTS IntentFirst OutcomeIsJournalled
CHECK_DEADLOCK FALSE
