SPECIFICATION Spec
CONSTANTS
  Ops = {o1}
  Versions = {v0, v1}
  InitVersion = v0
  Mixed = Mixed
  None = None
  SnapshotQuota = 4
  MaxFaults = 2
  MaxCrashes = 0
  MaxDrifts = 0
INVARIANT RollbackIntentDurable
