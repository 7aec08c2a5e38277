SPECIFICATION FairSpec
CONSTANTS
  Ops = {o1}
  Versions = {v0, v1}
  InitVersion = v0
  Mixed = Mixed
  None = None
  SnapshotQuota = 4
  MaxFaults = 1
  MaxCrashes = 1
  MaxDrifts = 0
PROPERTIES EngineSettles ImplementsAtomicStore
