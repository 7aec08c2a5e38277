SPECIFICATION Spec
CONSTANTS
  Ops = {o1, o2}
  Versions = {v0, v1}
  InitVersion = v0
  Mixed = Mixed
  None = None
  SnapshotQuota = 4
  MaxFaults = 0
  MaxCrashes = 1
  MaxDrifts = 0
SYMMETRY OpSymmetry
INVARIANTS SingleUnfinished
PROPERTIES ImplementsAtomicStore ImplementsEngineView
