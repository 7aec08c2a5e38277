SPECIFICATION Spec
CONSTANTS
  Ops = {o1}
  Versions = {v0, v1, v2}
  InitVersion = v0
  Mixed = Mixed
  None = None
  SnapshotQuota = 4
  MaxFaults = 2
  MaxCrashes = 1
  MaxDrifts = 1
INVARIANTS TypeOK Recoverable TerminalIsDurable WireValid RefusedUndoKeepsHistory
PROPERTIES AbortWins OutcomeIsObserved ImplementsEngineView
CONSTRAINT TwoMishaps
CHECK_DEADLOCK FALSE
