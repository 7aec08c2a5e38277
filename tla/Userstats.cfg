SPECIFICATION MCSpec
CONSTANTS
  Users = {u1, u2}
  Initial = {u1}
  Conns = {c1, c2}
  Dirs = {up, down}
  Handlers = {h1, h2}
  Quotas = {1, 2}
  Tables <- MCTables
  MaxEpoch = 2
  CounterMax = 2
  MaxChunks = 3
  MaxReloads = 1
  StartupAction = "allow"
  StaleAction = "deny"
  None = None
  Identities = {u1, u2}
  Records <- MCRecords
  Owner <- MCOwner
  Nil = Nil
  MaxRecords = 3
  FirstUser = u1
  OtherUser = u2
  QueueSize = 1
  MaxOpenFiles = 1
  BufferLines = 2
  FileLines = 2
  TotalLines = 3
  MaxWriters = 2
  MaxFaults = 1
SYMMETRY Symmetry
INVARIANTS TypesOK SnapshotsMonotone FinishedOnce OvershootBounded NewestTableRules LossIsTraced CloseKeepsAll
PROPERTIES GateIsJustified
CONSTRAINTS ThreeAtOnce InOrder
CHECK_DEADLOCK FALSE
