\* Reports, calls, failures, a boot, a restart and Close in every order.
CONSTANTS
    c1 = c1
    c2 = c2
    Callers = {c1, c2}
    Horizon = 3
    DayStart <- MCDayStart
    PeriodStart <- MCPeriodStart
    PeriodEnd <- MCPeriodEnd
    MaxGap = 1
    Monthly = TRUE
    Sent <- MCSent
    QueueCapacity = 2
    BatchLimit = 2
    MaxSamples = 3
    MaxFailures = 1
    MaxRestarts = 1
    BootTimes = {2}
    Kinds <- MCKinds
    MaxInstances = 2
    Window = 2
    Ring = 2
    Budget = 1
    Bound <- MCBound
    MaxProcesses = 2
    MaxEvents = 3
    MaxCollectors = 2
    MaxEpochs = 2
    MaxLost = 1
SPECIFICATION MCSpec
INVARIANTS TypesOK ExactTotals AnswerIsTrue CallSeesItsReports AcceptedIsDrained FailureIsTold RecordedInOrder MissingIsShown GenerationFresh InventoryIsStored
PROPERTIES DayNeverReturns EverybodyReturns EventsReachLedger
CHECK_DEADLOCK FALSE
