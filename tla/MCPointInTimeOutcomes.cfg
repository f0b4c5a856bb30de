CONSTANTS
    EntrySessions = 2
    Horizon = 1
    Stop = 1
    Limit = 2
    Target = 4
    Runners = {r1, r2}
    Decisions <- TwoDecisions
    Plan <- TwoOrders
    Unsupported <- TooFar
    Tapes <- SomeTapes
    Limits <- OneLimit
    Window = 2
    Backoff <- Delays
    MaxClock = 3
    MaxFaults = 1
SPECIFICATION FairSpec
INVARIANT FollowsTheTape
INVARIANT LedgerAgrees
PROPERTY RetriesKeepSchedule
PROPERTY FactsAreSealed
PROPERTY RowsSettle
CHECK_DEADLOCK FALSE
