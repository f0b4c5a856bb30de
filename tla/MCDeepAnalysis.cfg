SPECIFICATION Spec
CONSTANTS
    Stocks = {stock}
    Runs = {first, second}
    None = None
    Ttl = 2
    Quiet = 1
    Timeout = 2
    Budget = 1
    OverBudget = "reject"
INVARIANTS
    PatchCoversGraphs
    TimedOutLeavesNothing
PROPERTIES
    OneRunPerStock
    PaidOnce
    NothingStaysRunning
CHECK_DEADLOCK FALSE
