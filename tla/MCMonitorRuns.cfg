SPECIFICATION Spec
CONSTANTS
    Stocks = {s1, s2}
    Runs = {r1, r2}
    Channels = 2
    Throttle = 0
    DedupeTtl = 0
CONSTRAINT OneStockAtATime
SYMMETRY Interchangeable
INVARIANTS
    MarksAreEarned
    RepeatsAreExplained
    RunTellsTheTruth
