SPECIFICATION Spec
CONSTANTS
    cn = cn
    us = us
    a = a
    b = b
    s1 = s1
    s2 = s2
    Sessions = {s1, s2}
    Jobs <- AllJobs
    Markets = {cn, us}
    Stocks = {a, b}
    MarketOf <- TwoMarkets
    Allocations <- Split
    Capitals = {20, 30}
    Prices = {3}
    Weights = {5}
    Fee = 1
    MaxOpens = 2
INVARIANTS
    BooksBalance
    ClosedOnce
    OneOpenPerStock
SYMMETRY Alike
CONSTRAINT NotCrossed
