CONSTANTS
    p1 = p1
    p2 = p2
    Postings = {p1, p2}
    Cost <- MCCost
    Metered = {p1}
    Unpriced = {p2}
    Held = {1}
    MaxMonth = 3
    Flat = 0
    Num = 1
    Den = 1
    Unit = 2
    Workers = {w1, w2}
    Faults = 1
SPECIFICATION FairSpec
CHECK_DEADLOCK FALSE
INVARIANTS FeeOfArrivals FeesConserved ChargedOnce
PROPERTIES FeesInvoiced
