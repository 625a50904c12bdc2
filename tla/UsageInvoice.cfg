CONSTANTS
    Months = {1, 2, 3}
    Micros <- ThreeMonths
    Unit = 2
    Workers = {w1, w2}
    None = None
    Consolidate = TRUE
    Renewals = {1}
    MaxAttempts = 2
    Faults = 1
SPECIFICATION FairSpec
CHECK_DEADLOCK FALSE
INVARIANTS BilledOnce PushedIsBilled ResidualConserved
PROPERTIES MonthsSettle
