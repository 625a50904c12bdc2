CONSTANTS
    Months = {1}
    Micros <- OneMonth
    Unit = 2
    Workers = {w1, w2}
    None = None
    Consolidate = TRUE
    Renewals = {1}
    MaxAttempts = 2
    Faults = 1
SPECIFICATION Spec
CHECK_DEADLOCK FALSE
INVARIANTS DoubleBillingImpossible
