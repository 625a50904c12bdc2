CONSTANTS
    Recordings = {r1}
    Credits = {c1}
    Starts <- CausesStarts
    MinBalance = 0
    PoolLine = 1
    Absent = Absent
    NoOne = NoOne
    Budget <- CausesBudget
SPECIFICATION Spec
INVARIANTS FailureHoldsOwner SignalsAlternate
