CONSTANTS
    Events = {e1}
    CallKeys = {k1}
    GrantKeys = {g1}
    Lifetimes = {2}
    Attempts = {a1}
    Cost <- MCCost
    TopUp <- MCTopUp
    TopUpExpiry = 1
    Refunds <- MCRefunds
    Amounts = {2}
    MinBalance = 1
    TopUpTrigger = 1
    MaxTime = 1
SPECIFICATION Spec
INVARIANTS BooksBalance RefundsConverge
PROPERTIES ImplementsPools
