CONSTANTS
    Events = {e1}
    CallKeys = {k1, k2}
    GrantKeys = {g1, g2}
    Lifetimes = {1, 2}
    Attempts = {}
    Cost <- MCCost
    TopUp <- MCTopUp
    TopUpExpiry = 1
    Refunds <- MCRefunds
    Amounts = {1, 3}
    MinBalance = 1
    TopUpTrigger = 1
    MaxTime = 1
SPECIFICATION Spec
INVARIANTS LotsCovered AnnouncedOnce
PROPERTIES ExpiryKeepsSolvent WithdrawalSparesPromo
SYMMETRY Symmetry
