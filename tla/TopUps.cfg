CONSTANTS
    Autos = {a1}
    Checkouts = {c1}
    Sessions = {s1, s2}
    For <- OneAttempt
    Workers = {w1, w2}
    NoAttempt = NoAttempt
    NoPayment = NoPayment
    MaxAttempts = 1
    Faults = 1
SPECIFICATION FairSpec
CONSTRAINT TwoEvents
CHECK_DEADLOCK FALSE
INVARIANTS CreditedOnce
PROPERTIES AutoPaymentsCredited CheckoutsCredited RefundsClawedBack
