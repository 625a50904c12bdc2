SPECIFICATION FairSpec
CONSTRAINT TreeOrReports
CONSTANTS
    Tops = {t1}
    Subs = {s1}
    Postings = {k1, k2}
    Ceiling <- Ceilings
    Amounts <- StopAmounts
    Declared = {"completed"}
    Price = 1
    Funds = {1}
    MinBalance = 0
    NoUnit = NoUnit
    Faults = 1
PROPERTIES CeilingConverges StopsDelivered ReservationsFreed QuietWorkEnds
CHECK_DEADLOCK FALSE
