SPECIFICATION Spec
CONSTRAINT TreeOrRace
CONSTANTS
    Tops = {t1, t2, t3}
    Subs = {s1}
    Postings = {k1}
    Ceiling <- Ceilings
    Amounts <- SomeAmounts
    Declared = {"completed", "failed"}
    Price = 1
    Funds = {2}
    MinBalance = 0
    NoUnit = NoUnit
    Faults = 1
SYMMETRY AnyStart
INVARIANTS NoOrphans BooksAddUp ChargeMatchesDelivery NeverOversold StopsAnnouncedOnce
CHECK_DEADLOCK FALSE
