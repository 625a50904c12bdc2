CONSTANTS
    Recordings = {r1, r2}
    Credits = {c1}
    Debits = {d1}
    Billed <- MCBilled
    Amount <- MCAmount
    Start = 4
    DeMinimis = 2
    Absent = Absent
    NoCandidate = NoCandidate
    Free = Free
    MaxFaults = 2
SPECIFICATION FairSpec
INVARIANTS LiveTracksWallet
PROPERTIES EventuallyHonest
