CONSTANTS
    Recordings = {r1}
    Credits = {c1}
    Starts <- RecoveryStarts
    MinBalance = 0
    PoolLine = 2
    Absent = Absent
    NoOne = NoOne
    Budget <- RecoveryBudget
SPECIFICATION FairSpec
CONSTRAINT WorkOrCredit
PROPERTIES StopsSignalled RecoveryReactivates KillConverges
