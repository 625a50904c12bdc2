CONSTANTS
    Events = {e1, e2}
    Workers = {w1, w2}
    NoEvent = NoEvent
    NumHandlers = 2
    Gated <- MCGated
    MaxRetries = 2
    Batch = 1
    MaxQueue = 2
    MaxFaults = 1
SPECIFICATION FairSpec
INVARIANTS AppliedOnce ProcessedCoversHandlers
PROPERTIES AnnouncementIsFinal EventuallySettled
CHECK_DEADLOCK FALSE
