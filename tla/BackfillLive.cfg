SPECIFICATION FairSpec
CONSTANTS
    Calls = {c1, c2}
    Tickets = {t1}
    PendingTimeout = 5
    MaxLag = 1
    MaxCalls = 2
    MaxFaults = 1
    Faults = {"store", "crash", "expiry"}
    None = None
PROPERTIES ExpiredRemoved
CHECK_DEADLOCK FALSE
