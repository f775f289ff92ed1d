SPECIFICATION Spec
CONSTANTS
    Calls = {c1, c2}
    Tickets = {t1, t2}
    PendingTimeout = 10
    MaxLag = 1
    MaxCalls = 3
    MaxFaults = 0
    Faults = {}
    None = None
SYMMETRY Symmetry
INVARIANTS PendingForAReason
PROPERTIES AssignedWhilePending UpdatesBuildOnSeen ServedFollowsStored
CHECK_DEADLOCK FALSE
