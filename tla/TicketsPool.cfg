SPECIFICATION FairSpec
CONSTANTS
    Tickets = {t1}
    Assigns = {a1, a2}
    Acks = {}
    Queries = {q1}
    Watched = {t1}
    Faults = {}
    None = None
INVARIANTS WatchedInOrder
PROPERTIES ServedWasInPool NeverExposed WatchSeesAssignment
CHECK_DEADLOCK FALSE
