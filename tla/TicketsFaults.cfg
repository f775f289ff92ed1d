SPECIFICATION Spec
CONSTANTS
    Tickets = {t1, t2}
    Assigns = {a1, a2}
    Acks = {a2}
    Queries = {}
    Watched = {}
    Faults = {"store", "crash"}
    None = None
SYMMETRY Symmetry
PROPERTIES GoneStaysGone
CHECK_DEADLOCK FALSE
