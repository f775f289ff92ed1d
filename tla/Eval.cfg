SPECIFICATION FairSpec
CONSTANTS
    Matches = {m1, m2, m3}
    Tickets = {t1}
    Backfills = {b1}
    MaxScore = 2
    Faults = {"recv", "send"}
    None = None
INVARIANTS GreedyChoice
PROPERTIES CallReturns
CHECK_DEADLOCK FALSE
