CONSTANTS
    Calls = {"c1", "c2"}
    Proposals = {"p1", "q"}
    Ids = {"id", "p2"}
    CallOf <- MCCallOf
    MatchId <- MCSharedId
    Faults = {"evaluator", "start", "store"}
    None = None
SPECIFICATION Spec
INVARIANTS OkIsSound
PROPERTIES ReturnedOnce
CHECK_DEADLOCK FALSE
