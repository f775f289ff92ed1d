CONSTANTS
    Calls = {"c1", "c2"}
    Proposals = {"p1", "p2", "q"}
    Ids = {"p1", "p2", "q"}
    CallOf <- MCCallOf
    MatchId <- MCDistinctIds
    Faults = {"start", "store"}
    None = None
SPECIFICATION Spec
INVARIANTS PendedBeforeReturned OkMeansComplete AllProposalsEvaluated
PROPERTIES PendingSettledAtCycleEnd
CHECK_DEADLOCK FALSE
