CONSTANTS
    Calls = {"c1", "c2"}
    Proposals = {"p1"}
    Ids = {"p1"}
    CallOf <- MCCallOf
    MatchId <- MCDistinctIds
    Faults = {"stream", "start"}
    None = None
SPECIFICATION FairCycleSpec
PROPERTIES CallsReturn
CHECK_DEADLOCK FALSE
