SPECIFICATION FairSpec
CONSTANTS
    Ids = {i1, i2}
    MaxProposals = 3
    Faults = {"sync", "mmf", "store", "caller"}
    None = None
INVARIANTS OkMeansComplete
PROPERTIES FetchReturns
CHECK_DEADLOCK FALSE
