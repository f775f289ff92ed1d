SPECIFICATION FairRunSpec
CONSTANTS
    t1 = t1  t2 = t2  t3 = t3  other = other  b1 = b1  b2 = b2
    low = low  any = any
    Requests = {low, any}
    MaxVersion = 1
    None = None  Error = Error
    NoBackfill = NoBackfill  New = New  Unset = Unset  NaN = NaN  
    MinPageSize = 2  DefaultPageSize = 3  MaxPageSize = 4
    PlayersPerMatch = 2  MaxNotFull = 1  SkillDifference = 2
    PoolSeq <- MCPoolSeq
    Pool <- MCPool
    Entity <- MCEntity
    TicketsAt <- MCTicketsAt
    BackfillsAt <- MCBackfillsAt
    Orders <- MCOrders
    PageSizes = {1}
    Plans = {"pools", "scenario", "sequence", "ids"}
    Faults = {"query", "caller"}
INVARIANTS AnswersWhole ProposalsFresh EveryoneMatched FilterDecidesCases
PROPERTIES FreshAnswers RunEnds
CHECK_DEADLOCK FALSE
