SPECIFICATION Spec
CONSTANTS
    Players = {"p1", "p2"}
    Viewers = {w1}
    MaxUpdates = 2
    MaxRounds = 2
    Casts <- MCCasts
    Runners = {r1, r2}
    OpenBackfills = {b1}
    Profiles = {f1, f2}
    Workers = {k1, k2}
    Slots = 2
    Capacity = 1
    MaxTicks = 1
    Scenarios <- MCScenarios
    Entrants = {1, 2, 3, 4}
    Draws <- MCDraws
    GameModes = {"a", "b"}
    PerMatch = 2
    MaxFetches = 2
    Calls = {c1, c2, c3}
    Checks = {h1}
    Configs <- MCConfigs
    Names = {1, 2, 3}
    OpenMatchNames = {1, 2}
    Reaps = {q1, q2}
    Found = {2, 3}
    MaxLives <- MCLives
INVARIANTS ProgramsInv
PROPERTIES PageFollows DeletedWhenDone IterationsEnd EntrantsServed  ReapsOrphans
CHECK_DEADLOCK FALSE
