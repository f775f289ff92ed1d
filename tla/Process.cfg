SPECIFICATION MCFairSpec
CONSTANTS
    Users = {q1, q2}
    Services <- MCServices
    MaxProposals = 1
    Rests <- MCRests
    Faults = {"setup", "dial", "address", "call"}
    Configs <- MCConfigs
    MaxChanges = 2
    Nobody = Nobody
INVARIANTS  HttpOkIsWhole RestIsFaithful
PROPERTIES GetIsCurrent CacheFits 
CHECK_DEADLOCK FALSE
