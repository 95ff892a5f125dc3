SPECIFICATION Spec
CONSTANTS
    Maps = {"m1", "m2", "m3"}
    NoMap = "none"
    VersionSize = 256
    MajorityNum = 1
    MajorityDen = 2
    CountAbs = FALSE
    TimeLimit = 2
    Clients = {"a", "b"}
    Askers = {"a"}
    IntTime = 2
    StartLists <- MCLists
    MaxMaps = 3
    Budgets <- MCBudgets
INVARIANTS IndexFollowsMap PatientOkIsTrue NoVoteAcrossLevels
PROPERTIES MapVoteLoadsItsMap VotesEnd QueriesEnd
