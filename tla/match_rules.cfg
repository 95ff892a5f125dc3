CONSTANTS
    p1 = p1
    p2 = p2
    p3 = p3
    NoOne = NoOne
    Players <- ThreePlayers
    NumTeams = 3
    TeamOf <- TeamsOfPlayers
    Settings <- RulesSettings
    ReJoinDelay = 1
    LobbyMaps = {0}
    Votes = {}
    Commands = {}
    EarlyKills = FALSE
    MaxTime = 4
    MaxScore = 1
    MaxDebt = 1
SPECIFICATION Spec
INVARIANTS NobodyWaitsInVain RoundLimitHolds WinsAreRounds SurvivorsRemain
PROPERTIES MatchWinnerLeads NoLateJoin
SYMMETRY Alike
