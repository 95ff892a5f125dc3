CONSTANTS
    p1 = p1
    p2 = p2
    p3 = p3
    NoOne = NoOne
    Players <- TwoPlayers
    NumTeams = 3
    TeamOf <- OneEach
    Settings <- FlagSettings
    FlagOptions <- HomeOptions
    ReJoinDelay = 1
    LobbyMaps = {0}
    Votes = {"restart"}
    Commands = {}
    EarlyKills = FALSE
    MaxTime = 3
    MaxScore = 1
    MaxDebt = 0
SPECIFICATION CtfSpec
INVARIANTS FlagsAreSomewhere OneEnemyFlag OnlyDefendersFlagMoves PairSeesFlags
