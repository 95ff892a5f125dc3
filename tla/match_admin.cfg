CONSTANTS
    p1 = p1
    p2 = p2
    p3 = p3
    NoOne = NoOne
    Players <- TwoPlayers
    NumTeams = 3
    TeamOf <- TeamsOfPlayers
    Settings <- AdminSettings
    ReJoinDelay = 1
    LobbyMaps = {0, 1}
    Votes = {"restart", "forcestart", "forcespec", "map"}
    Commands = {"restart", "forcestart", "nextmap", "map"}
    EarlyKills = TRUE
    MaxTime = 4
    MaxScore = 1
    MaxDebt = 1
SPECIFICATION Spec
INVARIANTS NoOverfill QueueInOrder
PROPERTIES RoundsStartLevel
