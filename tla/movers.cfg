\* A door that opens by itself and two more movers, or one that is stopped.
CONSTANTS
    Ids = {1, 2, 3}
    Top = 4
    LowFloor = 0
    HighFloor = 2
    LowCeiling = 3
    HighCeiling = 4
    ThingHeight = 2
    Delay = 2
    Kinds = {"door", "plat", "ceiling", "floor", "pillar", "elevator", "stop"}
    MaxUses = 2
    MaxEnters = 1
    InitPlanes <- MCPlanes
SPECIFICATION FairSpec
INVARIANTS TypeOK EveryMoverOwnsItsPlane MoversAreListed CrushersRecover
PROPERTIES MoversEnd
\* The bounds end the activations.
CHECK_DEADLOCK FALSE
