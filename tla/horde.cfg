CONSTANTS
    grunt = grunt
    baron = baron
    NoType = NoType
    NoActor = NoActor
    MaxActors = 4
    Types = {grunt, baron}
    Health <- MCHealth
    Defines <- MCDefines
    Waves = 2
    HeadStart = 1
    MaxWait = 2
    BossRoom = 2
    MaxRaises = 1
    MaxCommands = 1
SPECIFICATION FairSpec
INVARIANTS BooksAreExact BossLimitHolds
PROPERTIES WavesEnd
