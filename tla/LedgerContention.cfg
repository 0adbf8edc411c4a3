SPECIFICATION FairSpec
CONSTANTS
    Games <- TwoGames
    Jobs <- TwoJobs
    NoGame = NoGame
    FeatureSets <- OneSet
    Slots <- OneSlot
    LastTick = 0
    MaxRuns = 3
    MaxVersions = 1
    MaxRev = 0
INVARIANTS
    ChainIntegrity
PROPERTIES
    ImplementsHistory
    RunsEnd
CHECK_DEADLOCK FALSE
