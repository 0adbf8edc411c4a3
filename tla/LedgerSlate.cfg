SPECIFICATION Spec
CONSTANTS
    Games <- TwoGames
    Jobs <- OneJob
    NoGame = NoGame
    FeatureSets <- TwoSets
    Slots <- MCSlots
    LastTick = 3
    MaxRuns = 2
    MaxVersions = 2
    MaxRev = 1
INVARIANTS
    TypeOK
    AuditRowPerSnapshot
    LatestIsNewestAsOf
PROPERTIES
    SnapshotsImmutable
CHECK_DEADLOCK FALSE
