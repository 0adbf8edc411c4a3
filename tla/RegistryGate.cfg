SPECIFICATION Spec
CONSTANTS
    Trainers <- TwoTrainers
    Grid <- TwoC
    Sets <- TwoSets
    LastGames = 1
    MaxRuns = 3
INVARIANTS
    TypeOK
    OneServed
    VersionsInSequence
PROPERTIES
    ConfigurationEarned
CHECK_DEADLOCK FALSE
