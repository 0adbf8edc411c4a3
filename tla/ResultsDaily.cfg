SPECIFICATION FairSpec
CONSTANTS
    NumGames = 3
    Players <- Pitchers
    GameDay <- TwoDays
    Roster <- Boxes
    Probable <- Starters
    Bad <- SecondBad
    DaysBack = 1
    DaysAhead = 1
    BatchSize = 2
    LastDay = 2
    MaxFaults = 2
    MaxKills = 1
INVARIANTS
    StoredWhole
    ReportTruthful
PROPERTIES
    SoundGamesStored
