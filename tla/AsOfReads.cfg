SPECIFICATION Spec
CONSTANTS
    night = night
    final = final
    batter = batter
    Games = {night, final}
    Players = {batter}
    Pitch <- FirstPitch
    GameType <- Types
    Roster <- Boxes
    Located = {final}
    Lag = 2
    Day = 2
    Shift = 1
    Recency = 3
    Window = 3
    Grain = 2
    Offsets = {1}
    MaxLength = 3
    MaxDelay = 1
    MaxFacts = 3
    MaxPolls = 2
    MaxTime = 4
INVARIANTS
    HindsightBounded
    ReplayKeeps
    CacheKeepsCut
    ReturnedIsBack
CHECK_DEADLOCK FALSE
