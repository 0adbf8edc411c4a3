CONSTANTS
    t1 = t1
    t2 = t2
    t3 = t3
    Teams = {t1, t2, t3}
    Fixtures <- MCFixtures
    TypeAt <- MCTypeAt
    DayTicks = 3
    FirstTick = 1
    SecondTick = 2
    Lag = 1
    Ahead = 1
    MinLength = 2
    MaxLength = 3
    Pooled = 3
    Cap = 2
    MinLeague = 1
    StepDays = 2
    ValidationDays = 1
    MinRows = 2
    MinCalibration = 1
    MaxGames = 4
    MaxOff = 1
SPECIFICATION Spec
CHECK_DEADLOCK FALSE
INVARIANTS
    EnteringIsRun
    TablesAgree
    NoLookAhead
    RatingIsPregame
    StepsSound
