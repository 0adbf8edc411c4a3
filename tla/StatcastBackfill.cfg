SPECIFICATION Spec
CONSTANTS
    a = a
    b = b
    c = c
    foreign = foreign
    regular = regular
    callup = callup
    ghost = ghost
    Games = {a, b, c, foreign}
    InTable = {a, b, c}
    DateOf <- Dates
    Rows = {1, 2, 3, 4, 5, 6, 7}
    GameOf <- RowGame
    By <- RowBy
    Thrown <- RowThrown
    Strikeouts = {6, 7}
    HomeRuns = {2}
    InPlay = {2, 3}
    Box <- Boxes
    Odd = {4}
    Players = {regular, callup, ghost}
    Resolvable = {regular, callup}
    Stored = {regular}
    Over = {a, b}
    Out = {3, 5, 6, 7}
    PitchTolerance = 5
    EventTolerance = 1
    Limit = 0
    MaxJobs = 2
    MaxFaults = 1
INVARIANTS
    StoredTogether
PROPERTIES
    SuccessLeavesNothing
    ShortGamesNamed
    RunEnds
CHECK_DEADLOCK FALSE
