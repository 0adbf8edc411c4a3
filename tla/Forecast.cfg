CONSTANTS
    a = a
    b = b
    c = c
    d = d
    Teams = {a, b, c, d}
    Schedules <- MCSchedules
    ThisSeason = 4
    DayTicks = 8
    SlotTick <- MCSlotTick
    SeasonDays = 3
    Lag = 3
    Ahead = 2
    Recent = 12
    TeamWeights <- MCTeamWeights
    PitcherWeights <- MCPitcherWeights
    LookbackSeasons = 3
    MinForm = 1
    MinCorps = 1
    Leads = {1, 3}
    Transactions <- MCTransactions
    Recency = 6
    MinGames = 1
    MinSample = 3
    Backfills <- MCBackfills
    MaxCalls = 1
    MaxBehind = 1
SPECIFICATION Spec
CHECK_DEADLOCK FALSE
INVARIANTS
    LiveIsReplayed
    NoFutureFact
    SlatePriors
    LookbackEnough
    ServedAsScored
    VariantsCovered
