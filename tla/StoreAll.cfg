SPECIFICATION Spec
CONSTANTS
    Writers <- AllWriters
    Readers <- Nobody
    NoRun = NoRun
    Absent <- NoDump
    NoSchema <- NoTables
    MaxRuns = 3
    MaxFaults = 3
    MaxBreaks = 2
INVARIANTS
    RollbackIsPredecessor
CHECK_DEADLOCK FALSE
