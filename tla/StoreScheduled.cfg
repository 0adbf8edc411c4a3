SPECIFICATION Spec
CONSTANTS
    Writers <- Scheduled
    Readers <- Pages
    NoRun = NoRun
    Absent <- NoDump
    NoSchema <- NoTables
    MaxRuns = 3
    MaxFaults = 2
    MaxBreaks = 2
INVARIANTS
    Recoverable
PROPERTIES
    ImplementsSerial
    SiteNeverGoesBack
CHECK_DEADLOCK FALSE
