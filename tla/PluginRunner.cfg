SPECIFICATION FairSpec
CONSTANTS
    Plugins = 3
    MayExit = TRUE
    MayMisreport = TRUE
INVARIANTS
    ReportsAreSound
PROPERTIES
    EveryScanEnds
CHECK_DEADLOCK FALSE
