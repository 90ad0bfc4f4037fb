CONSTANTS
    MaxVersion = 2
    MaxEdits = 2
    MaxDrops = 1
    MaxFaults = 1
    MaxRestarts = 1
    Typed = {0, 1, 2, 3}
    Settable = {1, 2}
    Published <- SomeLimits
    MaxConfigs = 2
    MaxRevs = 2
    MaxBadWrites = 1
SPECIFICATION DocumentsSpec
INVARIANTS ReportsWhatRuns DeadEditsStayDead NoDeadLimits
PROPERTIES PublishedNeverRegresses EditsSettle
CHECK_DEADLOCK FALSE
