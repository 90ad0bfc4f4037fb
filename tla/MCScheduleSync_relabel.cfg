CONSTANTS
    MaxVersion = 2
    MaxEdits = 2
    MaxDrops = 1
    MaxFaults = 1
    MaxRestarts = 1
SPECIFICATION FairSpec
INVARIANT PublishedIsServers
CHECK_DEADLOCK FALSE
