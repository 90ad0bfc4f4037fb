CONSTANTS
    MaxPending = 3
    MaxAttempts = 3
    FlushBatch = 2
    MaxMoment = 2
SPECIFICATION FairSpec
INVARIANTS NothingGivenUp
