CONSTANTS
    MaxPending = 3
    MaxAttempts = 3
    FlushBatch = 2
    MaxMoment = 3
SPECIFICATION FairSpec
INVARIANTS TypeOK NoChangeMissed
PROPERTIES RewindsOnlyByOrphan Converges
