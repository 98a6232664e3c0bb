SPECIFICATION FairSpec
CONSTANTS
    Assignment = {a1}
    Worker = {w1, w2}
    Nobody = Nobody
    MaxAttempts = 2
    MaxNumber = 3
    LeaseSeconds = 1
    MaxLeaseSeconds = 2
    OfflineAfter = 1
    MaxConcurrency = 1
    Drainable = {w1}
INVARIANTS StartsWithinAttempts ReportedOnce NoLiveLeaseWithoutWorker
PROPERTIES ImplementsStageTask EveryHoldEnds
