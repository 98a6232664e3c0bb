SPECIFICATION ProtocolSpec
CONSTANTS
    Assignment = {a1}
    Worker = {w1, w2}
    Nobody = Nobody
    MaxAttempts = 2
    MaxNumber = 2
    LeaseSeconds = 1
    MaxLeaseSeconds = 2
    OfflineAfter = 1
    MaxConcurrency = 1
    Drainable = {w1, w2}
    Token = {t1, t2, t3}
    NoToken = NoToken
    NoJob = NoJob
    Pinned = {w1, w2}
    ClaimTries = 2
    MaxStray = 1
    MaxLoad = 2
SYMMETRY ProtocolSymmetry
INVARIANTS
    EffectOncePerRow
    CompletedWasExecuted
