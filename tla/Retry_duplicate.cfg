SPECIFICATION RetrySpec
CONSTANTS
    t1 = t1
    t2 = t2
    d1 = d1
    d2 = d2
    Free = Free
    Bet = {t1, t2}
    Tx = {t1}
    Batch <- MCBatch
    MaxJobs = 2
    MaxCrashes = 1
    MaxCalls = 2
    Pod = {d1}
    Scenarios <- RejectOnly
INVARIANT NoDuplicateJobs
