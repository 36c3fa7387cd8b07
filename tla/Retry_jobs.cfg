SPECIFICATION FairRetrySpec
CONSTANTS
    t1 = t1
    t2 = t2
    d1 = d1
    d2 = d2
    Free = Free
    Bet = {t1, t2}
    Tx = {t1}
    Batch <- MCBatch
    MaxJobs = 2
    MaxCrashes = 1
    MaxCalls = 3
    Pod = {d1, d2}
    Scenarios <- MCScenarios
INVARIANT RetryTypeOK
INVARIANT OneActiveJob
INVARIANT SuccessShowsInRow
PROPERTY FinishedJobsStay
PROPERTY FailedIsRetried
