SPECIFICATION FairSpec

CONSTANTS
    Caller = {c1, c2}
    Limit = 2
    Attempts = 2
    Threshold = 2
    LastDay = 1
    MaxRestarts = 1

INVARIANT TypeOK
INVARIANT QuotaRespected
INVARIANT SentWithinBudget
PROPERTY BreakerEndsAtReset
PROPERTY ImplementsBudget
PROPERTY CallsReturn
CHECK_DEADLOCK FALSE
