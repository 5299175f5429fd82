\* The rows of one deletion, with a crash and an erasure, under fairness.
SPECIFICATION RFairSpec
CONSTANTS
    s1 = s1  t1 = t1  p1 = p1  p2 = p2
    Subject = {s1}
    Tenant = {t1}
    TenantOf <- OneTenant
    Event = {"delete"}
    Process = {p1}
    Components = 2
    Batch = 1
    FastPathBudget = 1
    FastPathGrace = 1
    PassTimeout = 1
    RetryBase = 1
    RetryCap = 1
    MaxAge = 2
    StaleAfter = 1
    ForgetSlack = 1
    Retention = 1
    MaxAttempts = 1
    MaxMutations = 1
    MaxCrashes = 1
    MaxErasures = 1
INVARIANT ReadyHonest
PROPERTIES
    EveryRowDone
    TombstonesErased
    ReadyRecovers
