\* Two instances that run and defer the same row.
SPECIFICATION RSpec
CONSTANTS
    s1 = s1  t1 = t1  p1 = p1  p2 = p2
    Subject = {s1}
    Tenant = {t1}
    TenantOf <- OneTenant
    Event = {"credential_rotated"}
    Process = {p1, p2}
    Components = 1
    Batch = 1
    FastPathBudget = 1
    FastPathGrace = 1
    PassTimeout = 1
    RetryBase = 1
    RetryCap = 2
    MaxAge = 2
    StaleAfter = 1
    ForgetSlack = 1
    Retention = 1
    MaxAttempts = 1
    MaxMutations = 1
    MaxCrashes = 0
    MaxErasures = 0
INVARIANT ReadyHonest
