\* Two instances around the rows of one mutation, with a crash and an erasure.
SPECIFICATION Spec
CONSTANTS
    s1 = s1  t1 = t1  p1 = p1  p2 = p2
    Subject = {s1}
    Tenant = {t1}
    TenantOf <- OneTenant
    Event = {"credential_rotated", "delete"}
    Process = {p1, p2}
    Components = 2
    Batch = 3
    FastPathBudget = 1
    FastPathGrace = 1
    PassTimeout = 1
    RetryBase = 1
    RetryCap = 1
    MaxAge = 1
    Retention = 1
    MaxAttempts = 1
    MaxMutations = 1
    MaxCrashes = 1
    MaxErasures = 1
SYMMETRY Instances
INVARIANTS ErasedLast DoneDelivered OneGoroutinePerRow
PROPERTY DoneIsFinal
