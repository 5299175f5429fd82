\* Accounts of an erased tenant, which the epoch feed does not announce.
SPECIFICATION Spec
CONSTANTS
    Key = {k1}
    Reader = {r1}
    Unannounced = {k1}
    DetectsGap = FALSE
    Capacity = 1
    PollBound = 2
    Retention = 2
    Page = 2
    MaxPages = 2
    Seals = {0}
    MaxChanges = 0
    MaxTime = 4
SYMMETRY SameReaders
INVARIANTS
    ErasedUnknown
