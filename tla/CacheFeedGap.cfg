\* A feed pruned while the follower is at the zero cursor.
SPECIFICATION Spec
CONSTANTS
    Key = {k1}
    Reader = {r1}
    Unannounced = {}
    DetectsGap = TRUE
    Capacity = 1
    PollBound = 2
    Retention = 2
    Page = 2
    MaxPages = 2
    Seals = {0}
    MaxChanges = 1
    MaxTime = 5
SYMMETRY SameReaders
INVARIANTS
    LatencyBound
