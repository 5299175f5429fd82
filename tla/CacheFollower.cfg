\* Two calls, a poller that may lag, fail and fall behind a pruned feed, and this
\* process's own writes.
SPECIFICATION ExploredSpec
CONSTANTS
    Key = {k1}
    Reader = {r1, r2}
    Unannounced = {k1}
    DetectsGap = TRUE
    Capacity = 1
    PollBound = 2
    Retention = 2
    Page = 1
    MaxPages = 2
    Seals = {0, 1}
    MaxChanges = 2
    MaxTime = 4
SYMMETRY SameReaders
INVARIANTS
    BoundedStaleness
    NoLostChange
    OwnWritesSeen
    SealedEpochKnown
