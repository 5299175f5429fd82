\* Two goroutines, links for two changes an address, two slots for spans and tenures.
SPECIFICATION Spec
CONSTANTS
    Worker = {w1, w2}
    Address = {"x", "y", "z"}
    TTL = 12
    Cap = 2
    Slots = 2
    Slack = 1
    Lease = 9
    MaxTime = 20
    Scenario <- MCScenario
SYMMETRY SameWorkers
CHECK_DEADLOCK FALSE
INVARIANTS
    LinkAtItsAddress
    RevertedForGood
    GapsLocked
    EveryChangeRevertible
    RevertComplete
