\* Two sessions of one account and two concurrent requests.
SPECIFICATION Spec
CONSTANTS
    Request = {q1, q2}
    MaxLogins = 2
    Scenario <- Scenes
    Factor = {"totp"}
    IdleTTL = 2
    MaxLifetime = 2
    RecheckEvery = 1
    PollBound = 1
    MaxEpoch = 3
SYMMETRY Draws
INVARIANTS
    OneRowPerLineage
    SecondFactorEnforced
    ChangesEnforced
PROPERTIES
    KeepsContract
