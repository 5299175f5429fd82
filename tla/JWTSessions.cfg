\* One session of one account and two concurrent requests; key renewals.
SPECIFICATION Spec
CONSTANTS
    Request = {q1, q2}
    MaxLogins = 1
    Scenario <- Scenes
    Factor = {"totp"}
    IdleTTL = 2
    MaxLifetime = 3
    RecheckEvery = 2
    PollBound = 1
    MaxEpoch = 3
    ReuseGrace = 1
    FirstKid = 1
    Kid = {1, 2, 3}
    Renewal = {r1, r2}
    KeyLife = {0, 1}
    Overlap = 4
    RenewalLasts = 1
SYMMETRY Draws
INVARIANTS
    SignedVerifies
    RevokedRefused
    ChangesEnforced
    KeysFinal
PROPERTIES
    SignerKept
    KeepsContract
