\* Two requests against one account, in every situation of MCSignIn.
SPECIFICATION Spec
CONSTANTS
    TTL <- TTLs
    MaxAttempts <- Attempts
    MaxLive <- Caps
    PendingTTL = 3
    MaxFactorAttempts = 2
    LockoutDuration = 1
    Skew = 1
    Request = {q1, q2}
    LockoutThreshold = 2
    LockoutWindow = 2
    Credential = {"k1", "k2"}
    MaxCount = 2
    Scenes <- AllScenes
SYMMETRY SameRequests
CHECK_DEADLOCK FALSE
INVARIANTS
    CodeGuessesBounded ProofUsedOnce GuessesThrottled LockedOnlyByGuesses
    FactorsOfOneEpoch EnrolmentProved
