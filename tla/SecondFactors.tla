--------------------------- MODULE SecondFactors ----------------------------
(***************************************************************************)
(* The second factors of one account: the TOTP enrolment and the recovery   *)
(* codes of store/mfa, each with its own attempt counter, and the passkeys  *)
(* of store/passkey.  Every definition that primes a variable is one call   *)
(* of a store, atomic under the store's lock.                               *)
(*                                                                          *)
(* A TOTP step is one instant of the clock.  Secrets and recovery codes are *)
(* numbered as they are generated; regenerating the codes gives the account *)
(* one fresh code, which is enough to tell the old ones from the new.       *)
(***************************************************************************)
EXTENDS Integers, FiniteSets, Functions, TLC

CONSTANTS
    MaxFactorAttempts,  \* mfasvc.MaxAttempts
    LockoutDuration,    \* mfasvc.LockoutDuration
    Skew                \* TOTP steps accepted before and after the current one

VARIABLES
    totp,       \* the enrolment, or NoTOTP
    codes,      \* the unused recovery codes
    recovery,   \* the attempt counter of the recovery codes
    keys,       \* credential -> registered passkey
    generated   \* number of secrets and recovery codes generated so far

factorVars == <<totp, codes, recovery, keys, generated>>

NoCounter == [failed |-> 0, last |-> 0]

\* The enrolment row; secret 0 is no row.
NoTOTP == [secret |-> 0, confirmed |-> FALSE, used |-> 0, counter |-> NoCounter]

HasConfirmedTOTP == totp.confirmed
HasActive == \E c \in DOMAIN keys : keys[c].active
HasSecondFactor == HasConfirmedTOTP \/ HasActive

\* Mutant: an attempt during the lockout starts the wait again.
ChargedExtends(c, t) ==
    IF c.failed < MaxFactorAttempts THEN [failed |-> c.failed + 1, last |-> t]
    ELSE IF t - c.last > LockoutDuration THEN [failed |-> 1, last |-> t]
    ELSE [c EXCEPT !.last = t]

\* The attempt counter c charged at time t, and what the caller is told.
Charged(c, t) ==
    IF c.failed < MaxFactorAttempts THEN [failed |-> c.failed + 1, last |-> t]
    ELSE IF t - c.last > LockoutDuration THEN [failed |-> 1, last |-> t]
    ELSE c

Reported(c, t) ==
    IF c.failed < MaxFactorAttempts THEN c.failed + 1
    ELSE IF t - c.last > LockoutDuration THEN 1
    ELSE MaxFactorAttempts + 1

IncrementTOTPAttempts(t) ==
    /\ totp' = [totp EXCEPT !.counter = Charged(totp.counter, t)]
    /\ UNCHANGED <<codes, recovery, keys, generated>>

\* The steps whose code matchTOTP accepts at time t.
TOTPWindow(t) == (t - Skew)..(t + Skew)

\* Mutant: the step used last counts as fresh.
FreshSame(step) == totp # NoTOTP /\ step >= totp.used

Fresh(step) == totp # NoTOTP /\ step > totp.used

MarkTOTPUsed(step) ==
    /\ totp' = IF Fresh(step) THEN [totp EXCEPT !.used = step, !.counter = NoCounter] ELSE totp
    /\ UNCHANGED <<codes, recovery, keys, generated>>

IncrementRecoveryAttempts(t) ==
    /\ recovery' = Charged(recovery, t)
    /\ UNCHANGED <<totp, codes, keys, generated>>

ConsumeRecoveryCode(c) ==
    /\ codes' = codes \ {c}
    /\ totp' = IF totp = NoTOTP THEN totp ELSE [totp EXCEPT !.counter = NoCounter]
    /\ recovery' = NoCounter
    /\ UNCHANGED <<keys, generated>>

ResetRecoveryAttempts ==
    /\ recovery' = NoCounter
    /\ UNCHANGED <<totp, codes, keys, generated>>

\* A new unconfirmed secret over whatever row there is, with the step and the
\* counter of the row that was read before.
SaveTOTP(prev) ==
    /\ generated' = generated + 1
    /\ totp' = [secret |-> generated + 1, confirmed |-> FALSE,
                used |-> prev.used, counter |-> prev.counter]
    /\ UNCHANGED <<codes, recovery, keys>>

\* Mutant: the row present is confirmed, whichever secret was proved.
ConfirmEnrollmentPresent(e, step) ==
    /\ generated' = generated + 1
    /\ totp' = [totp EXCEPT !.secret = IF @ = 0 THEN e.secret ELSE @, !.confirmed = TRUE, !.used = step]
    /\ codes' = {generated + 1}
    /\ recovery' = NoCounter
    /\ UNCHANGED keys

\* The enrolment e, proved by a code of the given step, becomes the row, and
\* one fresh recovery code replaces the others.
ConfirmEnrollment(e, step) ==
    /\ generated' = generated + 1
    /\ totp' = [secret |-> e.secret, confirmed |-> TRUE,
                used |-> LET s == IF e.used > step THEN e.used ELSE step
                         IN  IF totp.used > s THEN totp.used ELSE s,
                counter |-> IF totp = NoTOTP THEN [failed |-> 0, last |-> e.counter.last]
                                             ELSE totp.counter]
    /\ codes' = {generated + 1}
    /\ recovery' = NoCounter
    /\ UNCHANGED keys

DeleteTOTP ==
    /\ totp' = NoTOTP
    /\ UNCHANGED <<codes, recovery, keys, generated>>

DeleteRecoveryCodes ==
    /\ codes' = {}
    /\ recovery' = NoCounter
    /\ UNCHANGED <<totp, keys, generated>>

ReplaceRecoveryCodes ==
    /\ generated' = generated + 1
    /\ codes' = {generated + 1}
    /\ recovery' = NoCounter
    /\ UNCHANGED <<totp, keys>>

\* The counter rule of WebAuthn: greater, or both zero.
AcceptsSignCount(c, next) == next > keys[c].count \/ (next = 0 /\ keys[c].count = 0)

UpdateSignCount(c, next) ==
    /\ keys' = IF c \in DOMAIN keys /\ AcceptsSignCount(c, next)
                 THEN [keys EXCEPT ![c].count = next] ELSE keys
    /\ UNCHANGED <<totp, codes, recovery, generated>>

Suspend(c) ==
    /\ keys' = IF c \in DOMAIN keys THEN [keys EXCEPT ![c].active = FALSE] ELSE keys
    /\ UNCHANGED <<totp, codes, recovery, generated>>

SavePasskey(c, count) ==
    /\ keys' = IF c \in DOMAIN keys THEN keys ELSE (c :> [count |-> count, active |-> TRUE]) @@ keys
    /\ UNCHANGED <<totp, codes, recovery, generated>>

DeletePasskey(c) ==
    /\ keys' = Restrict(keys, DOMAIN keys \ {c})
    /\ UNCHANGED <<totp, codes, recovery, generated>>

DeleteForSubject ==
    /\ <<totp, codes, keys>> # <<NoTOTP, {}, <<>>>>
    /\ totp' = NoTOTP
    /\ codes' = {}
    /\ recovery' = NoCounter
    /\ keys' = <<>>
    /\ UNCHANGED generated
=============================================================================
