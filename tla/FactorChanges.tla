--------------------------- MODULE FactorChanges ----------------------------
(***************************************************************************)
(* The second factors of a signed-in account change while requests of       *)
(* module SignIn verify them: enrolling, confirming and disabling the TOTP, *)
(* regenerating the recovery codes (mfasvc/endpoints), registering and      *)
(* removing passkeys (passkeysvc/register, credentials).  Every change      *)
(* bumps the security epoch before it writes the factor, in two calls, and  *)
(* may be cut off between them.                                             *)
(***************************************************************************)
EXTENDS SignIn

BumpEpoch ==
    /\ account.usable /\ account.epoch < scene.epochs
    /\ account' = [account EXCEPT !.epoch = @ + 1]

Bump(q, pc, next) ==
    /\ req[q].pc = pc
    /\ BumpEpoch
    /\ Goto(q, next)
    /\ UNCHANGED <<ceremonyVars, factorVars, scene, password, sealed, historyVars>>

\* /mfa/totp/enroll: the row is read and a confirmed one refused.
Enroll(q) ==
    /\ Start(q, "enroll") /\ generated < scene.secrets
    /\ ~ totp.confirmed
    /\ Become(q, [Idle EXCEPT !.op = "enroll", !.pc = "save", !.snap = totp])
    /\ UNCHANGED <<ceremonyVars, factorVars, scene, accountVars, sealed, historyVars>>

EnrollSave(q) ==
    /\ req[q].pc = "save"
    /\ SaveTOTP(req[q].snap)
    /\ Forget({"totp"})
    /\ End(q)
    /\ UNCHANGED <<ceremonyVars, scene, accountVars, sealed, session, compared, spent, twice>>

\* /mfa/totp/confirm: a code of the unconfirmed secret, the epoch, the row.
Confirm(q) ==
    /\ Start(q, "confirm") /\ generated < scene.secrets
    /\ totp # NoTOTP /\ ~ totp.confirmed
    /\ Become(q, [Idle EXCEPT !.op = "confirm", !.pc = "verify"])
    /\ UNCHANGED <<ceremonyVars, factorVars, scene, accountVars, sealed, historyVars>>

ConfirmBump(q) == req[q].op = "confirm" /\ Bump(q, "verified", "confirm_write")

ConfirmWrite(q) ==
    /\ req[q].pc = "confirm_write"
    /\ ConfirmEnrollment(req[q].snap, req[q].n)
    /\ Forget({"recovery"})
    /\ End(q)
    /\ UNCHANGED <<ceremonyVars, scene, accountVars, sealed, session, compared, spent, twice>>

\* /mfa/totp/disable: a code, then whether a passkey keeps the recovery codes.
Disable(q) ==
    /\ Start(q, "disable")
    /\ HasConfirmedTOTP
    /\ Become(q, [Idle EXCEPT !.op = "disable", !.pc = "verify"])
    /\ UNCHANGED <<ceremonyVars, factorVars, scene, accountVars, sealed, historyVars>>

DisableReadKeys(q) ==
    /\ req[q].op = "disable" /\ req[q].pc = "verified"
    /\ Become(q, [req[q] EXCEPT !.pc = "disable_bump", !.m = IF HasActive THEN 1 ELSE 0])
    /\ UNCHANGED <<ceremonyVars, factorVars, scene, accountVars, sealed, historyVars>>

DisableBump(q) == Bump(q, "disable_bump", "disable_totp")

DisableTOTP(q) ==
    /\ req[q].pc = "disable_totp"
    /\ DeleteTOTP
    /\ Forget({"totp"})
    /\ IF req[q].m = 1 THEN End(q) ELSE Goto(q, "disable_codes")
    /\ UNCHANGED <<ceremonyVars, scene, accountVars, sealed, session, compared, spent, twice>>

\* Shared by the last step of disabling and of removing the last passkey.
DropCodes(q) ==
    /\ req[q].pc = "disable_codes"
    /\ DeleteRecoveryCodes
    /\ Forget({"recovery"})
    /\ End(q)
    /\ UNCHANGED <<ceremonyVars, scene, accountVars, sealed, session, compared, spent, twice>>

\* /mfa/recovery-codes/regenerate
Regenerate(q) ==
    /\ Start(q, "regenerate") /\ generated < scene.secrets
    /\ HasSecondFactor
    /\ Become(q, [Idle EXCEPT !.op = "regenerate", !.pc = "regenerate_bump"])
    /\ UNCHANGED <<ceremonyVars, factorVars, scene, accountVars, sealed, historyVars>>

RegenerateBump(q) == Bump(q, "regenerate_bump", "regenerate_write")

RegenerateWrite(q) ==
    /\ req[q].pc = "regenerate_write"
    /\ ReplaceRecoveryCodes
    /\ Forget({"recovery"})
    /\ End(q)
    /\ UNCHANGED <<ceremonyVars, scene, accountVars, sealed, session, compared, spent, twice>>

\* /passkey/register: a record bound to the session's account and epoch.
RegisterBegin(q) ==
    /\ Start(q, "register") /\ drawn < scene.handles
    /\ account.usable
    /\ Become(q, [Idle EXCEPT !.op = "register", !.pc = "register_put",
                              !.p = [NewPending EXCEPT !.epoch = account.epoch]])
    /\ UNCHANGED <<ceremonyVars, factorVars, scene, accountVars, sealed, historyVars>>

RegisterPut(q) ==
    /\ req[q].pc = "register_put"
    /\ IF Storable(req[q].p) THEN drawn < scene.handles /\ Put("PasskeyRegistration", req[q].p)
                             ELSE UNCHANGED <<drawn, records, marks>>
    /\ End(q)
    /\ UNCHANGED <<now, factorVars, scene, accountVars, sealed, historyVars>>

\* The finish consumes the record; credential c is the one created for it.
Register(q, h, c) ==
    /\ Start(q, "register")
    /\ h \in Live("PasskeyRegistration")
    /\ Consume(h)
    /\ Accept(Record(h))
    /\ Become(q, [Idle EXCEPT !.op = "register", !.pc = "register_check", !.c = c,
                              !.p = records[h].pending])
    /\ UNCHANGED <<now, factorVars, scene, accountVars, sealed, session, compared, guesses>>

RegisterCheck(q) ==
    /\ req[q].pc = "register_check"
    /\ IF account.usable /\ account.epoch = req[q].p.epoch /\ req[q].c \notin DOMAIN keys
         THEN Goto(q, "register_bump") ELSE End(q)
    /\ UNCHANGED <<ceremonyVars, factorVars, scene, accountVars, sealed, historyVars>>

RegisterBump(q) == Bump(q, "register_bump", "register_save")

RegisterSave(q) ==
    /\ req[q].pc = "register_save"
    /\ SavePasskey(req[q].c, 0)
    /\ End(q)
    /\ UNCHANGED <<ceremonyVars, scene, accountVars, sealed, historyVars>>

\* /passkey/credentials/delete: the epoch, the row, then whether any second
\* factor is left to keep the recovery codes for.
Remove(q, c) ==
    /\ Start(q, "remove")
    /\ c \in DOMAIN keys
    /\ Become(q, [Idle EXCEPT !.op = "remove", !.pc = "remove_bump", !.c = c])
    /\ UNCHANGED <<ceremonyVars, factorVars, scene, accountVars, sealed, historyVars>>

RemoveBump(q) == Bump(q, "remove_bump", "remove_key")

RemoveKey(q) ==
    /\ req[q].pc = "remove_key"
    /\ DeletePasskey(req[q].c)
    /\ IF req[q].c \in DOMAIN keys THEN Goto(q, "remove_totp") ELSE End(q)
    /\ UNCHANGED <<ceremonyVars, scene, accountVars, sealed, historyVars>>

RemoveReadTOTP(q) ==
    /\ req[q].pc = "remove_totp"
    /\ Become(q, [req[q] EXCEPT !.pc = "remove_keys", !.m = IF HasConfirmedTOTP THEN 1 ELSE 0])
    /\ UNCHANGED <<ceremonyVars, factorVars, scene, accountVars, sealed, historyVars>>

RemoveReadKeys(q) ==
    /\ req[q].pc = "remove_keys"
    /\ IF req[q].m = 1 \/ HasActive THEN End(q) ELSE Goto(q, "disable_codes")
    /\ UNCHANGED <<ceremonyVars, factorVars, scene, accountVars, sealed, historyVars>>

ChangeNext(q) ==
    \/ Enroll(q)
    \/ EnrollSave(q)
    \/ Confirm(q)
    \/ ConfirmBump(q)
    \/ ConfirmWrite(q)
    \/ Disable(q)
    \/ DisableReadKeys(q)
    \/ DisableBump(q)
    \/ DisableTOTP(q)
    \/ DropCodes(q)
    \/ Regenerate(q)
    \/ RegenerateBump(q)
    \/ RegenerateWrite(q)
    \/ RegisterBegin(q)
    \/ RegisterPut(q)
    \/ \E h \in DOMAIN records, c \in Credential : Register(q, h, c)
    \/ RegisterCheck(q)
    \/ RegisterBump(q)
    \/ RegisterSave(q)
    \/ \E c \in Credential : Remove(q, c)
    \/ RemoveBump(q)
    \/ RemoveKey(q)
    \/ RemoveReadTOTP(q)
    \/ RemoveReadKeys(q)

Next ==
    \/ \E q \in Request :
         \/ Complete(q)
         \/ PasswordNext(q)
         \/ VerifyNext(q)
         \/ FlowNext(q)
         \/ MailNext(q)
         \/ PasskeyNext(q)
         \/ ChangeNext(q)
         \/ Crash(q)
    \/ Around

Spec == Init /\ [][Next]_vars

(***************************************************************************)
(* Properties.                                                              *)
(***************************************************************************)
\* Every variable has its shape; a stored record has attempts left and Put
\* leaves at most the cap of live records in a scope.
TypeOK ==
    /\ now \in 1..scene.time /\ drawn \in 0..scene.handles
    /\ \A h \in DOMAIN records :
          /\ h \in 1..drawn
          /\ records[h].attempts \in 0..(MaxAttempts[records[h].kind] - 1)
          /\ records[h].expires \in Nat
    /\ \A k \in DOMAIN MaxLive : Cardinality(Live(k)) <= MaxLive[k]
    /\ DOMAIN marks \subseteq DOMAIN sealed /\ DOMAIN sealed \subseteq 1..drawn
    /\ totp.secret \in 0..generated /\ totp.confirmed \in BOOLEAN
    /\ totp.counter.failed \in 0..MaxFactorAttempts /\ recovery.failed \in 0..MaxFactorAttempts
    /\ codes \subseteq 1..generated /\ DOMAIN keys \subseteq Credential
    /\ \A c \in DOMAIN keys : keys[c].count \in 0..MaxCount
    /\ account.epoch \in 1..(scene.epochs + 1) /\ account.usable \in BOOLEAN

\* However requests interleave, at most MaxAttempts codes are ever compared
\* with one emailed code (checkCode charges before it compares).
CodeGuessesBounded == \A h \in DOMAIN compared : compared[h] <= MaxAttempts["EmailCode"]

\* No code, link, flow, TOTP step, recovery code or signature counter is
\* accepted by two requests, and no stateless handle by two before it expires,
\* which is as long as MarkConsumed makes it single-use.  Nor is the step that
\* confirmed an enrolment accepted later, by a login or a reauthentication, as
\* long as no other enrolment is saved over it.
ProofUsedOnce == twice = {}

\* Secrets compared on channel c in the last n instants.  Only the present one
\* can gain a comparison, so bounding it in every state bounds every window.
LastGuesses(c, n) == SumFunctionOnSet(guesses[c], {t \in Instants : now - n < t /\ t <= now})

\* Between two resets, at most MaxFactorAttempts TOTP codes, and as many
\* recovery codes, are compared in any LockoutDuration, racing requests
\* included (bump counts before the code is looked at).  Wrong passwords in any
\* LockoutWindow exceed the threshold only by requests that had read the record
\* before a lock was written; a window may hold such stragglers of two locks.
GuessesThrottled ==
    /\ \A c \in {"totp", "recovery"} : LastGuesses(c, LockoutDuration + 1) <= MaxFactorAttempts
    /\ LastGuesses("pwd", LockoutWindow) <= LockoutThreshold + 2 * (Cardinality(Request) - 1)

\* A lockout runs from an attempt whose secret was compared: attempts refused
\* while it lasts never prolong it.  Of the TOTPs this is said of the one the
\* account began with: an enrolment's row starts with the counter of the row it
\* replaces.
LockedOnlyByGuesses ==
    /\ (scene.totp.confirmed /\ totp.secret = scene.totp.secret /\ totp.counter.failed > 0)
          => guesses["totp"][totp.counter.last] > 0
    /\ recovery.failed > 0 => guesses["recovery"][recovery.last] > 0
    /\ password.until > 0 => guesses["pwd"][password.until - LockoutWindow] > 0

\* Every factor of an admitted session was verified under the security epoch
\* the session carries, save the one that identified an unbound journey: no
\* proof outlives the change of a credential (Pending.Add, core.Admit).
FactorsOfOneEpoch == \A v \in session.proofs : v.binds \/ v.epoch = session.epoch

\* The confirmed secret is the one a code was accepted for, whatever enrolment
\* request replaced the row meanwhile.
EnrolmentProved ==
    totp.confirmed => \/ scene.totp.confirmed /\ totp.secret = scene.totp.secret
                      \/ \E v \in spent : v[1] = "totp" /\ v[2] = totp.secret
=============================================================================
