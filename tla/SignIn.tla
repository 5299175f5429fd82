------------------------------- MODULE SignIn -------------------------------
(***************************************************************************)
(* Sign-in for one account, request by request and store call by store      *)
(* call: password login and its lockout (identitysvc), emailed codes and    *)
(* magic links (codesvc), passkeys (passkeysvc), the second-factor flow     *)
(* (flow, mfasvc) and the admission every journey ends in (issuance.Complete *)
(* and core.Admit).  Two requests may run at once; each step of a request   *)
(* is one call of a shared store together with the local work around it.    *)
(*                                                                          *)
(* A Pending is [epoch, proofs, expires]: the security epoch it is bound to *)
(* (0 while unbound), the factors verified so far, each with the epoch the  *)
(* account had when it was verified and whether it bound the journey, and   *)
(* its expiry.  The contents of codes, secrets and assertions are left out: *)
(* whether a presented one is right is chosen by the environment, which is  *)
(* the worst case.                                                          *)
(***************************************************************************)
EXTENDS Ceremonies, SecondFactors

CONSTANTS
    Request,            \* concurrent requests
    LockoutThreshold,   \* identitysvc.LockoutThreshold
    LockoutWindow,      \* identitysvc.LockoutWindow
    Credential,         \* passkeys the account may register
    MaxCount,           \* bound on signature counters
    Scenes              \* the bounded situations the behaviours start from

VARIABLES
    scene,      \* the situation: enabled operations and bounds
    account,    \* [epoch, usable]
    password,   \* the password record: failures, last failure, lock
    sealed,     \* stateless handle -> what its holder's ciphertext seals
    req,        \* request -> its operation, its place in it and its locals
    session,    \* the last session admitted
    compared,   \* record -> codes compared with it
    spent,      \* single-use proofs accepted so far
    twice,      \* those accepted more than once
    guesses     \* channel -> instant -> secrets compared since the last reset

accountVars == <<account, password>>
historyVars == <<session, compared, spent, twice, guesses>>
vars == <<ceremonyVars, factorVars, scene, accountVars, sealed, req, historyVars>>

Channels == {"pwd", "totp", "recovery"}
NoPending == [epoch |-> 0, proofs |-> {}, expires |-> 0]
NoPassword == [failed |-> 0, last |-> 0, until |-> 0]
\* A request: operation, place, handle (m: a second one), journey, factor and
\* the epoch it was verified under, row read earlier, credential, number.
Idle == [op |-> "idle", pc |-> "", h |-> 0, m |-> 0, p |-> NoPending, f |-> "", e |-> 0,
         snap |-> NoTOTP, c |-> "", n |-> 0]
Instants == 0..scene.time
NoGuesses == [t \in Instants |-> 0]

In(q, ops, pc) == req[q].op \in ops /\ req[q].pc = pc
Start(q, op) == req[q] = Idle /\ op \in scene.ops
Become(q, r) == req' = [req EXCEPT ![q] = r]
Goto(q, pc) == Become(q, [req[q] EXCEPT !.pc = pc])
End(q) == Become(q, Idle)

NewPending == [NoPending EXCEPT !.expires = now + PendingTTL]

\* A single-use proof is accepted.
Accept(tok) ==
    /\ spent' = spent \cup {tok}
    /\ twice' = IF tok \in spent THEN twice \cup {tok} ELSE twice

\* A code that confirms its own enrolment, or one of a secret whose row an
\* enrolment has replaced: it must not be accepted afterwards, but confirming an
\* enrolment that was never written once more is no harm, and the steps a
\* replaced row had used went with it.
AcceptOwn(tok) == spent' = spent \cup {tok} /\ UNCHANGED twice

Record(h) == <<"record", h, 0>>

\* A secret is compared on channel c; a success, or a new secret, starts the
\* count again.
Guess(c) == guesses' = [guesses EXCEPT ![c][now] = @ + 1]
Forget(cs) == guesses' = [c \in Channels |-> IF c \in cs THEN NoGuesses ELSE guesses[c]]

(***************************************************************************)
(* issuance.Complete: the account state is read and the verification added; *)
(* then the enrolment is read and the journey admitted or parked.           *)
(***************************************************************************)
\* Request q goes on to pc with factor f of its journey verified under epoch e.
Proved(q, pc, f, e) ==
    [Idle EXCEPT !.op = req[q].op, !.pc = pc, !.h = req[q].h, !.p = req[q].p, !.f = f, !.e = e]
Verified(q, f, e) == [Proved(q, "state", f, e) EXCEPT !.h = 0]

\* Mutant: the account's epoch is not compared.
AddableAnyEpoch(p) == now < p.expires

Addable(p) == (p.epoch = 0 \/ p.epoch = account.epoch) /\ now < p.expires

CompleteState(q) ==
    /\ req[q].pc = "state"
    /\ LET p == req[q].p IN
       IF Addable(p)
         THEN Become(q, [Idle EXCEPT
                !.op = "complete", !.pc = "decide",
                !.p = [epoch |-> account.epoch, expires |-> p.expires,
                       proofs |-> p.proofs \cup {[f |-> req[q].f, epoch |-> req[q].e,
                                                    binds |-> p.epoch = 0]}],
                !.snap = account])
         ELSE End(q)
    /\ UNCHANGED <<ceremonyVars, factorVars, scene, accountVars, sealed, historyVars>>

MultiFactor(p) == \E v \in p.proofs : v.f \in {"pk", "pk_stepup", "totp", "recovery"}

Admissible(p, st) == now < p.expires /\ st.usable

\* core.Admit, on the state read with the last factor and the enrolment now.
CompleteAdmit(q) ==
    /\ req[q].pc = "decide"
    /\ LET p == req[q].p IN
       IF ~ Admissible(p, req[q].snap)
         THEN UNCHANGED <<drawn, records, marks, session>>
       ELSE IF HasSecondFactor /\ ~ MultiFactor(p)
         THEN /\ drawn < scene.handles
              /\ Put("MFAFlow", p)
              /\ UNCHANGED session
       ELSE /\ session' = [epoch |-> p.epoch, proofs |-> p.proofs]
            /\ UNCHANGED <<drawn, records, marks>>
    /\ End(q)
    /\ UNCHANGED <<now, factorVars, scene, accountVars, sealed, compared, spent, twice, guesses>>

(***************************************************************************)
(* Password: login, and the password step of a reauthentication.            *)
(***************************************************************************)
Login(q, op) ==
    /\ Start(q, op)
    /\ Become(q, [Idle EXCEPT !.op = op, !.pc = "compare", !.p = NewPending, !.e = account.epoch,
                              !.snap = [allowed |-> op = "reauth" \/ account.usable, failed |-> password.failed,
                                        until |-> password.until]])
    /\ UNCHANGED <<ceremonyVars, factorVars, scene, accountVars, sealed, historyVars>>

\* Mutant: any lock that was set counts as lapsed.
PasswordFailureLapsed ==
    LET n == IF password.until > 0 THEN 1 ELSE password.failed + 1
    IN  [failed |-> n, last |-> now,
         until |-> IF n >= LockoutThreshold THEN now + LockoutWindow ELSE 0]

\* The password record after one more failure.
PasswordFailure ==
    LET lapsed == password.until > 0 /\ password.until <= now
        stale == password.until = 0 /\ password.last > 0 /\ password.last + LockoutWindow <= now
        n == IF lapsed \/ stale THEN 1 ELSE password.failed + 1
        until == IF lapsed THEN 0 ELSE password.until
    IN  [failed |-> n, last |-> now,
         until |-> IF until = 0 /\ n >= LockoutThreshold THEN now + LockoutWindow ELSE until]

\* The hash is compared, then the lock that was read with it is looked at.
ComparePassword(q, right) ==
    /\ In(q, {"login", "reauth"}, "compare")
    /\ LET cred == req[q].snap IN
       IF ~ cred.allowed \/ cred.until > now
         THEN End(q) /\ UNCHANGED <<password, guesses>>
       ELSE IF ~ right
         THEN End(q) /\ password' = PasswordFailure /\ Guess("pwd")
       ELSE /\ password' = IF cred.failed > 0 THEN NoPassword ELSE password
            /\ IF cred.failed > 0 THEN Forget({"pwd"}) ELSE UNCHANGED guesses
            /\ IF req[q].op = "login" THEN Become(q, Verified(q, "pwd", req[q].e))
                                      ELSE Become(q, [Idle EXCEPT !.op = "reauth", !.pc = "verify"])
    /\ UNCHANGED <<ceremonyVars, factorVars, scene, account, sealed, session, compared, spent, twice>>

(***************************************************************************)
(* mfasvc.Verify, on behalf of a flow's challenge, a reauthentication or    *)
(* the removal of the TOTP; confirming an enrolment shares the TOTP steps.  *)
(***************************************************************************)
\* A refused code: a challenge is also charged to its flow.
ToCharge(q) == Become(q, [Idle EXCEPT !.op = req[q].op, !.pc = "charge_flow", !.h = req[q].h])
Refuse(q) == IF req[q].op = "challenge" THEN ToCharge(q) ELSE End(q)

\* Where a verified second factor leads.
Succeed(q, f) ==
    CASE req[q].op = "challenge" -> Become(q, Proved(q, "finish", f, account.epoch))
      [] req[q].op = "reauth"    -> End(q)
      [] OTHER                   -> Goto(q, "verified")

VerifyRead(q, f) ==
    /\ req[q].pc = "verify"
    /\ req[q].op = "confirm" => f = "totp"
    /\ IF \/ f = "totp" /\ totp # NoTOTP /\ totp.confirmed = (req[q].op # "confirm")
          \/ f = "recovery" /\ HasSecondFactor
         THEN Become(q, [req[q] EXCEPT !.pc = "charge", !.f = f, !.snap = totp])
         ELSE Refuse(q)
    /\ UNCHANGED <<ceremonyVars, factorVars, scene, accountVars, sealed, historyVars>>

\* The attempt is charged before the code is compared with the secret read.
ChargeTOTP(q, right) ==
    /\ req[q].pc = "charge" /\ req[q].f = "totp"
    /\ IF totp = NoTOTP
         THEN Refuse(q) /\ UNCHANGED <<factorVars, guesses>>
       ELSE /\ IncrementTOTPAttempts(now)
            /\ IF Reported(totp.counter, now) > MaxFactorAttempts
                 THEN Refuse(q) /\ UNCHANGED guesses
               ELSE /\ Guess("totp")
                    /\ IF right THEN \E s \in TOTPWindow(now) :
                                       Become(q, [req[q] EXCEPT !.pc = "mark", !.n = s])
                                ELSE Refuse(q)
    /\ UNCHANGED <<ceremonyVars, scene, accountVars, sealed, session, compared, spent, twice>>

MarkTOTP(q) ==
    /\ req[q].pc = "mark"
    /\ MarkTOTPUsed(req[q].n)
    /\ IF Fresh(req[q].n)
         THEN /\ LET tok == <<"totp", req[q].snap.secret, req[q].n>>
                 IN  IF req[q].op = "confirm" \/ totp.secret # req[q].snap.secret
                       THEN AcceptOwn(tok) ELSE Accept(tok)
              /\ Forget({"totp"})
              /\ Succeed(q, "totp")
         ELSE Refuse(q) /\ UNCHANGED <<spent, twice, guesses>>
    /\ UNCHANGED <<ceremonyVars, scene, accountVars, sealed, session, compared>>

ChargeRecovery(q) ==
    /\ req[q].pc = "charge" /\ req[q].f = "recovery"
    /\ IncrementRecoveryAttempts(now)
    /\ IF Reported(recovery, now) > MaxFactorAttempts
         THEN Refuse(q) /\ UNCHANGED guesses
         ELSE Goto(q, "code") /\ Guess("recovery")
    /\ UNCHANGED <<ceremonyVars, scene, accountVars, sealed, session, compared, spent, twice>>

\* Code 0 is a wrong one, or one used before.
UseRecoveryCode(q, c) ==
    /\ req[q].pc = "code"
    /\ IF c \in codes
         THEN /\ ConsumeRecoveryCode(c)
              /\ Accept(<<"code", c, 0>>)
              /\ Forget({"totp", "recovery"})
              /\ Goto(q, "reset_counter")
         ELSE Refuse(q) /\ UNCHANGED <<factorVars, spent, twice, guesses>>
    /\ UNCHANGED <<ceremonyVars, scene, accountVars, sealed, session, compared>>

RecoveryReset(q) ==
    /\ req[q].pc = "reset_counter"
    /\ ResetRecoveryAttempts
    /\ Forget({"recovery"})
    /\ Succeed(q, "recovery")
    /\ UNCHANGED <<ceremonyVars, scene, accountVars, sealed, session, compared, spent, twice>>

(***************************************************************************)
(* The second-factor flow a parked journey waits in.                        *)
(***************************************************************************)
OpenFlow(q, op, h) ==
    /\ Start(q, op)
    /\ h \in Live("MFAFlow")
    /\ Become(q, [Idle EXCEPT !.op = op, !.h = h, !.p = records[h].pending,
                              !.pc = IF op = "challenge" THEN "verify" ELSE "assertion"])
    /\ UNCHANGED <<ceremonyVars, factorVars, scene, accountVars, sealed, historyVars>>

ChargeFlow(q) ==
    /\ req[q].pc = "charge_flow"
    /\ IF req[q].h \in Live("MFAFlow") THEN RecordFailure(req[q].h)
                                       ELSE UNCHANGED <<drawn, records, marks>>
    /\ End(q)
    /\ UNCHANGED <<now, factorVars, scene, accountVars, sealed, historyVars>>

FinishFlow(q) ==
    /\ req[q].pc = "finish"
    /\ IF req[q].h \in Live("MFAFlow")
         THEN /\ Consume(req[q].h)
              /\ Accept(Record(req[q].h))
              /\ Become(q, Verified(q, req[q].f, req[q].e))
         ELSE End(q) /\ UNCHANGED <<drawn, records, marks, spent, twice>>
    /\ UNCHANGED <<now, factorVars, scene, accountVars, sealed, session, compared, guesses>>

(***************************************************************************)
(* Emailed codes, magic links and reset links.  The message is prepared by  *)
(* a delivery worker after the request was answered.                        *)
(***************************************************************************)
KindOf(op) ==
    CASE op \in {"code", "verify_code"} -> "EmailCode"
      [] op \in {"link", "use_link"}    -> "MagicLink"
      [] op \in {"forgot", "reset"}     -> "PasswordReset"

\* A reset is bound by the request, a code or link by the worker.
RequestMail(q, op) ==
    /\ Start(q, op) /\ op \in {"code", "link", "forgot"}
    /\ IF op = "forgot"
         THEN /\ account.usable
              /\ Become(q, [Idle EXCEPT !.op = op, !.pc = "put",
                                        !.p = [NewPending EXCEPT !.epoch = account.epoch]])
         ELSE Become(q, [Idle EXCEPT !.op = op, !.pc = "bind", !.p = NewPending])
    /\ UNCHANGED <<ceremonyVars, factorVars, scene, accountVars, sealed, historyVars>>

BindMail(q) ==
    /\ req[q].pc = "bind"
    /\ IF account.usable
         THEN Become(q, [req[q] EXCEPT !.pc = "put", !.p.epoch = account.epoch])
         ELSE End(q)
    /\ UNCHANGED <<ceremonyVars, factorVars, scene, accountVars, sealed, historyVars>>

PutMail(q) ==
    /\ req[q].pc = "put"
    /\ IF Storable(req[q].p)
         THEN drawn < scene.handles /\ Put(KindOf(req[q].op), req[q].p)
         ELSE UNCHANGED <<drawn, records, marks>>
    /\ End(q)
    /\ UNCHANGED <<now, factorVars, scene, accountVars, sealed, historyVars>>

\* A code, a magic link or a reset link is presented.
Present(q, op, h) ==
    /\ Start(q, op) /\ op \in {"verify_code", "use_link", "reset"}
    /\ h \in Live(KindOf(op))
    /\ Become(q, [Idle EXCEPT !.op = op, !.h = h, !.p = records[h].pending,
                              !.pc = IF op = "verify_code" THEN "charge_code" ELSE "consume"])
    /\ UNCHANGED <<ceremonyVars, factorVars, scene, accountVars, sealed, historyVars>>

\* The attempt is charged before the code is compared.  The last attempt has
\* deleted the record, so a match is accepted as it is.
ChargeCode(q, right) ==
    LET h == req[q].h IN
    /\ req[q].pc = "charge_code"
    /\ IF h \notin Live("EmailCode")
         THEN End(q) /\ UNCHANGED <<drawn, records, marks, compared, spent, twice>>
       ELSE /\ RecordFailure(h)
            /\ compared' = [compared EXCEPT ![h] = @ + 1]
            /\ IF ~ right THEN End(q) /\ UNCHANGED <<spent, twice>>
               ELSE IF Remaining(h) <= 0
                 THEN Accept(Record(h)) /\ Become(q, Verified(q, "email_code", account.epoch))
                 ELSE Goto(q, "consume") /\ UNCHANGED <<spent, twice>>
    /\ UNCHANGED <<now, factorVars, scene, accountVars, sealed, session, guesses>>

ConsumeMail(q) ==
    LET h == req[q].h IN
    /\ req[q].pc = "consume"
    /\ IF h \in Live(KindOf(req[q].op))
         THEN /\ Consume(h)
              /\ Accept(Record(h))
              /\ IF req[q].op = "reset" THEN Goto(q, "check_reset")
                                        ELSE Become(q, Verified(q, "email", account.epoch))
         ELSE End(q) /\ UNCHANGED <<drawn, records, marks, spent, twice>>
    /\ UNCHANGED <<now, factorVars, scene, accountVars, sealed, session, compared, guesses>>

CheckReset(q) ==
    /\ req[q].pc = "check_reset"
    /\ IF account.usable /\ account.epoch = req[q].p.epoch THEN Goto(q, "apply_reset") ELSE End(q)
    /\ UNCHANGED <<ceremonyVars, factorVars, scene, accountVars, sealed, historyVars>>

\* identity.SetPassword: a new password record and a new epoch.
SetPassword ==
    /\ account.usable /\ account.epoch < scene.epochs
    /\ account' = [account EXCEPT !.epoch = @ + 1]
    /\ password' = NoPassword
    /\ Forget({"pwd"})

ApplyReset(q) ==
    /\ req[q].pc = "apply_reset"
    /\ SetPassword
    /\ End(q)
    /\ UNCHANGED <<ceremonyVars, factorVars, scene, sealed, session, compared, spent, twice>>

(***************************************************************************)
(* Passkeys as a primary factor: a stateless handle, and as a step-up.      *)
(***************************************************************************)
\* A discoverable begin seals an unbound journey, a username-first one binds it.
BeginPasskey(first) ==
    /\ "pk_login" \in scene.ops /\ drawn < scene.handles
    /\ first => account.usable /\ HasActive
    /\ LET p == [NewPending EXCEPT !.epoch = IF first THEN account.epoch ELSE 0]
       IN  sealed' = (drawn + 1 :> [pending |-> p, expires |-> ExpiresAt("Passkey", p)]) @@ sealed
    /\ drawn' = drawn + 1
    /\ UNCHANGED <<now, records, marks, factorVars, scene, accountVars, req, historyVars>>

\* A valid assertion of active credential c with counter n for handle h.
OpenPasskey(q, h, c, n) ==
    /\ Start(q, "pk_login")
    /\ h \in DOMAIN sealed /\ sealed[h].expires > now
    /\ c \in DOMAIN keys /\ keys[c].active
    /\ Become(q, [Idle EXCEPT !.op = "pk_login", !.pc = "mark_handle", !.h = h,
                              !.p = sealed[h].pending, !.c = c, !.n = n])
    /\ UNCHANGED <<ceremonyVars, factorVars, scene, accountVars, sealed, historyVars>>

\* A mark lapses with its handle: a handle opened before its expiry and marked
\* after it goes on whatever was marked earlier.  Only the uses the mark is to
\* tell apart, those before the expiry, are counted.
MarkHandle(q) ==
    LET h == req[q].h IN
    /\ req[q].pc = "mark_handle"
    /\ MarkConsumed(h, sealed[h].expires)
    /\ IF FirstMark(h) THEN Goto(q, "count") ELSE End(q)
    /\ IF FirstMark(h) /\ now < sealed[h].expires THEN Accept(<<"handle", h, 0>>)
                                                  ELSE UNCHANGED <<spent, twice>>
    /\ UNCHANGED <<now, factorVars, scene, accountVars, sealed, session, compared, guesses>>

BeginStepUp(q) ==
    /\ req[q].op = "stepup_begin" /\ req[q].pc = "assertion"
    /\ IF HasActive /\ Storable(req[q].p)
         THEN drawn < scene.handles /\ Put("MFAPasskey", req[q].p)
         ELSE UNCHANGED <<drawn, records, marks>>
    /\ End(q)
    /\ UNCHANGED <<now, factorVars, scene, accountVars, sealed, historyVars>>

\* The step-up record m is consumed whatever the outcome; c and n are those of
\* the assertion, and c = "" stands for an assertion that does not verify.
OpenStepUp(q, m, c, n) ==
    /\ req[q].op = "stepup" /\ req[q].pc = "assertion"
    /\ IF m \in Live("MFAPasskey") THEN Consume(m) ELSE UNCHANGED <<drawn, records, marks>>
    /\ IF m \in Live("MFAPasskey") /\ c \in DOMAIN keys /\ keys[c].active
         THEN Become(q, [req[q] EXCEPT !.pc = "count", !.c = c, !.n = n,
                                       !.m = IF records[m].pending = req[q].p THEN 1 ELSE 0])
         ELSE ToCharge(q)
    /\ UNCHANGED <<now, factorVars, scene, accountVars, sealed, historyVars>>

\* recordUse: a credential deleted meanwhile is an outage, a counter that does
\* not grow the clone signal.
CountUse(q) ==
    LET c == req[q].c n == req[q].n IN
    /\ req[q].pc = "count"
    /\ UpdateSignCount(c, n)
    /\ IF c \in DOMAIN keys /\ AcceptsSignCount(c, n)
         THEN /\ IF n > 0 THEN Accept(<<"count", c, n>>) ELSE UNCHANGED <<spent, twice>>
              /\ Become(q, [req[q] EXCEPT !.pc = "used", !.e = account.epoch])
         ELSE /\ IF c \in DOMAIN keys THEN Goto(q, "suspend") ELSE End(q)
              /\ UNCHANGED <<spent, twice>>
    /\ UNCHANGED <<ceremonyVars, scene, accountVars, sealed, session, compared, guesses>>

\* The credential is read again to note its use: one removed meanwhile is
\* refused after all.  A step-up begun from another flow ends here.
RecordUse(q) ==
    /\ req[q].pc = "used"
    /\ CASE req[q].c \notin DOMAIN keys -> IF req[q].op = "stepup" THEN ToCharge(q) ELSE End(q)
         [] req[q].op = "pk_login" -> Become(q, Verified(q, "pk", req[q].e))
         [] req[q].op = "stepup" /\ req[q].m = 1 -> Become(q, Proved(q, "finish", "pk_stepup", req[q].e))
         [] OTHER -> End(q)
    /\ UNCHANGED <<ceremonyVars, factorVars, scene, accountVars, sealed, historyVars>>

SuspendKey(q) ==
    /\ req[q].pc = "suspend"
    /\ Suspend(req[q].c)
    /\ IF req[q].op = "stepup" /\ req[q].c \in DOMAIN keys THEN ToCharge(q) ELSE End(q)
    /\ UNCHANGED <<ceremonyVars, scene, accountVars, sealed, historyVars>>

(***************************************************************************)
(* What happens around the requests.                                        *)
(***************************************************************************)
Tick ==
    /\ now < scene.time
    /\ now' = now + 1
    /\ UNCHANGED <<drawn, records, marks, factorVars, scene, accountVars, sealed, req, historyVars>>

\* A password change of the account's own sessions, or an administrator's.
ChangePassword ==
    /\ "change" \in scene.ops
    /\ SetPassword
    /\ UNCHANGED <<ceremonyVars, factorVars, scene, sealed, req, session, compared, spent, twice>>

Tombstone ==
    /\ "erase" \in scene.ops /\ account.usable
    /\ account' = [epoch |-> account.epoch + 1, usable |-> FALSE]
    /\ UNCHANGED <<ceremonyVars, factorVars, scene, password, sealed, req, historyVars>>

EraseAccount ==
    /\ ~ account.usable
    /\ DeleteForSubject
    /\ Forget({"totp", "recovery"})
    /\ UNCHANGED <<ceremonyVars, scene, accountVars, sealed, req, session, compared, spent, twice>>

EraseCeremonies ==
    /\ ~ account.usable
    /\ EraseRecords
    /\ UNCHANGED <<factorVars, scene, accountVars, sealed, req, historyVars>>

Reap ==
    /\ ReapExpired
    /\ UNCHANGED <<factorVars, scene, accountVars, sealed, req, historyVars>>

\* A request's client goes away, or its process stops, between two calls.
Crash(q) ==
    /\ req[q] # Idle
    /\ End(q)
    /\ UNCHANGED <<ceremonyVars, factorVars, scene, accountVars, sealed, historyVars>>

Init ==
    /\ scene \in Scenes
    /\ now = 1 /\ drawn = Cardinality(DOMAIN scene.records) /\ records = scene.records /\ marks = <<>> /\ sealed = <<>>
    /\ totp = scene.totp /\ codes = scene.codes /\ keys = scene.keys
    /\ recovery = NoCounter /\ generated = scene.generated
    /\ account = [epoch |-> 1, usable |-> TRUE]
    /\ password = NoPassword
    /\ req = [q \in Request |-> Idle]
    /\ session = [epoch |-> 0, proofs |-> {}]
    /\ compared = [h \in 1..scene.handles |-> 0]
    /\ spent = scene.spent /\ twice = {}
    /\ guesses = [c \in Channels |-> NoGuesses]

Complete(q) == CompleteState(q) \/ CompleteAdmit(q)

PasswordNext(q) ==
    \/ \E op \in {"login", "reauth"} : Login(q, op)
    \/ \E right \in BOOLEAN : ComparePassword(q, right)

VerifyNext(q) ==
    \/ \E f \in scene.factors : VerifyRead(q, f)
    \/ \E right \in BOOLEAN : ChargeTOTP(q, right)
    \/ MarkTOTP(q)
    \/ ChargeRecovery(q)
    \/ \E c \in codes \cup {0} : UseRecoveryCode(q, c)
    \/ RecoveryReset(q)

FlowNext(q) ==
    \/ \E op \in {"challenge", "stepup", "stepup_begin"}, h \in DOMAIN records : OpenFlow(q, op, h)
    \/ ChargeFlow(q)
    \/ FinishFlow(q)

MailNext(q) ==
    \/ \E op \in {"code", "link", "forgot"} : RequestMail(q, op)
    \/ BindMail(q)
    \/ PutMail(q)
    \/ \E op \in {"verify_code", "use_link", "reset"}, h \in DOMAIN records : Present(q, op, h)
    \/ \E right \in BOOLEAN : ChargeCode(q, right)
    \/ ConsumeMail(q)
    \/ CheckReset(q)
    \/ ApplyReset(q)

PasskeyNext(q) ==
    \/ \E h \in DOMAIN sealed, c \in DOMAIN keys, n \in 0..MaxCount : OpenPasskey(q, h, c, n)
    \/ MarkHandle(q)
    \/ BeginStepUp(q)
    \/ \E m \in 1..drawn, c \in DOMAIN keys \cup {""}, n \in 0..MaxCount : OpenStepUp(q, m, c, n)
    \/ CountUse(q)
    \/ RecordUse(q)
    \/ SuspendKey(q)

Around ==
    \/ Tick
    \/ \E first \in BOOLEAN : BeginPasskey(first)
    \/ ChangePassword
    \/ Tombstone
    \/ EraseAccount
    \/ EraseCeremonies
    \/ Reap
=============================================================================
