--------------------------- MODULE SessionRequests ---------------------------
(***************************************************************************)
(* Requests that log in, resume and change the sessions of one account,    *)
(* for both session backends: the Issuer (internal/issuance), the Renewer  *)
(* (internal/session/renew), the transitions of internal/core, the         *)
(* sensitive gate of the preamble, and the changes of password, factors    *)
(* and account state that sessions must follow.  The backends add how a    *)
(* session is stored and presented (modules StatefulSessions, JWTSessions).*)
(*                                                                         *)
(* A request is a process: each read or write of a store is a step of its  *)
(* own, so account changes and other requests come between any two.  It    *)
(* may end at any step (Abandon), which stands for every refusal that      *)
(* changes nothing, every outage and a crash of the instance.              *)
(***************************************************************************)
EXTENDS LibraryClock, Sequences, FiniteSets

CONSTANTS
    Request,        \* requests in flight
    Scenario,       \* bound: what a behaviour may contain
    MaxLogins,      \* bound: the most lineages of a scenario
    Factor,         \* the second factors of Enrollment: the TOTP, the passkey
    IdleTTL,        \* Lifetimes.IdleTimeout
    MaxLifetime,    \* Lifetimes.MaxLifetime
    RecheckEvery,   \* Lifetimes.RecheckEvery
    MaxEpoch        \* bound: the last epoch of a scenario

Change == {"disable", "replace_password", "must_change", "password", "enrol", "remove", "reauth",
           "mint", "end"}

\* The changes and endpoints that are used, how many lineages and stored ids are
\* drawn, the last epoch, how many requests are in flight at once and how long each
\* lasts, how many keys are generated, and the last instant of the clock.
ASSUME ScenarioAssumption ==
    Scenario \subseteq [ops : SUBSET Change, logins : 0 .. MaxLogins, rows : Nat,
                        epochs : 1 .. MaxEpoch, flights : Nat, lasts : Nat,
                        renewals : Nat, time : Nat \ {0}]

ASSUME TimeAssumption ==
    /\ IdleTTL \in Nat \ {0}
    /\ MaxLifetime \in Nat \ {0}
    /\ RecheckEvery \in Nat \ {0}
    /\ PollBound \in Nat \ {0}
    /\ MaxEpoch \in Nat \ {0}
    /\ MaxLogins \in Nat
    /\ Factor # {}

VARIABLES
    scene,      \* the scenario of this behaviour, chosen once
    account,    \* epoch, and since when it is disabled or must change its password
    enrolled,   \* since when each factor is enrolled, 0 if it is not
    req,        \* the requests
    admitted,   \* history: when and at which epoch each lineage was admitted
    kept,       \* history: the lineage that the bump out of each epoch kept
    left,       \* history: when each epoch was left, 0 if not yet
    issued      \* history: the number of stored sessions or tokens drawn

accountVars == <<account, enrolled, kept, left>>
sharedVars == <<scene, now, accountVars, req, admitted, issued>>

Epoch == 1 .. MaxEpoch

\* Ids are random in the code; here they are numbered as they are drawn.
NoId == 0
Lineage == 1 .. MaxLogins
NoLineage == 0

\* What a request is doing: resume is any authenticated endpoint; reauth,
\* password, enrol and remove are POST /reauth, POST /password/change and the
\* TOTP and passkey endpoints once the session has resumed.
Op == {"login", "resume", "reauth", "password", "enrol", "remove"}

Pc == {"idle", "touch", "state", "factors", "answered", "factor_write", "reissue"}

Attrs == [lineage : Nat, epoch : Nat, multi : BOOLEAN, must : BOOLEAN]

-----------------------------------------------------------------------------

\* The absolute expiry of a session: it follows from the attributes alone.
End(l) == admitted[l].at + MaxLifetime

IdleUntil(t, end) == IF t + IdleTTL > end THEN end ELSE t + IdleTTL

\* Epochs.Check: the current epoch is always accepted, an older one at most
\* until the cache has polled the change (module RevocationCache).
CheckEpoch(e) == e = account.epoch \/ now < left[e] + PollBound

-----------------------------------------------------------------------------
\* The transitions of internal/core.

\* Mutant: any later epoch is taken for the one the request's own change made.
BumpedAnyLater(a) == account.epoch > a.epoch

\* checkBumped, and what Renew and Reauthenticate ask of the epoch.
Bumped(a) == account.epoch = a.epoch + 1

MustChange == account.must # 0

AdmitAttrs(a) == [a EXCEPT !.epoch = account.epoch, !.must = MustChange]

\* Mutant: the account's flag is not ORed into the session's.
RenewAttrsForgetful(a) == a

RenewAttrs(a) == [a EXCEPT !.must = a.must \/ MustChange]

FactorEnrolledAttrs(a) ==
    [a EXCEPT !.epoch = account.epoch, !.multi = TRUE, !.must = a.must \/ MustChange]

PasswordChangedAttrs(a) == [a EXCEPT !.epoch = account.epoch, !.must = FALSE]

-----------------------------------------------------------------------------

NoAttrs == [lineage |-> NoLineage, epoch |-> 0, multi |-> FALSE, must |-> FALSE]

\* token and prior: the refresh token of a resume, and whether it came with an
\* access token that verified; the stateful backend has neither.
Idle == [pc |-> "idle", op |-> "login", id |-> NoId, attrs |-> NoAttrs, at |-> 0,
         token |-> NoId, prior |-> FALSE,
         factor |-> CHOOSE f \in Factor : TRUE, unread |-> {}, required |-> FALSE]

InitRequests ==
    /\ scene \in Scenario
    /\ now = 1
    /\ account = [epoch |-> 1, disabled |-> 0, must |-> 0]
    /\ enrolled = [f \in Factor |-> 0]
    /\ req = [q \in Request |-> Idle]
    /\ admitted = <<>>
    /\ kept = [e \in Epoch |-> NoLineage]
    /\ left = [e \in Epoch |-> 0]
    /\ issued = 0

\* No request is in flight for longer than the scenario's bound.
Tick ==
    /\ now < scene.time
    /\ \A q \in Request : req[q].pc # "idle" => now < req[q].at + scene.lasts
    /\ now' = now + 1
    /\ UNCHANGED <<accountVars, req, admitted, issued>>

-----------------------------------------------------------------------------
\* Changes of the account.  Apply commits the change, the epoch bump and the
\* outbox row in one transaction.

Bump(l) ==
    /\ account.epoch < scene.epochs
    /\ left' = [left EXCEPT ![account.epoch] = now]
    /\ kept' = [kept EXCEPT ![account.epoch] = l]

SetPassword(l, must) ==
    /\ Bump(l)
    /\ account' = [account EXCEPT !.epoch = account.epoch + 1, !.must = IF must THEN now ELSE 0]

BumpEpoch(l) ==
    /\ Bump(l)
    /\ account' = [account EXCEPT !.epoch = account.epoch + 1]

\* Mutant: a suspension leaves the epoch alone.
DisableEpochKept ==
    /\ "disable" \in scene.ops
    /\ account' = [account EXCEPT !.disabled = IF account.disabled = 0 THEN now ELSE account.disabled]
    /\ UNCHANGED <<now, enrolled, req, admitted, kept, left, issued>>

\* SetDisabledState{Disable: true}
Disable ==
    /\ "disable" \in scene.ops
    /\ Bump(NoLineage)
    /\ account' = [account EXCEPT !.epoch = account.epoch + 1,
                       !.disabled = IF account.disabled = 0 THEN now ELSE account.disabled]
    /\ UNCHANGED <<now, enrolled, req, admitted, issued>>

\* SetDisabledState{Disable: false}: no epoch bump, no revocation.
Enable ==
    /\ account.disabled # 0
    /\ account' = [account EXCEPT !.disabled = 0]
    /\ UNCHANGED <<now, enrolled, req, admitted, kept, left, issued>>

\* A password reset, or a temporary password set by an operator.
ReplacePassword ==
    /\ "replace_password" \in scene.ops
    /\ \E must \in BOOLEAN : SetPassword(NoLineage, must)
    /\ UNCHANGED <<now, enrolled, req, admitted, issued>>

\* SetMustChange: sessions learn of it at their next renewal.
SetMustChange ==
    /\ "must_change" \in scene.ops
    /\ account.must = 0
    /\ account' = [account EXCEPT !.must = now]
    /\ UNCHANGED <<now, enrolled, req, admitted, kept, left, issued>>

-----------------------------------------------------------------------------
\* Requests.

Goto(q, r) == req' = [req EXCEPT ![q] = r]

\* A request whose only steps are reads.
Reads(q, r) == Goto(q, r) /\ UNCHANGED <<now, accountVars, admitted, issued>>

\* A request that writes stored sessions.
Writes(q, r) == Goto(q, r) /\ UNCHANGED <<now, accountVars>>

\* Any refusal, outage or crash, and the end of a request that was answered.
Abandon(q) ==
    /\ req[q].pc # "idle"
    /\ Reads(q, Idle)

\* q may begin: at most scene.flights requests are in flight.
Free(q) == req[q].pc = "idle" /\ Cardinality({p \in Request : req[p].pc # "idle"}) < scene.flights

\* The factors of a login are verified; Issuer.Complete starts.
BeginLogin(q) ==
    /\ Free(q)
    /\ \E multi \in BOOLEAN :
         Reads(q, [Idle EXCEPT !.pc = "state", !.at = now,
                               !.attrs = [NoAttrs EXCEPT !.multi = multi]])

\* AccountState, what Pending.Add and the core transition ask of it, and the
\* attributes that the transition derives from it.
ReadState(q) ==
    LET r == req[q] IN
    /\ r.pc = "state"
    /\ account.disabled = 0
    /\ \/ /\ r.op = "login"
          /\ Reads(q, [r EXCEPT !.pc = "factors", !.unread = Factor, !.attrs = AdmitAttrs(r.attrs)])
       \/ /\ r.op \in {"resume", "reauth"}
          /\ account.epoch = r.attrs.epoch
          /\ Reads(q, [r EXCEPT !.pc = "factors", !.unread = Factor, !.attrs = RenewAttrs(r.attrs)])
       \/ /\ r.op \in {"password", "enrol"}
          /\ Bumped(r.attrs)
          /\ Reads(q, [r EXCEPT !.pc = "reissue",
                           !.attrs = IF r.op = "enrol" THEN FactorEnrolledAttrs(r.attrs)
                                     ELSE PasswordChangedAttrs(r.attrs)])

\* Enrollment.enrolled reads the stores of the factors one after the other.
ReadFactor(q) ==
    /\ req[q].pc = "factors"
    /\ \E f \in req[q].unread :
         Reads(q, [req[q] EXCEPT !.unread = req[q].unread \ {f},
                                 !.required = req[q].required \/ enrolled[f] # 0])

\* Mutant: a renewal does not ask for the factors of the account.
ClearedRenewal(q, op, multi) ==
    /\ req[q].pc = "factors" /\ req[q].op = op /\ req[q].unread = {}
    /\ req[q].required => (multi \/ op = "resume")

\* The decision is complete and asks for no factor beyond the ones proved.
Cleared(q, op, multi) ==
    /\ req[q].pc = "factors" /\ req[q].op = op /\ req[q].unread = {}
    /\ req[q].required => multi

\* Resume answered: POST /reauth goes on to read the state, a sensitive
\* endpoint to the gate.  A session that must change its password is let
\* through to /reauth and /password/change only.
Proceed(q) ==
    LET r == req[q] IN
    /\ r.pc = "answered"
    /\ \/ /\ "reauth" \in scene.ops
          /\ Reads(q, [r EXCEPT !.pc = "state", !.op = "reauth"])
       \/ \E op \in scene.ops \cap {"password", "enrol", "remove"}, f \in Factor :
            /\ r.attrs.must => op = "password"
            /\ op = "password" => f = r.factor
            /\ Reads(q, [r EXCEPT !.pc = "factors", !.op = op, !.factor = f, !.unread = Factor])

\* The gate has cleared, and the sensitive endpoint commits its change.  A
\* change of factors bumps the epoch before it touches the factor; what the
\* endpoint read of the factor before may be out of date.
ApplyChange(q) ==
    LET r == [req[q] EXCEPT !.required = FALSE] IN
    /\ Cleared(q, r.op, r.attrs.multi)
    /\ \/ /\ r.op = "password"
          /\ SetPassword(r.attrs.lineage, FALSE)
          /\ Goto(q, [r EXCEPT !.pc = "state"])
       \/ /\ r.op = "enrol"
          /\ BumpEpoch(r.attrs.lineage)
          /\ Goto(q, [r EXCEPT !.pc = "factor_write"])
       \/ /\ r.op = "remove"
          /\ BumpEpoch(NoLineage)
          /\ Goto(q, [r EXCEPT !.pc = "factor_write"])
    /\ UNCHANGED <<now, enrolled, admitted, issued>>

\* ConfirmEnrollment or Save, DeleteTOTP or Delete.
WriteFactor(q) ==
    LET r == req[q] IN
    /\ r.pc = "factor_write"
    /\ \/ /\ r.op = "enrol"
          /\ enrolled' = [enrolled EXCEPT ![r.factor] = IF enrolled[r.factor] = 0 THEN now ELSE enrolled[r.factor]]
          /\ Goto(q, [r EXCEPT !.pc = "state"])
       \/ /\ r.op = "remove"
          /\ enrolled' = [enrolled EXCEPT ![r.factor] = 0]
          /\ Goto(q, Idle)
    /\ UNCHANGED <<now, account, admitted, kept, left, issued>>

-----------------------------------------------------------------------------

AccountStep == Disable \/ Enable \/ ReplacePassword \/ SetMustChange

\* The steps of request q that are the same for every backend.
RequestStep(q) ==
    \/ BeginLogin(q) \/ Abandon(q) \/ ReadState(q) \/ ReadFactor(q)
    \/ Proceed(q) \/ ApplyChange(q) \/ WriteFactor(q)

-----------------------------------------------------------------------------
\* Properties.

Answered(q) == req[q].pc = "answered"

\* Once a second factor is enrolled, no request is authenticated by a session
\* without one for longer than RecheckEvery after the last request that may
\* have missed the enrolment: neither a login nor a renewal, a Reissue or a
\* reauthentication racing with it extends that.
SecondFactorEnforced ==
    \A q \in Request, f \in Factor :
        Answered(q) /\ ~req[q].attrs.multi /\ enrolled[f] # 0
            => req[q].at < enrolled[f] + scene.lasts + RecheckEvery

\* Likewise a session goes on without the must-change flag of its account for
\* at most RecheckEvery after the last request that may have missed it.
MustChangeEnforced ==
    \A q \in Request :
        Answered(q) /\ ~req[q].attrs.must /\ account.must # 0
            => req[q].at < account.must + scene.lasts + RecheckEvery

\* A disabled account has no session: Resume answers only until the epoch cache
\* has polled the bump, whatever logins and Reissues were in flight.
DisabledEnds ==
    \A q \in Request :
        Answered(q) /\ account.disabled # 0 => req[q].at < account.disabled + PollBound

\* A session learns that its account was disabled or must change its password,
\* within the bounds of either, whether it is renewed from its row or goes on by
\* its access token alone.
ChangesEnforced == MustChangeEnforced /\ DisabledEnds

-----------------------------------------------------------------------------
\* The inductive invariant of the requests, the same for both backends.

RequestType ==
    [pc : Pc, op : Op, id : Nat, token : Nat, prior : BOOLEAN, attrs : Attrs, at : Nat,
     factor : Factor, unread : SUBSET Factor, required : BOOLEAN]

StateType ==
    /\ scene \in Scenario /\ now \in Nat
    /\ account \in [epoch : Epoch, disabled : Nat, must : Nat]
    /\ enrolled \in [Factor -> Nat]
    /\ kept \in [Epoch -> Nat] /\ left \in [Epoch -> Nat]
    /\ issued \in Nat
    /\ admitted \in Seq([at : Nat, epoch : Nat]) /\ Len(admitted) <= MaxLogins
    /\ req \in [Request -> RequestType]

\* The epoch of a request r is one of the account's; a login has none before it
\* has read the account.
Formed(r, epoch) ==
    /\ r.attrs.epoch <= epoch
    /\ r.op # "login" => r.attrs.epoch >= 1
    /\ r.op = "login" => /\ r.pc \in {"idle", "state", "factors"}
                         /\ r.pc = "factors" => r.attrs.epoch >= 1

\* An account disabled since acc.disabled had left the epoch e by then.
Suspended(e, acc, lefts) == acc.disabled # 0 => e < acc.epoch /\ lefts[e] <= acc.disabled

\* A request r that goes on without the must-change flag set at instant m began
\* before, or has resumed a session checked soon enough; likewise TimelyFactor for
\* the second factor f, enrolled at instant m.
TimelyFlag(r, m) ==
    m # 0 =>
        /\ r.pc = "state" /\ r.op = "password" => r.at <= m
        /\ ~r.attrs.must =>
             /\ r.pc = "reissue" => r.at <= m
             /\ r.pc = "factors" /\ r.op \in {"login", "resume", "reauth"} => r.at <= m
             /\ r.pc \in {"touch", "answered"} => r.at < m + scene.lasts + RecheckEvery

TimelyFactor(r, f, m) ==
    ~r.attrs.multi /\ m # 0 =>
        /\ r.pc = "factors" /\ f \notin r.unread /\ ~r.required => r.at <= m
        /\ r.pc = "state" /\ r.op = "password" => r.at <= m
        /\ r.pc = "reissue" => r.at <= m
        /\ r.pc \in {"touch", "answered"} => r.at < m + scene.lasts + RecheckEvery

\* The times of a request r at instant t, for the account acc, the factors enr and
\* the instants lefts at which the epochs were left: it began no longer ago than
\* requests last, and its epoch was current then or left for less than PollBound,
\* unless it is yet to compare it with the account's.
TimelyRequest(r, t, acc, enr, lefts) ==
    /\ r.at <= t
    /\ r.pc # "idle" => t <= r.at + scene.lasts
    /\ r.op # "login" /\ ~(r.op = "resume" /\ r.pc = "state") =>
         r.attrs.epoch = acc.epoch \/ r.at < lefts[r.attrs.epoch] + PollBound
    /\ r.attrs.epoch >= 1 => Suspended(r.attrs.epoch, acc, lefts)
    /\ TimelyFlag(r, acc.must)
    /\ \A f \in Factor : TimelyFactor(r, f, enr[f])

RequestInv ==
    /\ StateType
    /\ \A e \in Epoch : left[e] <= now
    /\ \A q \in Request : /\ Formed(req[q], account.epoch)
                           /\ TimelyRequest(req[q], now, account, enrolled, left)

=============================================================================
