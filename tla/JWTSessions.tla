------------------------------ MODULE JWTSessions ------------------------------
(***************************************************************************)
(* The JWT backend: Backend.Start, Reissue, Resume and End                 *)
(* (internal/session/jwt) over refresh families (store/tokens, module      *)
(* TokenFamilies), access tokens signed and verified with the tenant's     *)
(* keysets (module SigningKeys), and the family and epoch caches, under    *)
(* the requests and account changes of module SessionRequests.             *)
(*                                                                         *)
(* A refresh token is stored; an access token is only held by clients, and *)
(* is forgotten here once it has expired.  All tokens of a family share    *)
(* its lineage, epoch and factors: a renewal changes none of them.         *)
(***************************************************************************)
EXTENDS SessionRequests, SigningKeys

CONSTANTS
    ReuseGrace,     \* tokens.ReuseGrace
    FirstKid        \* the first key of the tenant

VARIABLES
    fams,       \* the families, in the order they were created
    tokens,     \* the refresh tokens stored: id -> token
    access      \* the access tokens that have not expired

ASSUME KeyAssumption ==
    /\ ReuseGrace \in Nat /\ RenewalLasts \in Nat /\ Overlap \in Nat
    /\ Kid \subseteq Nat \ {NoKid} /\ FirstKid \in Kid
    /\ KeyLife \subseteq Nat /\ Never \in KeyLife
    /\ Overlap >= PollBound + RecheckEvery + RenewalLasts

vars == <<sharedVars, fams, tokens, access, keyVars>>

Family == [lineage : Nat, epoch : Nat, multi : BOOLEAN, revoked : Nat]
Refresh == [family : Nat, must : BOOLEAN, idle : Nat, used : Nat]

-----------------------------------------------------------------------------
\* Families and their cached states.

FamilyAttrs(f, must) ==
    [lineage |-> fams[f].lineage, epoch |-> fams[f].epoch, multi |-> fams[f].multi, must |-> must]

FamilyEnd(f) == End(fams[f].lineage)

\* FamilyState of the store: neither revoked nor past its end, and not reaped.
Stored(f) == \E i \in DOMAIN tokens : tokens[i].family = f
Live(f) == Stored(f) /\ fams[f].revoked = 0 /\ now < FamilyEnd(f)

\* Families.Live: a cache may serve the state of before a revocation until it
\* has polled it, and the state of a family whose rows were reaped or erased.
CachedLive(f) ==
    /\ now < FamilyEnd(f)
    /\ fams[f].revoked = 0 \/ now < fams[f].revoked + PollBound

RevokeFamilies(F) ==
    [f \in DOMAIN fams |->
        IF f \in F /\ fams[f].revoked = 0 THEN [fams[f] EXCEPT !.revoked = now] ELSE fams[f]]

Without(S) == [i \in DOMAIN tokens \ S |-> tokens[i]]

With(tbl, i, tok) == [j \in DOMAIN tbl \cup {i} |-> IF j = i THEN tok ELSE tbl[j]]

-----------------------------------------------------------------------------
\* prepare: a refresh token and an access token of family f, built at instant t
\* with a key of some instance's keyset.

NewRefresh(f, must, t, end) ==
    [family |-> f, must |-> must, idle |-> IdleUntil(t, end), used |-> 0]

\* tokenLifetime caps an access token at the end of its session.
NewAccess(f, must, t, end, key) ==
    [family |-> f, must |-> must, key |-> key, resource |-> FALSE,
     exp |-> IF t + RecheckEvery > end THEN end ELSE t + RecheckEvery]

\* The keys that some instance signs with now.
Signers == UNION {SignerAt(v, now) : v \in View}

\* The tokens are handed out if they were built before the end.
HandOut(table, f, must, t, end) ==
    /\ t < end
    /\ issued < scene.rows
    /\ issued' = issued + 1
    /\ tokens' = With(table, issued + 1, NewRefresh(f, must, t, end))
    /\ \E key \in Signers :
         LET a == NewAccess(f, must, t, end, key)
         IN  access' = IF now < a.exp THEN access \cup {a} ELSE access

-----------------------------------------------------------------------------

Init ==
    /\ InitRequests
    /\ fams = <<>>
    /\ tokens = [i \in {} |-> 0]
    /\ access = {}
    /\ InitKeys(FirstKid)

Elapse ==
    /\ Tick
    /\ access' = {a \in access : now' < a.exp}
    /\ Age
    /\ UNCHANGED <<fams, tokens>>

\* RevokeForSubject, by the lifecycle event of a committed change (module
\* LifecycleOutbox), at some later time and perhaps repeatedly.
Deliver ==
    /\ \E e \in 1 .. account.epoch - 1 :
         fams' = RevokeFamilies({f \in DOMAIN fams : Stored(f) /\ fams[f].lineage # kept[e]})
    /\ UNCHANGED <<now, accountVars, req, admitted, issued, tokens, access, keyVars>>

\* End, RevokeSession and OnSessionEnded.
Revoke ==
    /\ "end" \in scene.ops
    /\ \E f \in DOMAIN fams : Live(f) /\ fams' = RevokeFamilies({f})
    /\ UNCHANGED <<now, accountVars, req, admitted, issued, tokens, access, keyVars>>

\* EraseTenant deletes the rows.
Erase ==
    /\ "end" \in scene.ops
    /\ DOMAIN tokens # {}
    /\ tokens' = Without(DOMAIN tokens)
    /\ UNCHANGED <<now, accountVars, req, admitted, issued, fams, access, keyVars>>

ReapExpired ==
    LET D == {i \in DOMAIN tokens : now >= tokens[i].idle}
    IN  /\ D # {}
        /\ tokens' = Without(D)
        /\ UNCHANGED <<now, accountVars, req, admitted, issued, fams, access, keyVars>>

-----------------------------------------------------------------------------
\* Requests.

\* codec.verify on some instance: the key of the token is known and verifies.
Verified(a) == \E v \in View : VerifiesIn(v, a.key.kid, now)

\* Mutant: an access token is answered without its family.
ResumableUnchecked(f, a) == CheckEpoch(a.epoch)

\* resumeLive: what is asked of the family and the epoch.
Resumable(f, a) == CachedLive(f) /\ CheckEpoch(a.epoch)

\* Resume with an access token that has not expired.
ResumeLive(q) ==
    /\ Free(q)
    /\ \E a \in access :
         /\ ~a.resource /\ Verified(a)
         /\ Resumable(a.family, FamilyAttrs(a.family, a.must))
         /\ Reads(q, [Idle EXCEPT !.op = "resume", !.pc = "answered", !.at = now,
                          !.id = a.family, !.attrs = FamilyAttrs(a.family, a.must)])
    /\ UNCHANGED <<fams, tokens, access, keyVars>>

\* Resume with a refresh token, beside an access token of the family that has
\* expired (prior), or one that does not verify, or none.  Get refuses a
\* revoked family, and an idle token that was not used.
BeginRenew(q) ==
    /\ Free(q)
    /\ \E i \in DOMAIN tokens, prior \in BOOLEAN :
         LET t == tokens[i]
         IN  /\ fams[t.family].revoked = 0 /\ now < FamilyEnd(t.family)
             /\ now < t.idle \/ t.used # 0
             /\ Reads(q, [Idle EXCEPT !.op = "resume", !.pc = "state", !.at = now, !.id = t.family,
                              !.token = i, !.prior = prior, !.attrs = FamilyAttrs(t.family, t.must)])
    /\ UNCHANGED <<fams, tokens, access, keyVars>>

\* core.Admit at some instant of the request, and Backend.Start.
Start(q) ==
    LET l == Len(admitted) + 1
        a == req[q].attrs
    IN  /\ Cleared(q, "login", a.multi)
        /\ l <= scene.logins
        /\ \E t \in req[q].at .. now :
             /\ admitted' = Append(admitted, [at |-> t, epoch |-> a.epoch])
             /\ HandOut(tokens, Len(fams) + 1, a.must, now, t + MaxLifetime)
        /\ fams' = Append(fams, [lineage |-> l, epoch |-> a.epoch, multi |-> a.multi, revoked |-> 0])
        /\ Writes(q, Idle)
        /\ UNCHANGED keyVars

\* ConsumeForRotation of the presented token.
Consumable(i) ==
    /\ i \in DOMAIN tokens
    /\ fams[tokens[i].family].revoked = 0 /\ now < FamilyEnd(tokens[i].family)

Rotate(q) ==
    LET r == req[q] IN
    /\ Cleared(q, "resume", r.attrs.multi)
    /\ Consumable(r.token)
    /\ tokens[r.token].used = 0 /\ now < tokens[r.token].idle
    /\ HandOut([tokens EXCEPT ![r.token] = [tokens[r.token] EXCEPT !.used = now]],
               r.id, r.attrs.must, r.at, FamilyEnd(r.id))
    /\ Writes(q, [r EXCEPT !.pc = "answered", !.required = FALSE])
    /\ UNCHANGED <<fams, admitted, keyVars>>

\* The token was used by the same client within the grace: answered beside the
\* access token of the family, refused without it.
RotateConcurrent(q) ==
    LET r == req[q] IN
    /\ Cleared(q, "resume", r.attrs.multi)
    /\ Consumable(r.token)
    /\ tokens[r.token].used # 0 /\ now < tokens[r.token].used + ReuseGrace
    /\ r.prior
    /\ Resumable(r.id, r.attrs)
    /\ Reads(q, [r EXCEPT !.pc = "answered", !.required = FALSE])
    /\ UNCHANGED <<fams, tokens, access, keyVars>>

\* The token was used, by another client or before the grace: the family ends.
RotateReused(q) ==
    LET r == req[q] IN
    /\ Cleared(q, "resume", r.attrs.multi)
    /\ Consumable(r.token)
    /\ tokens[r.token].used # 0
    /\ fams' = RevokeFamilies({r.id})
    /\ Writes(q, Idle)
    /\ UNCHANGED <<tokens, access, admitted, issued, keyVars>>

\* Mutant: Reissue does not ask that the previous family is live.
ReplaceableEnded(f) == TRUE

\* What tokens.Reissue asks of the previous family.
Replaceable(f) == Live(f)

\* Backend.Reissue: the next family is created and the previous one revoked.
Replace(q, next) ==
    LET f == req[q].id IN
    /\ Replaceable(f)
    /\ HandOut(tokens, Len(fams) + 1, next.must, now, End(next.lineage))
    /\ fams' = Append(RevokeFamilies({f}), [lineage |-> next.lineage, epoch |-> next.epoch,
                                            multi |-> next.multi, revoked |-> 0])
    /\ Writes(q, Idle)
    /\ UNCHANGED <<admitted, keyVars>>

\* Issuer.ReauthenticateAll: the factors proved in this request decide.
Reauthenticate(q) ==
    \E multi \in BOOLEAN :
        /\ Cleared(q, "reauth", multi)
        /\ Replace(q, [req[q].attrs EXCEPT !.multi = req[q].attrs.multi \/ multi])

\* Issuer.Reissue after the request's own change.
Reissue(q) == req[q].pc = "reissue" /\ Replace(q, req[q].attrs)

\* A resumed session mints a token for a resource server, checked again first.
MintResource(q) ==
    LET r == req[q] IN
    /\ Answered(q) /\ "mint" \in scene.ops
    /\ Resumable(r.id, r.attrs)
    /\ \E key \in Signers :
         access' = access \cup {[NewAccess(r.id, r.attrs.must, now, FamilyEnd(r.id), key)
                                    EXCEPT !.resource = TRUE]}
    /\ Writes(q, Idle)
    /\ UNCHANGED <<fams, tokens, admitted, issued, keyVars>>

\* Backend.revokeUnknown: the claims source no longer knows the subject.
RevokeUnknown(q) ==
    /\ req[q].pc = "reissue" \/ \E op \in {"resume", "reauth"} : Cleared(q, op, TRUE)
    /\ Stored(req[q].id)
    /\ fams' = RevokeFamilies({req[q].id})
    /\ Writes(q, Idle)
    /\ UNCHANGED <<tokens, access, admitted, issued, keyVars>>

-----------------------------------------------------------------------------

Step(q) ==
    \/ ResumeLive(q) \/ BeginRenew(q) \/ Start(q)
    \/ Rotate(q) \/ RotateConcurrent(q) \/ RotateReused(q)
    \/ Reauthenticate(q) \/ Reissue(q) \/ MintResource(q) \/ RevokeUnknown(q)

Next ==
    /\ \/ Elapse
       \/ /\ AccountStep \/ \E q \in Request : RequestStep(q)
          /\ UNCHANGED <<fams, tokens, access, keyVars>>
       \/ Deliver \/ Revoke \/ Erase \/ ReapExpired
       \/ \E q \in Request : Step(q)
       \/ /\ scene.renewals > 0
          /\ KeyStep
          /\ Cardinality(drawn') <= 1 + scene.renewals
          /\ UNCHANGED <<now, accountVars, req, admitted, issued, fams, tokens, access>>
    /\ UNCHANGED scene

Spec == Init /\ [][Next]_vars

-----------------------------------------------------------------------------
\* Properties.

\* A session or resource token outlives the rotation of its key: until it expires,
\* every instance verifies it, unless the keys of the tenant were revoked, the key
\* reached its own end, or the key is so young that an instance may not have
\* polled it yet.  Overlap, staleness of the signing instance and duration of
\* the renewal add up.
SignedVerifies ==
    \A a \in access :
        \/ \A v \in View : VerifiesIn(v, a.key.kid, now)
        \/ a.key.kid \in wiped
        \/ IsExpired(a.key, now)
        \/ now < a.key.stored + PollBound

\* A family that was revoked, at logout, by a reissue, by a replayed token or
\* by a change, authenticates no request that starts PollBound later: neither
\* with an access token, nor by losing a rotation race within the grace.
RevokedRefused ==
    \A q \in Request :
        Answered(q) /\ fams[req[q].id].revoked # 0
            => req[q].at < fams[req[q].id].revoked + PollBound

-----------------------------------------------------------------------------
\* The inductive invariant.

\* The families are of admitted lineages and no later epoch than the account's, and
\* of epochs left by then if the account is disabled.
FamilyOK(fam, lineages, acc, lefts) ==
    /\ fam.lineage \in 1 .. lineages
    /\ fam.epoch \in 1 .. acc.epoch
    /\ Suspended(fam.epoch, acc, lefts)

\* A request goes on with a family that was not revoked when it began, or for less
\* than PollBound, and renews it with its own factors.
RequestOK(r, families, lineages) ==
    r.op # "login" =>
        /\ r.id \in DOMAIN families
        /\ r.attrs.lineage \in 1 .. lineages
        /\ r.op = "resume" => r.attrs.multi = families[r.id].multi
        /\ families[r.id].revoked = 0 \/ r.at < families[r.id].revoked + PollBound

\* An access token that lacks the flag or the factor that the account asks for
\* expires soon enough.
TimelyAccess(a, multi, t, acc, enr) ==
    /\ t < a.exp /\ a.exp <= t + RecheckEvery
    /\ ~a.resource =>
         /\ ~a.must /\ acc.must # 0 => a.exp <= acc.must + scene.lasts + RecheckEvery
         /\ \A g \in Factor : ~multi /\ enr[g] # 0 => a.exp <= enr[g] + scene.lasts + RecheckEvery

\* The tokens of a table are of the families F.
TokensOK(table, F) == \A i \in DOMAIN table : i \in Nat /\ table[i] \in Refresh /\ table[i].family \in F

\* An access token that has not expired is of a family, and timely.
AccessOK(a, families, t, acc, enr) ==
    /\ a.family \in DOMAIN families /\ a.must \in BOOLEAN /\ a.exp \in Nat
    /\ TimelyAccess(a, families[a.family].multi, t, acc, enr)

SessionInv ==
    /\ fams \in Seq(Family)
    /\ \A f \in DOMAIN fams : FamilyOK(fams[f], Len(admitted), account, left)
    /\ TokensOK(tokens, DOMAIN fams)
    /\ \A q \in Request : RequestOK(req[q], fams, Len(admitted))
    /\ \A a \in access : AccessOK(a, fams, now, account, enrolled)

\* The keys and the keysets of the instances, and the tokens signed with them: every
\* keyset still in use serves the key of a token until the token expires.
SigningInv ==
    /\ KeysOK /\ ViewsOK(RecheckEvery)
    /\ \A a \in access : a.key \in Key /\ ~a.key.retired /\ Served(a.key, a.exp)

=============================================================================
