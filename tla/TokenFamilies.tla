---------------------------- MODULE TokenFamilies ----------------------------
(***************************************************************************)
(* The refresh-family half of the tokens store: store/tokens/memory.       *)
(* Every method of the store runs under one mutex, so each is one action.  *)
(* The clock is read before the mutex is taken, so an operation decides    *)
(* with an instant t that may be up to MaxLag older than the present.      *)
(*                                                                         *)
(* A refresh token is known by the digest of its handle (Hash).  Digests   *)
(* and family ids are drawn at random by the callers, so a request brings  *)
(* one that was never used before; the history variable issued remembers   *)
(* them.  A lineage (the session id sealed in the attributes) is drawn for *)
(* one subject at admission; Owner names that subject.                     *)
(***************************************************************************)
EXTENDS Integers, FiniteSets

CONSTANTS
    Tenant,         \* tenant ids
    Subject,        \* accounts
    TenantOf,       \* [Subject -> Tenant]
    Lineage,        \* session ids
    Owner,          \* [Lineage -> Subject]
    Family,         \* refresh family ids
    Hash,           \* digests of refresh tokens
    Client,         \* non-empty client fingerprints
    NoClient,       \* the empty fingerprint: the first token of a family
    Root,           \* the "parent" of the first token of a family
    NoLineage,      \* uuid.Nil
    IdleTTL,        \* Lifetimes.IdleTimeout
    Lifetimes,      \* every MaxLifetime an instance may be configured with
    MaxLife,        \* the longest of them
    ReuseGrace,     \* tokens.ReuseGrace
    MaxLag,         \* bound: age of the instant an operation decides with
    MaxTime         \* bound: the last instant of the clock

ASSUME TenancyAssumption ==
    /\ TenantOf \in [Subject -> Tenant]
    /\ Owner \in [Lineage -> Subject]

ASSUME IdsAssumption ==
    /\ NoClient \notin Client
    /\ Root \notin Hash
    /\ NoLineage \notin Lineage

ASSUME TimesAssumption ==
    /\ IdleTTL \in Nat \ {0}
    /\ MaxLife \in Nat
    /\ Lifetimes \subseteq 1 .. MaxLife
    /\ ReuseGrace \in Nat \ {0}
    /\ MaxLag \in Nat
    /\ MaxTime \in Nat \ {0}

VARIABLES
    now,        \* the library clock; instant 0 is Go's zero time
    tokens,     \* Store.tokens: digest -> refresh row
    families,   \* Store.families: the digests of each family, {} when absent
    feed,       \* Store.feed, a set of entries ordered by their seq
    seq,        \* Store.seq
    reply,      \* what the last operation returned
    admitted,   \* history: when each lineage was admitted, 0 if not yet
    issued,     \* history: digest -> its family and the token it replaced
    ended,      \* history: when the feed entry of a revoked family lapses
    scope       \* history: the tenants the last step was for

vars == <<now, tokens, families, feed, seq, reply, admitted, issued, ended, scope>>
history == <<admitted, issued, ended>>

FamilyKey == Tenant \X Family
Fingerprint == Client \cup {NoClient}
Outcome == {"none", "ok", "not_found", "revoked", "conflict", "concurrent", "reused"}

RefreshRecord == [family : Family, subject : Subject, lineage : Lineage,
                  fp : Fingerprint, idle : Nat, end : Nat]

Refresh == [row : RefreshRecord, consumedAt : Nat, consumedBy : Fingerprint,
            revoked : BOOLEAN]

FeedEntry == [seq : Nat, fk : FamilyKey, expires : Nat]

-----------------------------------------------------------------------------

\* The instants an operation that runs now may have read from the clock.
Recent == {t \in 1 .. now : t + MaxLag >= now}

\* Index fields of a record built at instant `at` by an instance whose
\* MaxLifetime is life.  The caller has checked at < admission + life.
NewRefreshRecord(f, l, fp, created, at, life) ==
    LET end == created + life
        idle == IF at + IdleTTL > end THEN end ELSE at + IdleTTL
    IN  [family |-> f, subject |-> Owner[l], lineage |-> l, fp |-> fp,
         idle |-> idle, end |-> end]

\* The records a caller can build now for family f and admitted lineage l.
NextRecords(f, l, fp) ==
    {NewRefreshRecord(f, l, fp, admitted[l], p[1], p[2]) :
        p \in {q \in Recent \X Lifetimes :
                  admitted[l] <= q[1] /\ q[1] < admitted[l] + q[2]}}

KeyOf(row) == <<TenantOf[row.subject], row.family>>

FreshHash(h) == h \notin DOMAIN issued
FreshFamily(f) == \A h \in DOMAIN issued : issued[h].family # f

-----------------------------------------------------------------------------
\* Writes shared by the operations.

Insert(toks, h, row) ==
    [x \in DOMAIN toks \cup {h} |->
        IF x = h THEN [row |-> row, consumedAt |-> 0, consumedBy |-> NoClient,
                       revoked |-> FALSE]
        ELSE toks[x]]

Index(fams, h, row) == [fams EXCEPT ![KeyOf(row)] = @ \cup {h}]

\* The families of S that revoke() would append to the feed.
Appended(S) == {fk \in S : \E h \in families[fk] : ~tokens[h].revoked}

\* Mutant: only the head of each family is revoked.
RevokeRowsHeads(toks, S) ==
    [h \in DOMAIN toks |->
        IF toks[h].consumedAt = 0 /\ \E fk \in S : h \in families[fk]
        THEN [toks[h] EXCEPT !.revoked = TRUE] ELSE toks[h]]

RevokeRows(toks, S) ==
    [h \in DOMAIN toks |->
        IF \E fk \in S : h \in families[fk] THEN [toks[h] EXCEPT !.revoked = TRUE]
        ELSE toks[h]]

\* The family expiry of the rows of fk that no other exceeds.
Latest(fk) ==
    LET ends == {tokens[h].row.end : h \in families[fk]}
    IN  {e \in ends : \A x \in ends : x <= e}

\* The orders in which n families, those of S, can be appended to the feed.
Orders(n, S) ==
    {o \in [1 .. n -> S] : /\ \A x \in S : \E i \in 1 .. n : o[i] = x
                           /\ \A i, j \in 1 .. n : o[i] = o[j] => i = j}

\* revoke() on every family of S: one feed entry per family that had a live row.
RevokeAll(S) ==
    LET A == Appended(S) IN
    \E n \in 0 .. Cardinality(A) :
    \E o \in Orders(n, A), expires \in [A -> UNION {Latest(fk) : fk \in A}] :
        /\ \A fk \in A : expires[fk] \in Latest(fk)
        /\ feed' = feed \cup {[seq |-> seq + i, fk |-> o[i], expires |-> expires[o[i]]] : i \in 1 .. n}
        /\ seq' = seq + n
        /\ ended' = [fk \in FamilyKey |-> IF fk \in A THEN expires[fk] ELSE ended[fk]]

\* dropToken() on every digest of D.
DropTokens(toks, D) == [h \in DOMAIN toks \ D |-> toks[h]]
DropIndex(fams, D) == [fk \in FamilyKey |-> fams[fk] \ D]

-----------------------------------------------------------------------------
\* Reads shared by the operations.

Found(t, h) == h \in DOMAIN tokens /\ TenantOf[tokens[h].row.subject] = t

\* Mutant: the revocation mark is not looked at.
ReplayableRevoked(h, t) ==
    LET r == tokens[h]
    IN  IF t >= r.row.end THEN "revoked"
        ELSE IF t >= r.row.idle /\ r.consumedAt = 0 THEN "not_found"
        ELSE "ok"

\* usable() then replayable(): what stops the row of h from being rotated at t.
Replayable(h, t) ==
    LET r == tokens[h]
    IN  IF r.revoked \/ t >= r.row.end THEN "revoked"
        ELSE IF t >= r.row.idle /\ r.consumedAt = 0 THEN "not_found"
        ELSE "ok"

Continues(row, next) ==
    /\ row.subject = next.subject
    /\ row.lineage = next.lineage
    /\ row.family = next.family

WithinGrace(r, fp, t) ==
    /\ t - r.consumedAt < ReuseGrace
    /\ r.consumedBy # NoClient
    /\ r.consumedBy = fp

\* state(): the subject and lineage of a family are those of its first row.
First(fk) == tokens[CHOOSE h \in families[fk] : TRUE].row
Revoked(fk) == \E h \in families[fk] : tokens[h].revoked
Live(fk, t) == ~Revoked(fk) /\ \E h \in families[fk] : t < tokens[h].row.end

SubjectFamilies(s) ==
    {fk \in FamilyKey : fk[1] = TenantOf[s] /\ families[fk] # {} /\ First(fk).subject = s}

-----------------------------------------------------------------------------
\* The operations.

Init ==
    /\ now = 1
    /\ tokens = [h \in {} |-> 0]
    /\ families = [fk \in FamilyKey |-> {}]
    /\ feed = {}
    /\ seq = 0
    /\ reply = "none"
    /\ admitted = [l \in Lineage |-> 0]
    /\ issued = [h \in {} |-> 0]
    /\ ended = [fk \in FamilyKey |-> 0]
    /\ scope = {}

Tick ==
    /\ now < MaxTime
    /\ now' = now + 1
    /\ reply' = "none"
    /\ scope' = {}
    /\ UNCHANGED <<tokens, families, feed, seq, history>>

Issue(h, row, from) ==
    issued' = [x \in DOMAIN issued \cup {h} |->
                  IF x = h THEN [family |-> row.family, from |-> from] ELSE issued[x]]

\* A login starts family f of the fresh lineage l with its first token h.  The
\* record was built at instant `at`, which is also its admission.
Create(h, f, l, at, life) ==
    LET row == NewRefreshRecord(f, l, NoClient, at, at, life)
    IN  /\ admitted[l] = 0
        /\ FreshHash(h)
        /\ FreshFamily(f)
        /\ families[KeyOf(row)] = {}        \* otherwise ErrConflict
        /\ h \notin DOMAIN tokens           \* otherwise ErrConflict
        /\ tokens' = Insert(tokens, h, row)
        /\ families' = Index(families, h, row)
        /\ admitted' = [admitted EXCEPT ![l] = at]
        /\ Issue(h, row, Root)
        /\ reply' = "ok"
        /\ UNCHANGED <<now, feed, seq, ended>>

\* A read: nothing changes but the reply.
Get(tn, h, t) ==
    /\ reply' = IF Found(tn, h) THEN Replayable(h, t) ELSE "not_found"
    /\ UNCHANGED <<now, tokens, families, feed, seq, history>>

\* Mutant: a retry within the grace is given a token of its own.
RotationOutcomeGraceAdmits(h, next, t) ==
    IF ~Found(TenantOf[next.subject], h) THEN "not_found"
    ELSE LET r == tokens[h]
         IN  IF Replayable(h, t) # "ok" THEN Replayable(h, t)
             ELSE IF ~Continues(r.row, next) THEN "conflict"
             ELSE IF r.consumedAt # 0 /\ ~WithinGrace(r, next.fp, t) THEN "reused"
             ELSE IF next.end > r.row.end THEN "conflict"
             ELSE "ok"

\* The decision of ConsumeForRotation on presented token h and Next record next.
RotationOutcome(h, next, t) ==
    IF ~Found(TenantOf[next.subject], h) THEN "not_found"
    ELSE LET r == tokens[h]
         IN  IF Replayable(h, t) # "ok" THEN Replayable(h, t)
             ELSE IF ~Continues(r.row, next) THEN "conflict"
             ELSE IF r.consumedAt # 0
                  THEN IF WithinGrace(r, next.fp, t) THEN "concurrent" ELSE "reused"
             ELSE IF next.end > r.row.end THEN "conflict"
             ELSE "ok"

Rotate(h, n, next, t) ==
    /\ RotationOutcome(h, next, t) = "ok"
    /\ n \notin DOMAIN tokens               \* otherwise ErrConflict
    /\ tokens' = [Insert(tokens, n, next) EXCEPT
                     ![h] = [@ EXCEPT !.consumedAt = t, !.consumedBy = next.fp]]
    /\ families' = Index(families, n, next)
    /\ Issue(n, next, h)
    /\ reply' = "ok"
    /\ UNCHANGED <<now, feed, seq, admitted, ended>>

Reuse(h, next, t) ==
    /\ RotationOutcome(h, next, t) = "reused"
    /\ RevokeAll({KeyOf(tokens[h].row)})
    /\ tokens' = RevokeRows(tokens, {KeyOf(tokens[h].row)})
    /\ reply' = "reused"
    /\ UNCHANGED <<now, families, admitted, issued>>

RefuseRotation(h, next, t) ==
    /\ RotationOutcome(h, next, t) \notin {"ok", "reused"}
    /\ reply' = RotationOutcome(h, next, t)
    /\ UNCHANGED <<now, tokens, families, feed, seq, history>>

ConsumeForRotation(h, n, next, t) ==
    \/ Rotate(h, n, next, t)
    \/ Reuse(h, next, t)
    \/ RefuseRotation(h, next, t)

\* Mutant: the old family need not be live any more.
ReplaceableDead(fk, n, next, t) ==
    /\ families[fk] # {}
    /\ next.family # fk[2]
    /\ families[KeyOf(next)] = {}
    /\ n \notin DOMAIN tokens
    /\ \A h \in families[fk] : /\ tokens[h].row.subject = next.subject
                               /\ tokens[h].row.lineage = next.lineage

\* Whether Reissue may replace family fk by the family of next.
Replaceable(fk, n, next, t) ==
    /\ families[fk] # {}
    /\ next.family # fk[2]
    /\ families[KeyOf(next)] = {}
    /\ n \notin DOMAIN tokens
    /\ Live(fk, t)
    /\ \A h \in families[fk] : /\ tokens[h].row.subject = next.subject
                               /\ tokens[h].row.lineage = next.lineage

\* Mutant: the family that is replaced is left as it was.
SupersedeKeeps(fk, n, next, t) ==
    /\ Replaceable(fk, n, next, t)
    /\ tokens' = Insert(tokens, n, next)
    /\ families' = Index(families, n, next)
    /\ Issue(n, next, Root)
    /\ reply' = "ok"
    /\ UNCHANGED <<now, feed, seq, ended, admitted>>

Supersede(fk, n, next, t) ==
    /\ Replaceable(fk, n, next, t)
    /\ RevokeAll({fk})
    /\ tokens' = RevokeRows(Insert(tokens, n, next), {fk})
    /\ families' = Index(families, n, next)
    /\ Issue(n, next, Root)
    /\ reply' = "ok"
    /\ UNCHANGED <<now, admitted>>

RefuseReissue(fk, n, next, t) ==
    /\ ~Replaceable(fk, n, next, t)
    /\ reply' = "conflict"
    /\ UNCHANGED <<now, tokens, families, feed, seq, history>>

Reissue(fk, n, next, t) == Supersede(fk, n, next, t) \/ RefuseReissue(fk, n, next, t)

RevokeFamilies(S) ==
    /\ RevokeAll(S)
    /\ tokens' = RevokeRows(tokens, S)
    /\ reply' = "ok"
    /\ UNCHANGED <<now, families, admitted, issued>>

\* Mutant: the id of the family alone decides.
RevokeFamilyOfAny(fk) == RevokeFamilies({k \in FamilyKey : k[2] = fk[2]})

RevokeFamily(fk) == RevokeFamilies({fk})

RevokeForSubject(s, except) ==
    RevokeFamilies({fk \in SubjectFamilies(s) :
                       except = NoLineage \/ First(fk).lineage # except})

\* revoke() then dropFamily() on every family of S.
EraseFamilies(S) ==
    LET D == UNION {families[fk] : fk \in S}
    IN  /\ RevokeAll(S)
        /\ tokens' = DropTokens(tokens, D)
        /\ families' = DropIndex(families, D)
        /\ reply' = "ok"
        /\ UNCHANGED <<now, admitted, issued>>

DeleteForSubject(s) == EraseFamilies(SubjectFamilies(s))

EraseTenant(tn) == EraseFamilies({fk \in FamilyKey : fk[1] = tn})

\* Mutant: feed entries go one instant early.
ReapExpiredEarly(t) ==
    LET D == {h \in DOMAIN tokens : t >= tokens[h].row.idle \/ t >= tokens[h].row.end}
    IN  /\ tokens' = DropTokens(tokens, D)
        /\ families' = DropIndex(families, D)
        /\ feed' = {e \in feed : t + 1 < e.expires}
        /\ reply' = "ok"
        /\ UNCHANGED <<now, seq, history>>

\* Rows go at their idle or family expiry, consumed and revoked ones included;
\* feed entries go at the family expiry they carry.
ReapExpired(t) ==
    LET D == {h \in DOMAIN tokens : t >= tokens[h].row.idle \/ t >= tokens[h].row.end}
    IN  /\ tokens' = DropTokens(tokens, D)
        /\ families' = DropIndex(families, D)
        /\ feed' = {e \in feed : t < e.expires}
        /\ reply' = "ok"
        /\ UNCHANGED <<now, seq, history>>

-----------------------------------------------------------------------------

\* A request of tenant tn names a token or a family by what its caller brings,
\* which may belong to another tenant.

Login(tn) ==
    \E h \in Hash, f \in Family, l \in Lineage, life \in Lifetimes, at \in Recent :
        TenantOf[Owner[l]] = tn /\ Create(h, f, l, at, life)

\* Any token ever handed out may be presented again, with a Next record of any
\* admitted lineage of the tenant and any family.
Rotation(tn) ==
    \E h \in DOMAIN issued, n \in Hash, l \in Lineage, f \in Family, fp \in Client,
       t \in Recent :
        /\ TenantOf[Owner[l]] = tn
        /\ admitted[l] # 0
        /\ FreshHash(n)
        /\ \E next \in NextRecords(f, l, fp) : ConsumeForRotation(h, n, next, t)

\* Any family ever started may be named by a handle; Next starts a fresh one.
Replace(tn) ==
    \E h \in DOMAIN issued, n \in Hash, l \in Lineage, f \in Family, t \in Recent :
        /\ TenantOf[Owner[l]] = tn
        /\ admitted[l] # 0
        /\ FreshHash(n)
        /\ FreshFamily(f)
        /\ \E next \in NextRecords(f, l, NoClient) : Reissue(<<tn, issued[h].family>>, n, next, t)

Read(tn) == \E h \in DOMAIN issued, t \in Recent : Get(tn, h, t)

Accounts(tn) == {s \in Subject : TenantOf[s] = tn}

Revocation(tn) ==
    \/ \E f \in Family : RevokeFamily(<<tn, f>>)
    \/ \E s \in Accounts(tn), except \in Lineage \cup {NoLineage} : RevokeForSubject(s, except)

Erasure(tn) == (\E s \in Accounts(tn) : DeleteForSubject(s)) \/ EraseTenant(tn)

Request(tn) ==
    /\ Login(tn) \/ Rotation(tn) \/ Replace(tn) \/ Read(tn) \/ Revocation(tn) \/ Erasure(tn)
    /\ scope' = {tn}

\* The reaper sweeps the rows of all tenants.
Reap == (\E t \in Recent : ReapExpired(t)) /\ scope' = Tenant

Next == Tick \/ Reap \/ \E tn \in Tenant : Request(tn)

Spec == Init /\ [][Next]_vars

-----------------------------------------------------------------------------
\* Properties.

\* Every variable has its shape; feed positions are store-issued: distinct and
\* never beyond Store.seq.
TypeOK ==
    /\ now \in 1 .. MaxTime
    /\ DOMAIN tokens \subseteq Hash
    /\ tokens \in [DOMAIN tokens -> Refresh]
    /\ families \in [FamilyKey -> SUBSET Hash]
    /\ feed \subseteq FeedEntry
    /\ seq \in Nat
    /\ \A e \in feed : e.seq \in 1 .. seq
    /\ \A d, e \in feed : d.seq = e.seq => d = e
    /\ reply \in Outcome
    /\ admitted \in [Lineage -> 0 .. MaxTime]
    /\ DOMAIN issued \subseteq Hash
    /\ issued \in [DOMAIN issued -> [family : Family, from : Hash \cup {Root}]]
    /\ ended \in [FamilyKey -> Nat]

\* The index Store.families and the rows of Store.tokens agree: a digest is
\* indexed under the tenant and family of its row and nowhere else, after any
\* sequence of inserts, reaps and erasures.
IndexExact ==
    /\ \A fk \in FamilyKey : \A h \in families[fk] :
          h \in DOMAIN tokens /\ KeyOf(tokens[h].row) = fk
    /\ \A h \in DOMAIN tokens : h \in families[KeyOf(tokens[h].row)]

\* The rows of one family never disagree: same subject, same lineage, all
\* revoked or none.  state(), subjectFamilies() and revoke() read one row and
\* speak for the family.
FamilyUniform ==
    \A fk \in FamilyKey : \A g, h \in families[fk] :
        /\ tokens[g].row.subject = tokens[h].row.subject
        /\ tokens[g].row.lineage = tokens[h].row.lineage
        /\ tokens[g].revoked = tokens[h].revoked

\* Rotation builds a chain, never a tree: no two tokens were ever issued in
\* exchange for the same one, however its presentations interleave with
\* revocation, reaping and the grace window (ConsumeForRotation).
NoFork ==
    \A x, y \in DOMAIN issued :
        issued[x].from = issued[y].from /\ issued[x].from # Root => x = y

\* A family has at most one token that can still be rotated.
SingleHead ==
    \A fk \in FamilyKey : \A g, h \in families[fk] :
        tokens[g].consumedAt = 0 /\ tokens[h].consumedAt = 0 => g = h

\* Reissue moves a lineage from one family to the next atomically: two families
\* of one lineage are never both unrevoked, whatever Reissues race (C-33).
OneLiveFamilyPerLineage ==
    \A g, h \in DOMAIN tokens :
        /\ tokens[g].row.lineage = tokens[h].row.lineage
        /\ ~tokens[g].revoked
        /\ ~tokens[h].revoked
        => tokens[g].row.family = tokens[h].row.family

\* Revocation is final: a family that was ever revoked holds no live row again,
\* even when some of its rows were reaped or erased first.
RevokedForGood ==
    \A fk \in FamilyKey : ended[fk] # 0 => \A h \in families[fk] : tokens[h].revoked

\* A follower that reads the feed learns of every revocation that matters: the
\* entry of a revoked or erased family stays in the feed until the last instant
\* a row of that family could have been live.
FeedComplete ==
    /\ \A fk \in FamilyKey :
          now < ended[fk] => \E e \in feed : e.fk = fk /\ e.expires = ended[fk]
    /\ \A h \in DOMAIN tokens :
          tokens[h].revoked => tokens[h].row.end <= ended[KeyOf(tokens[h].row)]

\* What the histories say of the rows, the strengthening the proofs rest on.
\* A held row was issued, in its family and under an admitted lineage of its
\* subject.
RowsIssued ==
    \A h \in DOMAIN tokens :
        /\ h \in DOMAIN issued
        /\ issued[h].family = tokens[h].row.family
        /\ tokens[h].row.subject = Owner[tokens[h].row.lineage]
        /\ admitted[tokens[h].row.lineage] # 0
        /\ tokens[h].row.end \in 1 .. MaxTime + MaxLife
        /\ tokens[h].row.idle <= tokens[h].row.end

\* A token that was exchanged for another is marked consumed while it is held.
ExchangedConsumed ==
    \A x \in DOMAIN issued :
        issued[x].from # Root =>
           /\ issued[x].from \in DOMAIN issued
           /\ issued[x].from \in DOMAIN tokens => tokens[issued[x].from].consumedAt # 0

\* A family that was revoked had been issued.
EndedIssued ==
    \A fk \in FamilyKey : ended[fk] # 0 => \E h \in DOMAIN issued : issued[h].family = fk[2]

Ledger == RowsIssued /\ ExchangedConsumed /\ EndedIssued

\* The inductive invariant.
IInv ==
    /\ TypeOK
    /\ IndexExact
    /\ FamilyUniform
    /\ Ledger
    /\ NoFork
    /\ SingleHead
    /\ OneLiveFamilyPerLineage
    /\ RevokedForGood
    /\ FeedComplete

\* The rows of the tenants a step was not for stay as they are.
SparesOthers ==
    \A h \in DOMAIN tokens :
        TenantOf[tokens[h].row.subject] \notin scope' => h \in DOMAIN tokens' /\ tokens'[h] = tokens[h]

\* "another tenant cannot revoke the family": a request of one tenant consumes,
\* revokes and erases no row of another, whichever token or family it names, though
\* Store.tokens is one map for all tenants (lookup, familyKey, subjectFamilies,
\* EraseTenant).
TenantIsolation == [][SparesOthers]_vars

\* The rows of lineage l that are not revoked.
Surviving(l) == {h \in DOMAIN tokens : tokens[h].row.lineage = l /\ ~tokens[h].revoked}

\* A session that ended stays ended: once every family of an admitted lineage is
\* revoked, reaped or erased, no Rotation or Reissue that was already under way
\* brings a live row of it back (invariant I6 of docs/protocols/refresh-family.md).
LineageEndsForGood ==
    [][\A l \in Lineage :
          admitted[l] # 0 /\ Surviving(l) = {} => Surviving(l)' = {}]_vars

\* What store.go promises of replays: "A consumed token is returned past its
\* idle window so that its replay reaches ConsumeForRotation and counts as
\* reuse."  For that, the row of a consumed token must be held as long as its
\* family is live.
ConsumedKept ==
    \A n \in DOMAIN issued :
        LET h == issued[n].from
        IN  h # Root /\ (\E fk \in FamilyKey : fk[2] = issued[n].family /\ Live(fk, now))
            => h \in DOMAIN tokens

=============================================================================
