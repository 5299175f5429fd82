------------------------------ MODULE SigningKeys ------------------------------
(***************************************************************************)
(* The signing keys of one tenant: the keys store (store/keys/memory), the *)
(* manager that renews, revokes and tombstones them (internal/keys), and   *)
(* the keysets that instances sign and verify with.  An instance caches a  *)
(* whole keyset and follows the change feed, so it may use any keyset that *)
(* the store held less than PollBound ago (module RevocationCache).        *)
(*                                                                         *)
(* A renewal is a process: its clock, the tombstone check, the active key, *)
(* the existence of the tenant and its one write are read and made apart.  *)
(***************************************************************************)
EXTENDS LibraryClock

CONSTANTS
    Kid,            \* key ids, random in the code: any order of creation
    Renewal,        \* renewals in flight
    KeyLife,        \* RenewRequest.Lifetime, Never among them
    Overlap,        \* RenewRequest.Overlap
    RenewalLasts    \* bound: how long a renewal lasts

VARIABLES
    keys,           \* Store.rows: the keys of the tenant
    dead,           \* Store.tombstones: the tenant was erased
    renewal,        \* the renewals
    past,           \* the keysets replaced, and until when an instance may use them
    wiped,          \* history: the ids of the keys revoked or erased
    drawn           \* history: the ids of the keys ever generated

keyVars == <<keys, dead, renewal, past, wiped, drawn>>

Never == 0
NoKid == 0

Key == [kid : Kid, created : Nat, notAfter : Nat, retired : BOOLEAN, stored : Nat]

\* What a renewal has read: its instant, the id of its key, the key's end, and
\* the signer it is to replace.
NoRenewal == [pc |-> "idle", at |-> 0, kid |-> NoKid, notAfter |-> Never, previous |-> NoKid]

-----------------------------------------------------------------------------
\* Keys and keysets.

IsExpired(k, t) == k.notAfter # Never /\ t >= k.notAfter
IsActive(k, t) == ~k.retired /\ ~IsExpired(k, t)

\* A retired key verifies only until a set end.
Verifies(k, t) == (k.retired => k.notAfter # Never) /\ ~IsExpired(k, t)

Newer(a, b) == a.created > b.created \/ (a.created = b.created /\ a.kid > b.kid)

\* signer, signerAt: the newest active key of a keyset, if it has one.
SignerAt(ks, t) ==
    {k \in ks : IsActive(k, t) /\ \A j \in ks \ {k} : IsActive(j, t) => Newer(k, j)}

\* verifierAt
VerifiesIn(ks, kid, t) == \E k \in ks : k.kid = kid /\ Verifies(k, t)

\* The keysets that some instance may sign or verify with now.
View == {keys} \cup {v.keys : v \in past}

\* The tenant has a first key, known to every instance.
InitKeys(first) ==
    /\ keys = {[kid |-> first, created |-> 1, notAfter |-> Never, retired |-> FALSE, stored |-> 0]}
    /\ dead = FALSE
    /\ renewal = [r \in Renewal |-> NoRenewal]
    /\ past = {}
    /\ wiped = {}
    /\ drawn = {first}

\* A change of the keyset and its feed entry.
Record(ks) ==
    /\ keys' = ks
    /\ past' = IF ks = keys THEN past ELSE past \cup {[keys |-> keys, until |-> now + PollBound]}

-----------------------------------------------------------------------------
\* Manager.Renew and Import.

RenewalTo(r, x) == renewal' = [renewal EXCEPT ![r] = x]

\* plan reads the clock, then refuseTombstoned.
Begin(r) ==
    /\ renewal[r].pc = "idle"
    /\ ~dead
    /\ \E kid \in Kid \ drawn, life \in KeyLife :
         /\ RenewalTo(r, [NoRenewal EXCEPT !.pc = "active", !.at = now, !.kid = kid,
                         !.notAfter = IF life = Never THEN Never ELSE now + life])
         /\ drawn' = drawn \cup {kid}
    /\ UNCHANGED <<keys, dead, past, wiped>>

\* install: with a signer it rotates, else it asks whether the tenant exists.
ReadActive(r) ==
    /\ renewal[r].pc = "active"
    /\ \/ \E k \in SignerAt(keys, now) :
            RenewalTo(r, [renewal[r] EXCEPT !.pc = "rotate", !.previous = k.kid])
       \/ /\ SignerAt(keys, now) = {}
          /\ RenewalTo(r, [renewal[r] EXCEPT !.pc = "exists"])
    /\ UNCHANGED <<keys, dead, past, wiped, drawn>>

TenantExists(r) ==
    /\ renewal[r].pc = "exists"
    /\ RenewalTo(r, [renewal[r] EXCEPT !.pc = IF keys # {} THEN "put" ELSE "create"])
    /\ UNCHANGED <<keys, dead, past, wiped, drawn>>

\* The key that a renewal installs.
NextKey(r) ==
    [kid |-> renewal[r].kid, created |-> renewal[r].at, notAfter |-> renewal[r].notAfter,
     retired |-> FALSE, stored |-> now]

\* Mutant: a tombstone set since the renewal began is not seen.
InsertErased(r) ==
    /\ Record(keys \cup {NextKey(r)})
    /\ RenewalTo(r, NoRenewal)
    /\ UNCHANGED <<dead, wiped, drawn>>

\* PutKey and CreateTenant insert the key of r unless the tenant is tombstoned.
Insert(r) ==
    /\ ~dead                            \* otherwise ErrTenantTombstoned
    /\ Record(keys \cup {NextKey(r)})
    /\ RenewalTo(r, NoRenewal)
    /\ UNCHANGED <<dead, wiped, drawn>>

PutKey(r) == renewal[r].pc = "put" /\ Insert(r)

CreateTenant(r) ==
    /\ renewal[r].pc = "create"
    /\ keys = {}                        \* otherwise ErrConflict
    /\ Insert(r)

\* Mutant: the next key is not asked to sign once the previous one is retired.
BecomesSignerAnyway(next, prev) == TRUE

\* becomesSigner: next is active and newer than every active key but prev.
BecomesSigner(next, prev) ==
    /\ IsActive(next, now)
    /\ \A k \in keys \ {prev} : IsActive(k, now) => Newer(next, k)

\* Mutant: the previous key stops verifying when it is retired.
RetireAtOnce(k, until) == [k EXCEPT !.retired = TRUE, !.notAfter = now]

\* The previous key verifies until the end of the overlap, or its own end if that comes first.
Retire(k, until) ==
    [k EXCEPT !.retired = TRUE,
              !.notAfter = IF k.notAfter = Never \/ k.notAfter > until THEN until ELSE k.notAfter]

\* Store.Rotate: the signer that the renewal read is retired for the next key.
RotateKey(r) ==
    /\ renewal[r].pc = "rotate"
    /\ ~dead
    /\ \E prev \in SignerAt(keys, now) :
         /\ prev.kid = renewal[r].previous          \* otherwise ErrConflict
         /\ BecomesSigner(NextKey(r), prev)         \* otherwise ErrConflict
         /\ Record((keys \ {prev}) \cup {Retire(prev, renewal[r].at + Overlap), NextKey(r)})
    /\ RenewalTo(r, NoRenewal)
    /\ UNCHANGED <<dead, wiped, drawn>>

\* Any conflict, refusal or outage, and a crash of the instance.
Refuse(r) ==
    /\ renewal[r].pc # "idle"
    /\ RenewalTo(r, NoRenewal)
    /\ UNCHANGED <<keys, dead, past, wiped, drawn>>

-----------------------------------------------------------------------------
\* Manager.RevokeAll, Tombstone and the reaper.

Wipe ==
    /\ Record({})
    /\ wiped' = wiped \cup {k.kid : k \in keys}

RevokeTenantKeys ==
    /\ keys # {}
    /\ Wipe
    /\ UNCHANGED <<dead, renewal, drawn>>

Tombstone ==
    /\ ~dead
    /\ Wipe
    /\ dead' = TRUE
    /\ UNCHANGED <<renewal, drawn>>

ReapExpiredKeys ==
    /\ \E k \in keys : ~Verifies(k, now)
    /\ Record({k \in keys : Verifies(k, now)})
    /\ UNCHANGED <<dead, renewal, wiped, drawn>>

-----------------------------------------------------------------------------

RenewalStep(r) ==
    \/ Begin(r) \/ ReadActive(r) \/ TenantExists(r)
    \/ PutKey(r) \/ CreateTenant(r) \/ RotateKey(r) \/ Refuse(r)

KeyStep == RevokeTenantKeys \/ Tombstone \/ ReapExpiredKeys \/ \E r \in Renewal : RenewalStep(r)

\* The clock moves on: no renewal lasts longer than its bound, and keysets that
\* no instance may use any more are forgotten.
Age ==
    /\ \A r \in Renewal : renewal[r].pc # "idle" => now < renewal[r].at + RenewalLasts
    /\ past' = {v \in past : now' < v.until}
    /\ UNCHANGED <<keys, dead, renewal, wiped, drawn>>

-----------------------------------------------------------------------------
\* Properties.

\* An erased tenant has no keys, whatever renewals were in flight when it was
\* tombstoned, and a key that was revoked or erased never comes back.
KeysFinal ==
    /\ dead => keys = {}
    /\ \A k \in keys : k.kid \notin wiped

\* Renewals never leave a tenant without a signer: whatever the renewals that
\* race, a change of the keyset that does not revoke it leaves an active key to
\* a tenant that had one.
SignerKept ==
    [][keys' # keys /\ wiped' = wiped /\ SignerAt(keys, now) # {} => SignerAt(keys', now) # {}]_keyVars

RenewalType ==
    [pc : {"idle", "active", "rotate", "exists", "put", "create"}, at : Nat, kid : Kid \cup {NoKid},
     notAfter : Nat, previous : Kid \cup {NoKid}]

\* A renewal that began has drawn an id that no key and no other renewal has, and
\* that was not revoked.
RenewalOK(r) ==
    renewal[r].pc # "idle" =>
        /\ renewal[r].kid \in drawn \ wiped
        /\ \A k \in keys : k.kid # renewal[r].kid
        /\ \A s \in Renewal \ {r} : renewal[s].pc # "idle" => renewal[s].kid # renewal[r].kid
        /\ renewal[r].at <= now /\ now <= renewal[r].at + RenewalLasts

\* The inductive invariant of the keys.
KeysOK ==
    /\ keys \subseteq Key /\ dead \in BOOLEAN /\ renewal \in [Renewal -> RenewalType]
    /\ wiped \subseteq drawn /\ drawn \subseteq Kid
    /\ dead => keys = {}
    /\ \A k \in keys : k.kid \in drawn \ wiped
    /\ \A r \in Renewal : RenewalOK(r)

\* k is the key k0 as it is or retired since, and verifies until instant t or for as
\* long as k0 would have.
Succeeds(k, k0, t) ==
    /\ k.kid = k0.kid /\ k.stored = k0.stored
    /\ k.retired => k.notAfter # Never
    /\ k.notAfter = k0.notAfter \/ (k.notAfter # Never /\ k.notAfter >= t)

Kept(ks, k0, t) == \E k \in ks : Succeeds(k, k0, t)

\* What is signed with k is verified until t by every instance that may know of k,
\* unless k was revoked or reached its own end.
Served(k, t) ==
    \/ k.kid \in wiped
    \/ IsExpired(k, now)
    \/ /\ Kept(keys, k, t)
       /\ \A v \in past : Kept(v.keys, k, t) \/ v.until <= k.stored + PollBound

\* The keysets that instances may still use: what one of them signs with is verified
\* by all of them for as long as a token of lifetime ttl lasts.
ViewsOK(ttl) ==
    /\ \A v \in past : /\ v.keys \subseteq Key /\ v.until \in Nat
                        /\ now < v.until /\ v.until <= now + PollBound
    /\ \A v \in past, k \in keys : ~k.retired => k \in v.keys \/ v.until <= k.stored + PollBound
    /\ \A w \in past : \A k \in w.keys : ~k.retired => Served(k, w.until + ttl)

===============================================================================
