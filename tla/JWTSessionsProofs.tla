-------------------------- MODULE JWTSessionsProofs --------------------------
(***************************************************************************)
(* What the operations of the JWT backend and of the signing keys do, for  *)
(* every number of requests, families, tokens, renewals and keys and every *)
(* duration: what a change of the keyset leaves of the keys that were      *)
(* signed with, and what a change of the families or of the account leaves *)
(* of SessionInv.                                                          *)
(***************************************************************************)
EXTENDS JWTSessions, SessionRequestsProofs

\* Zenon proves the steps that name no prover; the SMT solver those with arithmetic.
USE Zenon

-----------------------------------------------------------------------------
\* The signing keys.

\* The keys that a step leaves: each key that was there is as it was or retired for
\* long enough, unless it was revoked or verified nothing any more, and the keys that
\* were not there are stored at this instant.
Follows(ks) ==
    /\ \A k \in keys : \/ \E j \in ks : j = k \/ (j.retired /\ Succeeds(j, k, now + PollBound + RecheckEvery))
                       \/ k.kid \in wiped'
                       \/ ~Verifies(k, now)
    /\ \A k \in ks : k.retired \/ k \in keys \/ k.stored = now

\* The types of the keys, and the bounds of the configuration.
LEMMA KeyFacts ==
    ASSUME KeysOK
    PROVE  /\ keys \subseteq Key /\ keys \in SUBSET Key
           /\ \A k \in Key : /\ k.kid \in Kid /\ k.kid \in Nat /\ k.created \in Nat
                                  /\ k.notAfter \in Nat /\ k.retired \in BOOLEAN /\ k.stored \in Nat
           /\ RecheckEvery \in Nat /\ PollBound \in Nat /\ PollBound > 0 /\ RecheckEvery > 0
           /\ Overlap \in Nat /\ RenewalLasts \in Nat /\ ReuseGrace \in Nat
           /\ Overlap >= PollBound + RecheckEvery + RenewalLasts
<1>1. keys \subseteq Key
  BY DEF KeysOK
<1>2. \A k \in Key : /\ k.kid \in Kid /\ k.kid \in Nat /\ k.created \in Nat
                          /\ k.notAfter \in Nat /\ k.retired \in BOOLEAN /\ k.stored \in Nat
  BY KeyAssumption DEF Key
<1> QED BY <1>1, <1>2, KeyAssumption, TimeAssumption, SMTT(30)

\* What was signed with k until t is served on after a change of the keyset.
LEMMA ServedOn ==
    ASSUME KeysOK, NEW ks \in SUBSET Key, Record(ks), Follows(ks), wiped \subseteq wiped',
           now' = now, now \in Nat, NEW k \in Key, NEW t \in Nat, now < t,
           t <= now + PollBound + RecheckEvery, Served(k, t)
    PROVE  Served(k, t)'
<1>1. /\ keys' = ks
      /\ past' = past \/ past' = past \cup {[keys |-> keys, until |-> now + PollBound]}
  BY DEF Record
<1>2. CASE k.kid \in wiped \/ IsExpired(k, now)
  BY <1>2 DEF Served, IsExpired
<1>3. CASE /\ Kept(keys, k, t) /\ ~IsExpired(k, now)
           /\ \A v \in past : Kept(v.keys, k, t) \/ v.until <= k.stored + PollBound
  <2>1. PICK j \in keys : Succeeds(j, k, t)
    BY <1>3 DEF Kept
  <2>2. /\ j \in Key /\ j.kid = k.kid /\ j.notAfter \in Nat /\ k.notAfter \in Nat
        /\ RecheckEvery \in Nat /\ PollBound \in Nat
    BY <2>1, KeyFacts DEF Succeeds
  <2>3. Verifies(j, now)
    BY <1>3, <2>1, <2>2, SMTT(30) DEF Succeeds, Verifies, IsExpired, Never
  <2>4. CASE j.kid \in wiped'
    BY <2>2, <2>4 DEF Served
  <2>5. ASSUME NEW i \in ks, i = j \/ (i.retired /\ Succeeds(i, j, now + PollBound + RecheckEvery))
        PROVE  Succeeds(i, k, t)
    <3>1. i.notAfter \in Nat
      BY KeyFacts
    <3> QED BY <2>1, <2>2, <2>5, <3>1, SMTT(30) DEF Succeeds, Never
  <2>6. CASE \E i \in ks : i = j \/ (i.retired /\ Succeeds(i, j, now + PollBound + RecheckEvery))
    <3>1. Kept(keys', k, t)
      BY <1>1, <2>5, <2>6 DEF Kept
    <3>2. ASSUME NEW v \in past'
          PROVE  Kept(v.keys, k, t) \/ v.until <= k.stored + PollBound
      <4>1. v \in past \/ v.keys = keys
        BY <1>1, SMTT(30)
      <4> QED BY <1>3, <4>1
    <3> QED BY <3>1, <3>2 DEF Served, Kept, Succeeds
  <2> QED BY <2>3, <2>4, <2>6 DEF Follows
<1> QED BY <1>2, <1>3 DEF Served

\* A change of the keyset keeps what instances may still sign with served.
LEMMA ViewsOn ==
    ASSUME KeysOK, ViewsOK(RecheckEvery), NEW ks \in SUBSET Key, Record(ks),
           Follows(ks), wiped \subseteq wiped', now' = now, now \in Nat
    PROVE  ViewsOK(RecheckEvery)'
<1> DEFINE new == [keys |-> keys, until |-> now + PollBound]
<1>1. keys' = ks /\ \A v \in past' : v \in past \/ v = new
  BY DEF Record
<1>2. /\ keys \subseteq Key /\ PollBound \in Nat /\ PollBound > 0 /\ RecheckEvery \in Nat
      /\ \A k \in Key : k.stored \in Nat /\ k.retired \in BOOLEAN
  BY KeyFacts
<1>3. ASSUME NEW v \in past'
      PROVE  v.keys \subseteq Key /\ v.until \in Nat /\ now < v.until /\ v.until <= now + PollBound
  BY <1>1, <1>2, <1>3, SMTT(30) DEF ViewsOK
<1>4. ASSUME NEW v \in past', NEW k \in ks, ~k.retired
      PROVE  k \in v.keys \/ v.until <= k.stored + PollBound
  <2>1. k \in keys \/ k.stored = now
    BY <1>4 DEF Follows
  <2>2. CASE k.stored = now
    BY <1>3, <2>2
  <2>3. CASE k \in keys
    BY <1>1, <1>4, <2>3, SMTT(30) DEF ViewsOK
  <2> QED BY <2>1, <2>2, <2>3
<1>5. ASSUME NEW k \in keys, NEW t \in Nat, ~k.retired
      PROVE  Served(k, t)
  <2>1. Succeeds(k, k, t)
    BY <1>5 DEF Succeeds
  <2>2. \A v \in past : k \in v.keys \/ v.until <= k.stored + PollBound
    BY <1>5 DEF ViewsOK
  <2> QED BY <2>1, <2>2 DEF Served, Kept
<1>6. ASSUME NEW w \in past', NEW k \in w.keys, ~k.retired
      PROVE  Served(k, w.until + RecheckEvery)'
  <2>1. k \in Key /\ w.until \in Nat /\ now < w.until /\ w.until <= now + PollBound
    BY <1>3
  <2> DEFINE t == w.until + RecheckEvery
  <2>2. t \in Nat /\ now < t /\ t <= now + PollBound + RecheckEvery
    BY <1>2, <2>1, SMTT(30)
  <2>3. Served(k, t)
    <3>1. CASE w \in past
      BY <1>6, <3>1 DEF ViewsOK
    <3>2. CASE w = new
      <4>1. k \in keys
        BY <3>2
      <4> QED BY <1>5, <1>6, <2>2, <4>1
    <3> QED BY <1>1, <3>1, <3>2
  <2> HIDE DEF t
  <2>4. Served(k, t)'
    BY <2>1, <2>2, <2>3, ServedOn
  <2> QED BY <2>4 DEF t
<1> QED BY <1>1, <1>3, <1>4, <1>6 DEF ViewsOK

\* What a step of the keys is, for the tokens and the other keysets.
Evolves ==
    /\ keys' \in SUBSET Key /\ Record(keys') /\ Follows(keys') /\ wiped \subseteq wiped'

\* A step that leaves the keyset alone.
LEMMA SameKeys ==
    ASSUME KeysOK, keys' = keys, past' = past, wiped' = wiped
    PROVE  Evolves
BY DEF Evolves, KeysOK, Record, Follows

\* A renewal r goes on as x, of the same id.
LEMMA RenewalOn ==
    ASSUME KeysOK, now' = now, UNCHANGED <<keys, dead, past, wiped, drawn>>, NEW r \in Renewal,
           NEW x \in RenewalType, RenewalTo(r, x),
           x.pc = "idle" \/ (/\ renewal[r].pc # "idle"
                             /\ x.kid = renewal[r].kid /\ x.at = renewal[r].at)
    PROVE  KeysOK' /\ Evolves
<1>1. renewal \in [Renewal -> RenewalType] /\ renewal' = [renewal EXCEPT ![r] = x]
  BY DEF KeysOK, RenewalTo
<1>2. renewal' \in [Renewal -> RenewalType]
  BY <1>1
<1>3. \A s \in Renewal : renewal'[s].pc # "idle" =>
        /\ renewal[s].pc # "idle"
        /\ renewal'[s].kid = renewal[s].kid /\ renewal'[s].at = renewal[s].at
  BY <1>1
<1>4. ASSUME NEW s \in Renewal
      PROVE  RenewalOK(s)'
  <2>1. RenewalOK(s)
    BY DEF KeysOK
  <2> QED BY <1>3, <2>1 DEF RenewalOK
<1>5. KeysOK'
  BY <1>2, <1>4 DEF KeysOK
<1> QED BY <1>5, SameKeys

\* A renewal that has not begun is of its type.
LEMMA NoRenewalType == NoRenewal \in RenewalType /\ NoRenewal.pc = "idle"
BY DEF NoRenewal, RenewalType, NoKid, Never

\* A renewal begins: no key changes.
LEMMA BeginKeys ==
    ASSUME KeysOK, now \in Nat, now' = now, NEW r \in Renewal, Begin(r)
    PROVE  KeysOK' /\ Evolves
<1>1. PICK kid \in Kid \ drawn, life \in KeyLife :
        /\ RenewalTo(r, [NoRenewal EXCEPT !.pc = "active", !.at = now, !.kid = kid,
                            !.notAfter = IF life = Never THEN Never ELSE now + life])
        /\ drawn' = drawn \cup {kid}
  BY DEF Begin
<1> DEFINE end == IF life = Never THEN Never ELSE now + life
           x == [NoRenewal EXCEPT !.pc = "active", !.at = now, !.kid = kid, !.notAfter = end]
<1>2. UNCHANGED <<keys, dead, past, wiped>>
  BY DEF Begin
<1>3. end \in Nat /\ RenewalLasts \in Nat
  BY KeyAssumption, SMTT(30) DEF Never
<1>5. renewal \in [Renewal -> RenewalType] /\ renewal' = [renewal EXCEPT ![r] = x]
  BY <1>1 DEF KeysOK, RenewalTo
<1> HIDE DEF end
<1>4. x \in RenewalType /\ x.pc = "active" /\ x.at = now /\ x.kid = kid
  BY <1>3 DEF NoRenewal, RenewalType, NoKid, Never
<1> HIDE DEF x
<1>6. renewal' \in [Renewal -> RenewalType]
  BY <1>4, <1>5
<1>7. wiped \subseteq drawn /\ drawn \subseteq Kid /\ \A k \in keys : k.kid \in drawn
  BY DEF KeysOK
<1>8. ASSUME NEW s \in Renewal
      PROVE  RenewalOK(s)'
  <2>1. CASE s = r
    <3>1. renewal'[s] = x
      BY <1>5, <2>1
    <3>2. \A u \in Renewal \ {s} : renewal'[u] = renewal[u] /\ (renewal[u].pc # "idle" => renewal[u].kid \in drawn)
      BY <1>5, <2>1 DEF KeysOK, RenewalOK
    <3> QED BY <1>1, <1>2, <1>3, <1>4, <1>7, <3>1, <3>2, SMTT(30) DEF RenewalOK
  <2>2. CASE s # r
    <3>1. renewal'[s] = renewal[s] /\ RenewalOK(s)
      BY <1>5, <2>2 DEF KeysOK
    <3>2. \A u \in Renewal \ {s} : renewal'[u] = renewal[u] \/ renewal'[u].kid = kid
      BY <1>4, <1>5
    <3> QED BY <1>1, <1>2, <3>1, <3>2 DEF RenewalOK
  <2> QED BY <2>1, <2>2
<1>9. KeysOK'
  BY <1>1, <1>2, <1>6, <1>7, <1>8 DEF KeysOK
<1> QED BY <1>2, <1>9, SameKeys

\* The steps of a renewal that only read, and its end.
LEMMA ReadKeys ==
    ASSUME KeysOK, now' = now, NEW r \in Renewal,
           ReadActive(r) \/ TenantExists(r) \/ Refuse(r)
    PROVE  KeysOK' /\ Evolves
<1>1. renewal[r] \in RenewalType
  BY DEF KeysOK
<1>2. UNCHANGED <<keys, dead, past, wiped, drawn>>
  BY DEF ReadActive, TenantExists, Refuse
<1>3. CASE Refuse(r)
  BY <1>2, <1>3, NoRenewalType, RenewalOn DEF Refuse
<1>4. ASSUME NEW pc \in {"rotate", "exists", "put", "create"}, NEW kid \in Kid \cup {NoKid},
             RenewalTo(r, [renewal[r] EXCEPT !.pc = pc, !.previous = kid]), renewal[r].pc # "idle"
      PROVE  KeysOK' /\ Evolves
  <2> DEFINE x == [renewal[r] EXCEPT !.pc = pc, !.previous = kid]
  <2>1. x \in RenewalType /\ x.kid = renewal[r].kid /\ x.at = renewal[r].at /\ RenewalTo(r, x)
    BY <1>1, <1>4 DEF RenewalType
  <2> HIDE DEF x
  <2> QED BY <1>2, <1>4, <2>1, RenewalOn
<1>5. \A pc : [renewal[r] EXCEPT !.pc = pc] = [renewal[r] EXCEPT !.pc = pc, !.previous = renewal[r].previous]
  BY <1>1 DEF RenewalType
<1>6. renewal[r].previous \in Kid \cup {NoKid}
  BY <1>1 DEF RenewalType
<1>7. CASE ReadActive(r)
  <2>1. CASE \E k \in SignerAt(keys, now) :
               RenewalTo(r, [renewal[r] EXCEPT !.pc = "rotate", !.previous = k.kid])
    <3>1. PICK k \in SignerAt(keys, now) :
            RenewalTo(r, [renewal[r] EXCEPT !.pc = "rotate", !.previous = k.kid])
      BY <2>1
    <3>2. k.kid \in Kid
      BY KeyFacts DEF SignerAt
    <3>3. renewal[r].pc # "idle"
      BY <1>7 DEF ReadActive
    <3> QED BY <1>4, <3>1, <3>2, <3>3
  <2>2. CASE RenewalTo(r, [renewal[r] EXCEPT !.pc = "exists"])
    <3>1. RenewalTo(r, [renewal[r] EXCEPT !.pc = "exists", !.previous = renewal[r].previous])
      BY <1>5, <2>2
    <3>2. renewal[r].pc # "idle"
      BY <1>7 DEF ReadActive
    <3> QED BY <1>4, <1>6, <3>1, <3>2
  <2> QED BY <1>7, <2>1, <2>2 DEF ReadActive
<1>8. CASE TenantExists(r)
  <2> DEFINE pc == IF keys # {} THEN "put" ELSE "create"
  <2>1. RenewalTo(r, [renewal[r] EXCEPT !.pc = pc, !.previous = renewal[r].previous])
    BY <1>5, <1>8 DEF TenantExists
  <2>2. renewal[r].pc # "idle" /\ pc \in {"put", "create"}
    BY <1>8 DEF TenantExists
  <2> HIDE DEF pc
  <2> QED BY <1>4, <1>6, <2>1, <2>2
<1> QED BY <1>3, <1>7, <1>8

\* The key that renewal r installs.
LEMMA NextKeyFacts ==
    ASSUME KeysOK, now \in Nat, NEW r \in Renewal, renewal[r].pc # "idle"
    PROVE  /\ NextKey(r) \in Key /\ NextKey(r).stored = now
           /\ ~NextKey(r).retired /\ NextKey(r).kid = renewal[r].kid
           /\ NextKey(r).created = renewal[r].at
           /\ renewal[r].kid \in drawn \ wiped /\ \A k \in keys : k.kid # renewal[r].kid
           /\ renewal[r].at \in Nat /\ renewal[r].at <= now /\ now <= renewal[r].at + RenewalLasts
<1>1. renewal[r] \in RenewalType /\ RenewalOK(r) /\ drawn \subseteq Kid
  BY DEF KeysOK
<1>2. /\ renewal[r].kid \in drawn \ wiped /\ \A k \in keys : k.kid # renewal[r].kid
      /\ renewal[r].at <= now /\ now <= renewal[r].at + RenewalLasts
  BY <1>1 DEF RenewalOK
<1>3. renewal[r].at \in Nat /\ renewal[r].notAfter \in Nat /\ renewal[r].kid \in Kid
  BY <1>1, <1>2 DEF RenewalType
<1> QED BY <1>2, <1>3 DEF NextKey, Key

\* A renewal r installs its key, and perhaps the keys change in other ways that leave
\* their ids alone.
LEMMA InstallKeys ==
    ASSUME KeysOK, now \in Nat, now' = now, NEW r \in Renewal, renewal[r].pc # "idle", ~dead,
           NEW ks \in SUBSET Key, keys' = ks,
           \A k \in ks : k = NextKey(r) \/ \E j \in keys : k.kid = j.kid,
           RenewalTo(r, NoRenewal), UNCHANGED <<dead, wiped, drawn>>
    PROVE  KeysOK'
<1>1. /\ NextKey(r).kid = renewal[r].kid /\ renewal[r].kid \in drawn \ wiped
  BY NextKeyFacts
<1>2. renewal \in [Renewal -> RenewalType] /\ renewal' = [renewal EXCEPT ![r] = NoRenewal]
  BY DEF KeysOK, RenewalTo
<1>3. renewal' \in [Renewal -> RenewalType]
  BY <1>2, NoRenewalType
<1>4. \A k \in ks : k.kid \in drawn \ wiped
  BY <1>1 DEF KeysOK
<1>5. ASSUME NEW s \in Renewal
      PROVE  RenewalOK(s)'
  <2>1. CASE s = r
    BY <1>2, <2>1, NoRenewalType DEF RenewalOK
  <2>2. CASE s # r
    <3>1. renewal'[s] = renewal[s] /\ RenewalOK(s)
      BY <1>2, <2>2 DEF KeysOK
    <3>2. \A u \in Renewal : renewal'[u].pc # "idle" => renewal'[u] = renewal[u]
      BY <1>2, NoRenewalType
    <3>3. renewal[s].pc # "idle" => \A k \in ks : k.kid # renewal[s].kid
      BY <1>1, <2>2, <3>1 DEF RenewalOK
    <3> QED BY <3>1, <3>2, <3>3 DEF RenewalOK
  <2> QED BY <2>1, <2>2
<1> QED BY <1>3, <1>4, <1>5 DEF KeysOK

\* The first key of a tenant is stored.
LEMMA InsertKeys ==
    ASSUME KeysOK, now \in Nat, now' = now, NEW r \in Renewal, renewal[r].pc # "idle",
           Insert(r)
    PROVE  KeysOK' /\ Evolves
<1> DEFINE next == NextKey(r)
           ks == keys \cup {next}
<1>1. /\ ~dead /\ Record(ks) /\ keys' = ks /\ RenewalTo(r, NoRenewal)
      /\ UNCHANGED <<dead, wiped, drawn>>
  BY DEF Insert, Record
<1>2. next \in Key /\ next.stored = now
  BY NextKeyFacts
<1> HIDE DEF next
<1>3. ks \in SUBSET Key
  BY <1>2, KeyFacts
<1>4. \A k \in ks : k = next \/ \E j \in keys : k.kid = j.kid
  BY SMTT(30)
<1>5. KeysOK'
  BY <1>1, <1>3, <1>4, InstallKeys DEF next
<1>6. Follows(ks)
  BY <1>2 DEF Follows
<1> QED BY <1>1, <1>3, <1>5, <1>6 DEF Evolves

\* A retired key verifies for as long as what may still be signed with it.
LEMMA RetireFacts ==
    ASSUME KeysOK, now \in Nat, NEW prev \in keys, NEW at \in Nat, now <= at + RenewalLasts,
           ~prev.retired
    PROVE  LET k == Retire(prev, at + Overlap)
           IN  /\ k \in Key /\ k.kid = prev.kid /\ k.retired
               /\ Succeeds(k, prev, now + PollBound + RecheckEvery)
<1> DEFINE until == at + Overlap
           end == IF prev.notAfter = Never \/ prev.notAfter > until THEN until ELSE prev.notAfter
           k == [prev EXCEPT !.retired = TRUE, !.notAfter = end]
<1>1. /\ prev \in Key /\ prev.notAfter \in Nat /\ PollBound \in Nat /\ RecheckEvery \in Nat
      /\ RenewalLasts \in Nat /\ Overlap \in Nat /\ Overlap >= PollBound + RecheckEvery + RenewalLasts
      /\ PollBound > 0
  BY KeyFacts
<1>2. /\ end \in Nat /\ end # Never
      /\ end = prev.notAfter \/ end >= now + PollBound + RecheckEvery
  BY <1>1, SMTT(30) DEF Never
<1>3. Retire(prev, at + Overlap) = k
  BY DEF Retire
<1> HIDE DEF end
<1>4. k \in Key /\ k.kid = prev.kid /\ k.stored = prev.stored /\ k.retired /\ k.notAfter = end
  BY <1>1, <1>2 DEF Key
<1> HIDE DEF k
<1>5. Succeeds(k, prev, now + PollBound + RecheckEvery)
  BY <1>2, <1>4 DEF Succeeds
<1> QED BY <1>3, <1>4, <1>5

\* A rotation stores the next key and retires the others.
LEMMA RotateKeys ==
    ASSUME KeysOK, now \in Nat, now' = now, NEW r \in Renewal, RotateKey(r)
    PROVE  KeysOK' /\ Evolves
<1>1. renewal[r].pc # "idle" /\ ~dead /\ RenewalTo(r, NoRenewal) /\ UNCHANGED <<dead, wiped, drawn>>
  BY DEF RotateKey
<1>2. PICK prev \in SignerAt(keys, now) :
        Record((keys \ {prev}) \cup {Retire(prev, renewal[r].at + Overlap), NextKey(r)})
  BY DEF RotateKey
<1> DEFINE next == NextKey(r)
           old == Retire(prev, renewal[r].at + Overlap)
           ks == (keys \ {prev}) \cup {old, next}
<1>3. prev \in keys /\ ~prev.retired
  BY DEF SignerAt, IsActive
<1>4. /\ next \in Key /\ next.stored = now
      /\ renewal[r].at \in Nat /\ now <= renewal[r].at + RenewalLasts
  BY <1>1, NextKeyFacts
<1>5. /\ old \in Key /\ old.kid = prev.kid /\ old.retired
      /\ Succeeds(old, prev, now + PollBound + RecheckEvery)
  BY <1>3, <1>4, RetireFacts
<1>6. Record(ks) /\ keys' = ks
  BY <1>2 DEF Record
<1> HIDE DEF next, old
<1>7. ks \in SUBSET Key
  BY <1>4, <1>5, KeyFacts
<1>8. \A k \in ks : k = next \/ \E j \in keys : k.kid = j.kid
  BY <1>3, <1>5
<1>9. KeysOK'
  BY <1>1, <1>6, <1>7, <1>8, InstallKeys DEF next
<1>10. Follows(ks)
  BY <1>4, <1>5 DEF Follows
<1> QED BY <1>1, <1>6, <1>7, <1>9, <1>10 DEF Evolves

\* RevokeAll and Tombstone.
LEMMA WipeKeys ==
    ASSUME KeysOK, now' = now, Wipe, dead' \in BOOLEAN, UNCHANGED <<renewal, drawn>>
    PROVE  KeysOK' /\ Evolves
<1>1. keys' = {} /\ Record({}) /\ wiped' = wiped \cup {k.kid : k \in keys}
  BY DEF Wipe, Record
<1>2. wiped' \subseteq drawn
  BY <1>1 DEF KeysOK
<1>3. ASSUME NEW s \in Renewal
      PROVE  RenewalOK(s)'
  <2>1. RenewalOK(s)
    BY DEF KeysOK
  <2>2. renewal[s].pc # "idle" => renewal[s].kid \notin wiped'
    BY <1>1, <2>1 DEF RenewalOK
  <2> QED BY <1>1, <2>1, <2>2 DEF RenewalOK
<1>4. KeysOK'
  BY <1>1, <1>2, <1>3 DEF KeysOK
<1>5. Follows({})
  BY <1>1 DEF Follows
<1> QED BY <1>1, <1>4, <1>5 DEF Evolves

\* The reaper removes expired keys.
LEMMA ReapKeys ==
    ASSUME KeysOK, now' = now, ReapExpiredKeys
    PROVE  KeysOK' /\ Evolves
<1> DEFINE ks == {k \in keys : Verifies(k, now)}
<1>1. keys' = ks /\ Record(ks) /\ UNCHANGED <<dead, renewal, wiped, drawn>>
  BY DEF ReapExpiredKeys, Record
<1>2. ASSUME NEW s \in Renewal
      PROVE  RenewalOK(s)'
  <2>1. RenewalOK(s)
    BY DEF KeysOK
  <2> QED BY <1>1, <2>1 DEF RenewalOK
<1>3. KeysOK'
  BY <1>1, <1>2 DEF KeysOK
<1>4. Follows(ks)
  BY DEF Follows
<1>5. ks \in SUBSET Key
  BY KeyFacts
<1> QED BY <1>1, <1>3, <1>4, <1>5 DEF Evolves

\* Every step of the keys keeps their invariant.
LEMMA KeyStepInv ==
    ASSUME KeysOK, now \in Nat, now' = now, KeyStep
    PROVE  KeysOK' /\ Evolves
<1>1. CASE RevokeTenantKeys
  <2>1. dead \in BOOLEAN
    BY DEF KeysOK
  <2> QED BY <1>1, <2>1, WipeKeys DEF RevokeTenantKeys
<1>2. CASE Tombstone
  BY <1>2, WipeKeys DEF Tombstone
<1>3. CASE ReapExpiredKeys
  BY <1>3, ReapKeys
<1>4. ASSUME NEW r \in Renewal, RenewalStep(r)
      PROVE  KeysOK' /\ Evolves
  <2>1. CASE PutKey(r) \/ CreateTenant(r)
    BY <2>1, InsertKeys DEF PutKey, CreateTenant
  <2> QED BY <1>4, <2>1, BeginKeys, ReadKeys, RotateKeys DEF RenewalStep
<1> QED BY <1>1, <1>2, <1>3, <1>4 DEF KeyStep

\* A key that joins the keyset leaves a signer: the newest active key, or the new one.
LEMMA SignerJoined ==
    ASSUME KeysOK, NEW next \in Key, \A k \in keys : k.kid # next.kid,
           NEW s \in SignerAt(keys, now)
    PROVE  SignerAt(keys \cup {next}, now) # {}
<1>1. /\ s \in keys /\ IsActive(s, now)
      /\ \A j \in keys \ {s} : IsActive(j, now) => Newer(s, j)
  BY DEF SignerAt
<1>2. \A k \in keys \cup {next} : k.kid \in Nat /\ k.created \in Nat
  BY KeyFacts
<1>3. CASE IsActive(next, now) /\ Newer(next, s)
  <2>1. ASSUME NEW j \in keys, IsActive(j, now)
        PROVE  Newer(next, j)
    <3>1. j = s \/ Newer(s, j)
      BY <1>1, <2>1
    <3> QED BY <1>1, <1>2, <1>3, <3>1, SMTT(30) DEF Newer
  <2>2. next \in SignerAt(keys \cup {next}, now)
    BY <1>3, <2>1 DEF SignerAt
  <2> QED BY <2>2
<1>4. CASE ~IsActive(next, now) \/ Newer(s, next)
  <2>1. s \in SignerAt(keys \cup {next}, now)
    BY <1>1, <1>4 DEF SignerAt
  <2> QED BY <2>1
<1>5. Newer(next, s) \/ Newer(s, next)
  BY <1>1, <1>2, SMTT(30) DEF Newer
<1> QED BY <1>3, <1>4, <1>5

\* No step but a revocation takes the tenant's signer away.
LEMMA SignerStep ==
    ASSUME KeysOK, now \in Nat, now' = now, KeyStep, keys' # keys, wiped' = wiped,
           NEW s \in SignerAt(keys, now)
    PROVE  SignerAt(keys', now) # {}
<1>1. /\ s \in keys /\ IsActive(s, now)
      /\ \A j \in keys \ {s} : IsActive(j, now) => Newer(s, j)
  BY DEF SignerAt
<1>2. CASE RevokeTenantKeys \/ Tombstone
  <2>1. s.kid \in wiped' /\ s.kid \notin wiped
    BY <1>1, <1>2 DEF RevokeTenantKeys, Tombstone, Wipe, KeysOK
  <2> QED BY <2>1
<1>3. CASE ReapExpiredKeys
  <2>1. keys' = {k \in keys : Verifies(k, now)}
    BY <1>3 DEF ReapExpiredKeys, Record
  <2>2. Verifies(s, now)
    BY <1>1 DEF IsActive, Verifies
  <2>3. s \in SignerAt(keys', now)
    BY <1>1, <2>1, <2>2 DEF SignerAt
  <2> QED BY <2>3
<1>4. ASSUME NEW r \in Renewal, RenewalStep(r)
      PROVE  SignerAt(keys', now) # {}
  <2>1. CASE PutKey(r) \/ CreateTenant(r)
    <3> DEFINE next == NextKey(r)
    <3>1. keys' = keys \cup {next} /\ renewal[r].pc # "idle"
      BY <2>1 DEF PutKey, CreateTenant, Insert, Record
    <3>2. next \in Key /\ \A k \in keys : k.kid # next.kid
      BY <3>1, NextKeyFacts
    <3> HIDE DEF next
    <3> QED BY <3>1, <3>2, SignerJoined
  <2>2. CASE RotateKey(r)
    <3>1. PICK prev \in SignerAt(keys, now) :
            /\ BecomesSigner(NextKey(r), prev)
            /\ keys' = (keys \ {prev}) \cup {Retire(prev, renewal[r].at + Overlap), NextKey(r)}
      BY <2>2 DEF RotateKey, Record
    <3> DEFINE next == NextKey(r)
               old == Retire(prev, renewal[r].at + Overlap)
    <3>2. renewal[r].pc # "idle"
      BY <2>2 DEF RotateKey
    <3>3. /\ prev \in keys /\ ~prev.retired /\ renewal[r].at \in Nat /\ now <= renewal[r].at + RenewalLasts
      BY <3>2, NextKeyFacts DEF SignerAt, IsActive
    <3>4. ~IsActive(old, now)
      BY <3>3, RetireFacts DEF IsActive
    <3>5. /\ keys' = (keys \ {prev}) \cup {old, next} /\ IsActive(next, now)
          /\ \A k \in keys \ {prev} : IsActive(k, now) => Newer(next, k)
      BY <3>1 DEF BecomesSigner
    <3> HIDE DEF old, next
    <3>6. next \in SignerAt(keys', now)
      BY <3>4, <3>5 DEF SignerAt
    <3> QED BY <3>6
  <2>3. CASE Begin(r) \/ ReadActive(r) \/ TenantExists(r) \/ Refuse(r)
    BY <2>3 DEF Begin, ReadActive, TenantExists, Refuse
  <2> QED BY <1>4, <2>1, <2>2, <2>3 DEF RenewalStep
<1> QED BY <1>2, <1>3, <1>4 DEF KeyStep

\* Time passes for what was signed with k.
LEMMA ServedLater ==
    ASSUME now \in Nat, now' = now + 1, past' \subseteq past, UNCHANGED <<keys, wiped>>,
           NEW k \in Key, NEW t, Served(k, t)
    PROVE  Served(k, t)'
<1>1. k.notAfter \in Nat
  BY DEF Key
<1>2. IsExpired(k, now) => IsExpired(k, now)'
  BY <1>1, SMTT(30) DEF IsExpired
<1>3. CASE k.kid \in wiped \/ IsExpired(k, now)
  BY <1>2, <1>3 DEF Served
<1>4. CASE /\ Kept(keys, k, t)
           /\ \A v \in past : Kept(v.keys, k, t) \/ v.until <= k.stored + PollBound
  BY <1>4 DEF Served, Kept, Succeeds
<1> QED BY <1>3, <1>4 DEF Served

\* Time passes for the keys.
LEMMA AgeKeys ==
    ASSUME KeysOK, ViewsOK(RecheckEvery), now \in Nat, now' = now + 1, Age
    PROVE  KeysOK' /\ ViewsOK(RecheckEvery)'
<1>1. /\ past' = {v \in past : now' < v.until} /\ UNCHANGED <<keys, dead, renewal, wiped, drawn>>
      /\ \A r \in Renewal : renewal[r].pc # "idle" => now < renewal[r].at + RenewalLasts
  BY DEF Age
<1>2. ASSUME NEW r \in Renewal
      PROVE  RenewalOK(r)'
  <2>1. RenewalOK(r) /\ renewal[r] \in RenewalType
    BY DEF KeysOK
  <2>2. renewal[r].at \in Nat /\ RenewalLasts \in Nat
    BY <2>1, KeyFacts DEF RenewalType
  <2> QED BY <1>1, <2>1, <2>2, SMTT(30) DEF RenewalOK
<1>3. KeysOK'
  BY <1>1, <1>2 DEF KeysOK
<1>4. PollBound \in Nat /\ RecheckEvery \in Nat
  BY KeyFacts
<1>5. ASSUME NEW v \in past'
      PROVE  /\ v \in past /\ v.keys \subseteq Key /\ v.until \in Nat
             /\ now' < v.until /\ v.until <= now' + PollBound
  BY <1>1, <1>4, <1>5, SMTT(30) DEF ViewsOK
<1>6. ASSUME NEW w \in past', NEW k \in w.keys, ~k.retired
      PROVE  Served(k, w.until + RecheckEvery)'
  <2> DEFINE t == w.until + RecheckEvery
  <2>1. k \in Key /\ Served(k, t)
    BY <1>5, <1>6 DEF ViewsOK
  <2>2. past' \subseteq past /\ UNCHANGED <<keys, wiped>>
    BY <1>1
  <2> HIDE DEF t
  <2>3. Served(k, t)'
    BY <2>1, <2>2, ServedLater
  <2> QED BY <2>3 DEF t
<1>7. \A v \in past', k \in keys' : ~k.retired => k \in v.keys \/ v.until <= k.stored + PollBound
  BY <1>1 DEF ViewsOK
<1>8. ViewsOK(RecheckEvery)'
  BY <1>5, <1>6, <1>7 DEF ViewsOK
<1> QED BY <1>3, <1>8

\* What is signed with a key of the current keyset that is not retired.
LEMMA CurrentServed ==
    ASSUME KeysOK, ViewsOK(RecheckEvery), NEW k \in keys, ~k.retired, NEW t
    PROVE  Served(k, t)
<1>1. Succeeds(k, k, t)
  BY DEF Succeeds
<1>2. \A v \in past : k \in v.keys \/ v.until <= k.stored + PollBound
  BY DEF ViewsOK
<1> QED BY <1>1, <1>2 DEF Served, Kept

\* An instance signs with a key of a keyset that it may still use.
LEMMA SignersServed ==
    ASSUME KeysOK, ViewsOK(RecheckEvery), now \in Nat, NEW k \in Signers,
           NEW t \in Nat, t <= now + RecheckEvery
    PROVE  k \in Key /\ ~k.retired /\ Served(k, t)
<1>1. PICK v \in View : k \in SignerAt(v, now)
  BY DEF Signers
<1>2. k \in v /\ ~k.retired
  BY <1>1 DEF SignerAt, IsActive
<1>3. CASE v = keys
  BY <1>2, <1>3, CurrentServed, KeyFacts
<1>4. CASE \E w \in past : v = w.keys
  <2>1. PICK w \in past : v = w.keys
    BY <1>4
  <2>2. k \in Key /\ w.until \in Nat /\ now < w.until /\ Served(k, w.until + RecheckEvery)
    BY <1>2, <2>1 DEF ViewsOK
  <2> DEFINE u == w.until + RecheckEvery
  <2>3. u \in Nat /\ t <= u /\ Served(k, u)
    BY <2>2, KeyFacts, SMTT(30)
  <2> HIDE DEF u
  <2>4. ASSUME NEW ks \in SUBSET Key, Kept(ks, k, u)
        PROVE  Kept(ks, k, t)
    <3>1. PICK j \in ks : Succeeds(j, k, u)
      BY <2>4 DEF Kept
    <3>2. j.notAfter \in Nat
      BY KeyFacts
    <3>3. Succeeds(j, k, t)
      BY <2>3, <3>1, <3>2, SMTT(30) DEF Succeeds
    <3> QED BY <3>3 DEF Kept
  <2>5. keys \in SUBSET Key /\ \A x \in past : x.keys \in SUBSET Key
    BY KeyFacts DEF ViewsOK
  <2>6. Served(k, t)
    BY <2>3, <2>4, <2>5 DEF Served
  <2> QED BY <1>2, <2>2, <2>6
<1> QED BY <1>1, <1>3, <1>4 DEF View

-----------------------------------------------------------------------------
\* Families, tokens and requests.

\* An access token during a change of the account, at the instant t.
LEMMA AccessKept ==
    ASSUME NEW a, a.exp \in Nat, NEW t \in Nat, NEW a1 \in AccountType, NEW a2 \in AccountType,
           NEW n1 \in [Factor -> Nat], NEW n2 \in [Factor -> Nat], NEW l1, NEW l2,
           scene.lasts \in Nat, Moved(t, a1, n1, l1, a2, n2, l2), NEW multi,
           TimelyAccess(a, multi, t, a1, n1)
    PROVE  TimelyAccess(a, multi, t, a2, n2)
<1>1. a.exp \in Nat /\ a1.must \in Nat /\ a2.must \in Nat /\ RecheckEvery \in Nat
  BY TimeAssumption DEF AccountType
<1>2. t < a.exp /\ a.exp <= t + RecheckEvery
  BY DEF TimelyAccess
<1>3. ~a.resource /\ ~a.must /\ a2.must # 0 => a.exp <= a2.must + scene.lasts + RecheckEvery
  <2>1. a2.must \in {a1.must, 0, t}
    BY DEF Moved
  <2> QED BY <1>1, <1>2, <2>1, SMTT(30) DEF TimelyAccess
<1>4. ASSUME NEW g \in Factor
      PROVE  ~a.resource /\ ~multi /\ n2[g] # 0 => a.exp <= n2[g] + scene.lasts + RecheckEvery
  <2>1. n1[g] \in Nat /\ n2[g] \in {n1[g], 0, t}
    BY DEF Moved
  <2>2. ~a.resource /\ ~multi /\ n1[g] # 0 => a.exp <= n1[g] + scene.lasts + RecheckEvery
    BY DEF TimelyAccess
  <2> QED BY <1>1, <1>2, <2>1, <2>2, SMTT(30)
<1> QED BY <1>2, <1>3, <1>4 DEF TimelyAccess

\* The families of the next state: the ones that were there, some of them revoked now,
\* and perhaps more.
Succeed(families, lineages, acc, lefts) ==
    /\ families \in Seq(Family)
    /\ DOMAIN fams \subseteq DOMAIN families
    /\ \A f \in DOMAIN families :
         IF f \in DOMAIN fams
         THEN /\ families[f].lineage = fams[f].lineage /\ families[f].epoch = fams[f].epoch
              /\ families[f].multi = fams[f].multi
              /\ families[f].revoked \in {fams[f].revoked, now}
         ELSE FamilyOK(families[f], lineages, acc, lefts)

\* A step at one instant: the account may change, families are added or revoked, and
\* requests go on or are sound as they are.
AtOnce ==
    /\ now' = now /\ scene' = scene
    /\ Moved(now, account, enrolled, left, account', enrolled', left')
    /\ Len(admitted) <= Len(admitted') /\ Succeed(fams', Len(admitted'), account', left')
    /\ TokensOK(tokens', DOMAIN fams')
    /\ \A q \in Request : GoesOn(req[q], req'[q]) \/ RequestOK(req'[q], fams', Len(admitted'))
    /\ \A a \in access' : a \in access \/ AccessOK(a, fams', now, account', enrolled')

\* What is numbered up to m is numbered up to any later n.
LEMMA UpToGrows ==
    ASSUME NEW m \in Nat, NEW n \in Nat, m <= n, NEW x \in 1 .. m
    PROVE  x \in 1 .. n
BY SMTT(30)

\* Such a step keeps SessionInv.
LEMMA SessionStep ==
    ASSUME SessionInv, RequestInv, RequestInv', AtOnce
    PROVE  SessionInv'
<1>0. /\ now' = now /\ scene' = scene /\ Len(admitted) <= Len(admitted')
      /\ Moved(now, account, enrolled, left, account', enrolled', left')
      /\ Succeed(fams', Len(admitted'), account', left') /\ TokensOK(tokens', DOMAIN fams')
  BY DEF AtOnce
<1>1. /\ account \in AccountType /\ account' \in AccountType
      /\ enrolled \in [Factor -> Nat] /\ enrolled' \in [Factor -> Nat]
      /\ left \in [Epoch -> Nat] /\ left' \in [Epoch -> Nat]
      /\ now \in Nat /\ scene.lasts \in Nat /\ \A e \in Epoch : left[e] <= now
      /\ account.epoch \in Epoch /\ account.epoch \in Nat
  BY AccountTimes DEF RequestInv, StateType, AccountType
<1>2. /\ fams \in Seq(Family) /\ fams' \in Seq(Family) /\ DOMAIN fams \subseteq DOMAIN fams'
      /\ Len(admitted) \in Nat /\ Len(admitted') \in Nat /\ PollBound \in Nat /\ PollBound > 0
  <2>1. StateType /\ StateType'
    BY DEF RequestInv
  <2>2. Len(admitted) \in Nat /\ Len(admitted') \in Nat
    <3>1. admitted \in Seq([at : Nat, epoch : Nat]) /\ admitted' \in Seq([at : Nat, epoch : Nat])
      BY <2>1 DEF StateType
    <3> QED BY <3>1, SMTT(30)
  <2>3. fams \in Seq(Family) /\ fams' \in Seq(Family) /\ DOMAIN fams \subseteq DOMAIN fams'
    BY <1>0 DEF SessionInv, Succeed
  <2> QED BY <2>2, <2>3, TimeAssumption, SMTT(30)
<1>3. account'.epoch \in {account.epoch, account.epoch + 1}
  BY <1>0 DEF Moved
<1>4. ASSUME NEW f \in DOMAIN fams'
      PROVE  FamilyOK(fams'[f], Len(admitted'), account', left')
  <2>1. CASE f \in DOMAIN fams
    <3>1. /\ FamilyOK(fams[f], Len(admitted), account, left)
          /\ fams'[f].lineage = fams[f].lineage /\ fams'[f].epoch = fams[f].epoch
      BY <1>0, <2>1 DEF SessionInv, Succeed
    <3> DEFINE e == fams[f].epoch
    <3>2. e \in 1 .. account.epoch /\ Suspended(e, account, left)
      BY <3>1 DEF FamilyOK
    <3> HIDE DEF e
    <3>3. e \in Epoch /\ e <= account.epoch
      <4>1. account.epoch \in 1 .. MaxEpoch /\ MaxEpoch \in Nat
        BY <1>1, TimeAssumption DEF Epoch
      <4> QED BY <3>2, <4>1, SMTT(30) DEF Epoch
    <3>4. Suspended(e, account', left')
      BY <1>0, <1>1, <3>2, <3>3, SuspendedKept
    <3>5. e \in 1 .. account'.epoch
      <4>1. account.epoch + 1 \in Nat /\ account.epoch <= account.epoch + 1
            /\ account.epoch <= account.epoch
        BY <1>1, SMTT(30)
      <4> QED BY <1>1, <1>3, <3>2, <4>1, UpToGrows
    <3>6. fams[f].lineage \in 1 .. Len(admitted')
      BY <1>0, <1>2, <3>1, UpToGrows DEF FamilyOK
    <3> QED BY <3>1, <3>4, <3>5, <3>6 DEF FamilyOK, e
  <2>2. CASE f \notin DOMAIN fams
    BY <1>0, <2>2 DEF Succeed
  <2> QED BY <2>1, <2>2
<1>5. ASSUME NEW q \in Request
      PROVE  RequestOK(req'[q], fams', Len(admitted'))
  <2>1. CASE GoesOn(req[q], req'[q]) /\ req'[q].op # "login"
    <3> DEFINE r == req[q]
    <3>1. /\ r.op # "login" /\ req'[q].id = r.id /\ req'[q].at = r.at
          /\ req'[q].attrs.lineage = r.attrs.lineage
          /\ req'[q].op = "resume" => r.op = "resume" /\ req'[q].attrs.multi = r.attrs.multi
      BY <2>1 DEF GoesOn
    <3>2. RequestOK(r, fams, Len(admitted)) /\ r.at \in Nat /\ r.at <= now
      BY RequestTimes DEF SessionInv
    <3>3. /\ r.id \in DOMAIN fams /\ r.attrs.lineage \in 1 .. Len(admitted)
          /\ r.op = "resume" => r.attrs.multi = fams[r.id].multi
          /\ fams[r.id].revoked = 0 \/ r.at < fams[r.id].revoked + PollBound
      BY <3>1, <3>2 DEF RequestOK
    <3>4. /\ r.id \in DOMAIN fams' /\ fams'[r.id].revoked \in {fams[r.id].revoked, now}
          /\ fams'[r.id].multi = fams[r.id].multi
      BY <1>0, <1>2, <3>3 DEF Succeed
    <3>5. fams'[r.id].revoked = 0 \/ r.at < fams'[r.id].revoked + PollBound
      <4>1. now \in Nat /\ PollBound \in Nat /\ PollBound > 0 /\ r.at \in Nat /\ r.at <= now
        BY <1>1, <1>2, <3>2
      <4>2. fams'[r.id].revoked = fams[r.id].revoked \/ fams'[r.id].revoked = now
        BY <3>4
      <4> HIDE DEF r
      <4> QED BY <3>3, <4>1, <4>2, SMTT(30)
    <3>6. r.attrs.lineage \in 1 .. Len(admitted')
      BY <1>0, <1>2, <3>3, UpToGrows, ZenonT(40)
    <3> QED BY <3>1, <3>3, <3>4, <3>5, <3>6 DEF RequestOK
  <2>2. CASE req'[q].op = "login"
    BY <2>2 DEF RequestOK
  <2>3. GoesOn(req[q], req'[q]) \/ RequestOK(req'[q], fams', Len(admitted'))
    BY DEF AtOnce
  <2> QED BY <2>1, <2>2, <2>3
<1>6. ASSUME NEW a \in access'
      PROVE  AccessOK(a, fams', now, account', enrolled')
  <2>1. CASE a \in access
    <3> DEFINE m == fams[a.family].multi
    <3>1. /\ a.must \in BOOLEAN /\ a.exp \in Nat /\ a.family \in DOMAIN fams
          /\ TimelyAccess(a, m, now, account, enrolled)
      BY <2>1 DEF SessionInv, AccessOK
    <3>2. a.family \in DOMAIN fams' /\ fams'[a.family].multi = m
      BY <1>0, <1>2, <3>1 DEF Succeed
    <3> HIDE DEF m
    <3>3. TimelyAccess(a, m, now, account', enrolled')
      BY <1>0, <1>1, <3>1, AccessKept
    <3> QED BY <3>1, <3>2, <3>3 DEF AccessOK
  <2>2. a \in access \/ AccessOK(a, fams', now, account', enrolled')
    BY <1>6 DEF AtOnce
  <2> QED BY <2>1, <2>2
<1>7. \A f \in DOMAIN fams' : FamilyOK(fams[f], Len(admitted), account, left)'
  BY <1>4 DEF FamilyOK, Suspended
<1>8. \A q \in Request : RequestOK(req[q], fams, Len(admitted))'
  BY <1>5 DEF RequestOK
<1>9. \A a \in access' : AccessOK(a, fams, now, account, enrolled)'
  BY <1>0, <1>6 DEF AccessOK, TimelyAccess
<1>10. TokensOK(tokens, DOMAIN fams)'
  BY <1>0 DEF TokensOK
<1> QED BY <1>2, <1>7, <1>8, <1>9, <1>10 DEF SessionInv

\* Revoked families succeed the ones there were.
LEMMA RevokeFacts ==
    ASSUME fams \in Seq(Family), now \in Nat, NEW F, NEW n, NEW acc, NEW lefts
    PROVE  /\ RevokeFamilies(F) \in Seq(Family) /\ Len(RevokeFamilies(F)) = Len(fams)
           /\ Succeed(RevokeFamilies(F), n, acc, lefts)
<1> DEFINE g == RevokeFamilies(F)
<1>1. DOMAIN fams = 1 .. Len(fams) /\ Len(fams) \in Nat
  BY SMTT(30)
<1>2. /\ g = [f \in 1 .. Len(fams) |-> g[f]] /\ DOMAIN g = 1 .. Len(fams)
      /\ \A f \in 1 .. Len(fams) : g[f] = fams[f] \/ g[f] = [fams[f] EXCEPT !.revoked = now]
  BY <1>1 DEF RevokeFamilies
<1>3. ASSUME NEW f \in 1 .. Len(fams)
      PROVE  /\ g[f] \in Family
             /\ g[f].lineage = fams[f].lineage /\ g[f].epoch = fams[f].epoch
             /\ g[f].multi = fams[f].multi /\ g[f].revoked \in {fams[f].revoked, now}
  <2>1. fams[f] \in Family
    BY <1>1, SMTT(30)
  <2> QED BY <1>2, <2>1 DEF Family
<1> HIDE DEF g
<1>4. g \in Seq(Family) /\ Len(g) = Len(fams)
  <2> DEFINE T == Family
  <2>1. \A f \in 1 .. Len(fams) : g[f] \in T
    BY <1>3
  <2> HIDE DEF T
  <2>2. g \in [1 .. Len(fams) -> T]
    BY <1>2, <2>1
  <2>3. g \in Seq(T) /\ Len(g) = Len(fams)
    BY <1>1, <2>2, SMTT(30)
  <2> QED BY <2>3 DEF T
<1>5. Succeed(g, n, acc, lefts)
  BY <1>1, <1>2, <1>3, <1>4 DEF Succeed
<1> QED BY <1>4, <1>5 DEF g

\* One more family, after some were revoked or none.
Holds(h, k, fam) == k \in DOMAIN h /\ h[k] = fam

\* So does a table with one more family.
LEMMA AppendFacts ==
    ASSUME fams \in Seq(Family), NEW n, NEW acc, NEW lefts, NEW g, Succeed(g, n, acc, lefts),
           Len(g) = Len(fams), NEW fam \in Family, FamilyOK(fam, n, acc, lefts),
           NEW k, k = Len(fams) + 1, NEW h, h = Append(g, fam)
    PROVE  /\ Succeed(h, n, acc, lefts)
           /\ Holds(h, k, fam)
<1> DEFINE T == Family
<1>1. g \in Seq(T) /\ fam \in T /\ fams \in Seq(T)
  BY DEF Succeed
<1> HIDE DEF T
<1>2. /\ h \in Seq(T) /\ DOMAIN h = 1 .. Len(fams) + 1 /\ DOMAIN fams = 1 .. Len(fams)
      /\ DOMAIN g = 1 .. Len(fams) /\ Len(fams) \in Nat
      /\ \A f \in 1 .. Len(fams) : h[f] = g[f]
      /\ h[Len(fams) + 1] = fam
  BY <1>1, SMTT(30)
<1>3. Succeed(h, n, acc, lefts)
  <2>1. h \in Seq(Family) /\ DOMAIN fams \subseteq DOMAIN h
    <3>1. 1 .. Len(fams) \subseteq 1 .. Len(fams) + 1
      BY <1>2, SMTT(30)
    <3> QED BY <1>2, <3>1 DEF T
  <2>2. ASSUME NEW f \in DOMAIN h
        PROVE  IF f \in DOMAIN fams
               THEN /\ h[f].lineage = fams[f].lineage /\ h[f].epoch = fams[f].epoch
                    /\ h[f].multi = fams[f].multi /\ h[f].revoked \in {fams[f].revoked, now}
               ELSE FamilyOK(h[f], n, acc, lefts)
    <3>1. CASE f \in DOMAIN fams
      BY <1>2, <3>1 DEF Succeed
    <3>2. CASE f = Len(fams) + 1
      <4>1. f \notin DOMAIN fams
        BY <1>2, <3>2, SMTT(30)
      <4> QED BY <1>2, <3>2, <4>1
    <3>3. f \in 1 .. Len(fams) \/ f = Len(fams) + 1
      BY <1>2, SMTT(30)
    <3> QED BY <1>2, <3>1, <3>2, <3>3
  <2> QED BY <2>1, <2>2 DEF Succeed
<1>4. Len(fams) + 1 \in 1 .. Len(fams) + 1
  BY <1>2, SMTT(30)
<1> QED BY <1>2, <1>3, <1>4 DEF Holds

\* What the invariants say of the families and the tokens.
LEMMA SessionFacts ==
    ASSUME SessionInv, RequestInv
    PROVE  /\ fams \in Seq(Family) /\ Len(fams) \in Nat /\ DOMAIN fams = 1 .. Len(fams)
           /\ \A f \in DOMAIN fams :
                /\ fams[f] \in Family /\ fams[f].lineage \in Nat /\ fams[f].epoch \in Nat
                /\ fams[f].multi \in BOOLEAN /\ fams[f].revoked \in Nat
                /\ fams[f].lineage \in 1 .. Len(admitted) /\ fams[f].epoch \in 1 .. account.epoch
                /\ Suspended(fams[f].epoch, account, left)
                /\ FamilyEnd(f) \in Nat
           /\ \A i \in DOMAIN tokens : /\ i \in Nat /\ tokens[i] \in Refresh
                                       /\ tokens[i].family \in DOMAIN fams
                                       /\ tokens[i].must \in BOOLEAN
           /\ Len(admitted) \in Nat /\ \A l \in 1 .. Len(admitted) : End(l) \in Nat
<1>1. fams \in Seq(Family) /\ \A f \in DOMAIN fams : FamilyOK(fams[f], Len(admitted), account, left)
  BY DEF SessionInv
<1>2. Len(fams) \in Nat /\ DOMAIN fams = 1 .. Len(fams) /\ \A f \in DOMAIN fams : fams[f] \in Family
  BY <1>1, SMTT(30)
<1>3. Len(admitted) \in Nat /\ \A l \in 1 .. Len(admitted) : End(l) \in Nat
  <2>1. admitted \in Seq([at : Nat, epoch : Nat])
    BY DEF RequestInv, StateType
  <2> DEFINE T == [at : Nat, epoch : Nat]
  <2>2. admitted \in Seq(T)
    BY <2>1
  <2>3. \A x \in T : x.at \in Nat
    BY SMTT(30)
  <2> HIDE DEF T
  <2>4. Len(admitted) \in Nat /\ \A l \in 1 .. Len(admitted) : admitted[l] \in T
    BY <2>2, SMTT(30)
  <2> QED BY <2>3, <2>4, TimeAssumption, SMTT(30) DEF End
<1>4. ASSUME NEW f \in DOMAIN fams
      PROVE  /\ fams[f].lineage \in Nat /\ fams[f].epoch \in Nat
             /\ fams[f].multi \in BOOLEAN /\ fams[f].revoked \in Nat
             /\ fams[f].lineage \in 1 .. Len(admitted) /\ fams[f].epoch \in 1 .. account.epoch
             /\ Suspended(fams[f].epoch, account, left) /\ FamilyEnd(f) \in Nat
  BY <1>1, <1>2, <1>3 DEF Family, FamilyOK, FamilyEnd
<1>5. ASSUME NEW i \in DOMAIN tokens
      PROVE  /\ i \in Nat /\ tokens[i] \in Refresh /\ tokens[i].family \in DOMAIN fams
             /\ tokens[i].must \in BOOLEAN
  <2>1. i \in Nat /\ tokens[i] \in Refresh /\ tokens[i].family \in DOMAIN fams
    BY DEF SessionInv, TokensOK
  <2> QED BY <2>1 DEF Refresh
<1> QED BY <1>1, <1>2, <1>3, <1>4, <1>5

\* A step that revokes families and takes tokens away, of a request that ends with it
\* or of none.
LEMMA EndingStep ==
    ASSUME SessionInv, RequestInv,
           UNCHANGED <<scene, now, accountVars, admitted, issued, access>>,
           fams' = fams \/ \E F : fams' = RevokeFamilies(F),
           tokens' = tokens \/ \E S : tokens' = Without(S),
           req' = req \/ \E q \in Request : Goto(q, Idle)
    PROVE  SessionInv' /\ RequestInv'
<1>1. /\ scene' = scene /\ now' = now /\ account' = account /\ enrolled' = enrolled /\ kept' = kept
      /\ left' = left /\ admitted' = admitted /\ issued' = issued /\ access' = access
  BY DEF accountVars
<1>2. fams \in Seq(Family) /\ now \in Nat
  BY SessionFacts, AccountTimes
<1>3. Moved(now, account, enrolled, left, account', enrolled', left')
  BY <1>1 DEF Moved
<1>4. RequestInv'
  <2>1. CASE req' = req
    <3>1. StateType'
      BY <1>1, <2>1 DEF RequestInv, StateType
    <3> QED BY <1>1, <1>3, <2>1, <3>1, RequestsStep
  <2>2. CASE \E q \in Request : Goto(q, Idle)
    <3>1. PICK q \in Request : Goto(q, Idle)
      BY <2>2
    <3>2. Reads(q, Idle)
      BY <1>1, <3>1 DEF Reads, accountVars
    <3> QED BY <1>1, <3>2, IdleTimes, OwnRead
  <2> QED BY <2>1, <2>2
<1>5. Succeed(fams', Len(admitted'), account', left') /\ DOMAIN fams' = DOMAIN fams
  <2>1. CASE fams' = fams
    BY <1>2, <2>1 DEF Succeed
  <2>2. CASE \E F : fams' = RevokeFamilies(F)
    <3>1. DOMAIN fams' = DOMAIN fams
      BY <2>2 DEF RevokeFamilies
    <3> QED BY <1>2, <2>2, <3>1, RevokeFacts
  <2> QED BY <2>1, <2>2
<1>6. \A i \in DOMAIN tokens' : i \in DOMAIN tokens /\ tokens'[i] = tokens[i]
  BY DEF Without
<1>7. TokensOK(tokens', DOMAIN fams')
  BY <1>5, <1>6 DEF SessionInv, TokensOK
<1>8. \A p \in Request : GoesOn(req[p], req'[p])
  <2>1. Idle.op = "login" /\ req \in [Request -> RequestType]
    BY DEF Idle, RequestInv, StateType
  <2> QED BY <2>1 DEF Goto, GoesOn
<1>9. Len(admitted) <= Len(admitted')
  <2>1. Len(admitted) \in Nat /\ Len(admitted') = Len(admitted)
    BY <1>1, SessionFacts
  <2> QED BY <2>1, SMTT(30)
<1>10. AtOnce
  BY <1>1, <1>3, <1>5, <1>7, <1>8, <1>9 DEF AtOnce
<1>11. SessionInv'
  BY <1>4, <1>10, SessionStep
<1> QED BY <1>4, <1>11

\* A step of request q, which goes on as r and perhaps hands out an access token.
LEMMA OwnSession ==
    ASSUME SessionInv, RequestInv, NEW q \in Request, NEW r \in RequestType, Goto(q, r),
           UNCHANGED <<scene, now, accountVars>>,
           issued' \in Nat, admitted' \in Seq([at : Nat, epoch : Nat]), Len(admitted') <= MaxLogins,
           Len(admitted) <= Len(admitted'),
           Formed(r, account.epoch), TimelyRequest(r, now, account, enrolled, left),
           GoesOn(req[q], r) \/ RequestOK(r, fams', Len(admitted')),
           Succeed(fams', Len(admitted'), account, left),
           TokensOK(tokens', DOMAIN fams'),
           \A a \in access' :
               \/ a \in access
               \/ AccessOK(a, fams', now, account, enrolled)
    PROVE  SessionInv' /\ RequestInv'
<1>1. /\ scene' = scene /\ now' = now /\ account' = account /\ enrolled' = enrolled /\ left' = left
  BY DEF accountVars
<1>2. Moved(now, account, enrolled, left, account', enrolled', left')
  BY <1>1 DEF Moved
<1>3. RequestInv'
  BY OwnStep
<1>4. \A p \in Request : GoesOn(req[p], req'[p]) \/ RequestOK(req'[p], fams', Len(admitted'))
  <2>1. req \in [Request -> RequestType]
    BY DEF RequestInv, StateType
  <2>2. \A p \in Request : req'[p] = IF p = q THEN r ELSE req[p]
    BY <2>1 DEF Goto
  <2>3. \A p \in Request : GoesOn(req[p], req[p])
    BY DEF GoesOn
  <2> QED BY <2>2, <2>3
<1>5. \A a \in access' :
        \/ a \in access
        \/ AccessOK(a, fams', now, account', enrolled')
  BY <1>1
<1>6. Succeed(fams', Len(admitted'), account', left')
  BY <1>1
<1>7. AtOnce
  BY <1>1, <1>2, <1>4, <1>5, <1>6 DEF AtOnce
<1>8. SessionInv'
  BY <1>3, <1>7, SessionStep
<1> QED BY <1>3, <1>8

\* The same, of a request that only reads.
LEMMA OwnReading ==
    ASSUME SessionInv, RequestInv, NEW q \in Request, NEW r \in RequestType, Reads(q, r),
           UNCHANGED <<scene, fams, tokens, access>>,
           Formed(r, account.epoch), TimelyRequest(r, now, account, enrolled, left),
           RequestOK(r, fams, Len(admitted))
    PROVE  SessionInv' /\ RequestInv'
<1>1. /\ Goto(q, r) /\ UNCHANGED <<scene, now, accountVars>> /\ fams' = fams
      /\ issued' = issued /\ admitted' = admitted /\ tokens' = tokens /\ access' = access
  BY DEF Reads
<1>2. issued \in Nat /\ admitted \in Seq([at : Nat, epoch : Nat]) /\ Len(admitted) <= MaxLogins
      /\ Len(admitted) \in Nat
  BY SessionFacts DEF RequestInv, StateType
<1>3. Succeed(fams, Len(admitted), account, left)
  BY SessionFacts DEF Succeed
<1>4. TokensOK(tokens', DOMAIN fams')
  BY <1>1 DEF SessionInv
<1>5. Succeed(fams', Len(admitted'), account, left) /\ RequestOK(r, fams', Len(admitted'))
  BY <1>1, <1>3
<1> QED BY <1>1, <1>2, <1>4, <1>5, OwnSession, SMTT(30)

\* A request resumes on an access token.
LEMMA ResumeLiveInv ==
    ASSUME SessionInv, RequestInv, NEW q \in Request, ResumeLive(q), UNCHANGED scene
    PROVE  SessionInv' /\ RequestInv'
<1>1. PICK a \in access :
        /\ ~a.resource /\ Resumable(a.family, FamilyAttrs(a.family, a.must))
        /\ Reads(q, [Idle EXCEPT !.op = "resume", !.pc = "answered", !.at = now,
                         !.id = a.family, !.attrs = FamilyAttrs(a.family, a.must)])
  BY DEF ResumeLive
<1> DEFINE f == a.family
           at == FamilyAttrs(f, a.must)
           r == [Idle EXCEPT !.op = "resume", !.pc = "answered", !.at = now, !.id = f, !.attrs = at]
<1>2. /\ a.must \in BOOLEAN /\ a.exp \in Nat /\ f \in DOMAIN fams
      /\ TimelyAccess(a, fams[f].multi, now, account, enrolled)
  BY DEF SessionInv, AccessOK
<1>3. f \in Nat /\ a.must \in BOOLEAN /\ a.exp \in Nat /\ ~a.resource
  <2>1. DOMAIN fams = 1 .. Len(fams)
    BY SessionFacts
  <2>2. f \in Nat
    BY <1>2, <2>1, SMTT(30)
  <2> QED BY <1>1, <1>2, <2>2
<1>4. /\ at \in Attrs /\ at.lineage = fams[f].lineage /\ at.epoch = fams[f].epoch
      /\ at.multi = fams[f].multi /\ at.must = a.must
  BY <1>2, <1>3, SessionFacts DEF FamilyAttrs, Attrs
<1>5. CachedLive(f) /\ CheckEpoch(at.epoch)
  BY <1>1 DEF Resumable
<1>6. Reads(q, r)
  BY <1>1
<1>7. /\ fams[f].lineage \in 1 .. Len(admitted) /\ at.epoch \in 1 .. account.epoch
      /\ Suspended(at.epoch, account, left)
  BY <1>2, <1>4, SessionFacts
<1> HIDE DEF f, at
<1>8. Idle \in RequestType /\ now \in Nat /\ scene.lasts \in Nat /\ account.epoch \in Nat
      /\ account.must \in Nat /\ enrolled \in [Factor -> Nat] /\ RecheckEvery \in Nat
  BY IdleTimes, AccountTimes, TimeAssumption
<1>9. /\ r \in RequestType /\ r.op = "resume" /\ r.pc = "answered" /\ r.at = now /\ r.id = f
      /\ r.attrs = at
  BY <1>3, <1>4, <1>8 DEF RequestType, Op, Pc
<1> HIDE DEF r
<1>10. Formed(r, account.epoch)
  <2>1. at.epoch <= account.epoch /\ at.epoch >= 1
    BY <1>7, <1>8, SMTT(30)
  <2> QED BY <1>9, <2>1 DEF Formed
<1>11. TimelyFlag(r, account.must)
  <2>1. /\ now < a.exp
        /\ ~at.must /\ account.must # 0 => a.exp <= account.must + scene.lasts + RecheckEvery
    BY <1>2, <1>3, <1>4 DEF TimelyAccess
  <2>2. r.at = now /\ r.attrs.must = at.must /\ r.op = "resume" /\ r.pc = "answered"
    BY <1>9
  <2> QED BY <1>3, <1>8, <2>1, <2>2, SMTT(30) DEF TimelyFlag
<1>12. ASSUME NEW g \in Factor
       PROVE  TimelyFactor(r, g, enrolled[g])
  <2>1. enrolled[g] \in Nat
    BY <1>8
  <2> QED BY <1>2, <1>3, <1>4, <1>8, <1>9, <2>1, SMTT(30) DEF TimelyAccess, TimelyFactor
<1>13. TimelyRequest(r, now, account, enrolled, left)
  BY <1>5, <1>7, <1>8, <1>9, <1>11, <1>12, SMTT(30) DEF TimelyRequest, CheckEpoch
<1>14. RequestOK(r, fams, Len(admitted))
  BY <1>2, <1>4, <1>5, <1>7, <1>9 DEF RequestOK, CachedLive, f
<1>15. UNCHANGED <<scene, fams, tokens, access>>
  BY DEF ResumeLive
<1> QED BY <1>6, <1>9, <1>10, <1>13, <1>14, <1>15, OwnReading

\* A request presents a refresh token.
LEMMA BeginRenewInv ==
    ASSUME SessionInv, RequestInv, NEW q \in Request, BeginRenew(q), UNCHANGED scene
    PROVE  SessionInv' /\ RequestInv'
<1>1. PICK i \in DOMAIN tokens, prior \in BOOLEAN :
        LET t == tokens[i]
        IN  /\ fams[t.family].revoked = 0
            /\ Reads(q, [Idle EXCEPT !.op = "resume", !.pc = "state", !.at = now, !.id = t.family,
                             !.token = i, !.prior = prior, !.attrs = FamilyAttrs(t.family, t.must)])
  BY DEF BeginRenew
<1> DEFINE f == tokens[i].family
           at == FamilyAttrs(f, tokens[i].must)
           r == [Idle EXCEPT !.op = "resume", !.pc = "state", !.at = now, !.id = f, !.token = i,
                             !.prior = prior, !.attrs = at]
<1>2. f \in DOMAIN fams /\ tokens[i].must \in BOOLEAN /\ fams[f].revoked = 0
  BY <1>1, SessionFacts
<1>3. f \in Nat
  <2>1. DOMAIN fams = 1 .. Len(fams)
    BY SessionFacts
  <2> QED BY <1>2, <2>1, SMTT(30)
<1>4. /\ at \in Attrs /\ at.lineage = fams[f].lineage /\ at.epoch = fams[f].epoch
      /\ at.multi = fams[f].multi
  BY <1>2, SessionFacts DEF FamilyAttrs, Attrs
<1>6. Reads(q, r)
  BY <1>1
<1>7. /\ fams[f].lineage \in 1 .. Len(admitted) /\ at.epoch \in 1 .. account.epoch
      /\ Suspended(at.epoch, account, left)
  BY <1>2, <1>4, SessionFacts
<1> HIDE DEF f, at
<1>8. Idle \in RequestType /\ now \in Nat /\ scene.lasts \in Nat /\ account.epoch \in Nat
  BY IdleTimes, AccountTimes
<1>16. i \in Nat
  BY SessionFacts
<1>9. /\ r \in RequestType /\ r.op = "resume" /\ r.pc = "state" /\ r.at = now /\ r.id = f
      /\ r.attrs = at
  BY <1>3, <1>4, <1>8, <1>16 DEF RequestType, Op, Pc
<1> HIDE DEF r
<1>10. Formed(r, account.epoch)
  BY <1>7, <1>8, <1>9, SMTT(30) DEF Formed
<1>13. TimelyRequest(r, now, account, enrolled, left)
  <2>1. TimelyFlag(r, account.must) /\ \A g \in Factor : TimelyFactor(r, g, enrolled[g])
    BY <1>9 DEF TimelyFlag, TimelyFactor
  <2>2. now <= now /\ now <= now + scene.lasts
    BY <1>8, SMTT(30)
  <2> QED BY <1>7, <1>9, <2>1, <2>2 DEF TimelyRequest
<1>14. RequestOK(r, fams, Len(admitted))
  BY <1>2, <1>4, <1>7, <1>9 DEF RequestOK
<1>15. UNCHANGED <<scene, fams, tokens, access>>
  BY DEF BeginRenew
<1> QED BY <1>6, <1>9, <1>10, <1>13, <1>14, <1>15, OwnReading

\* The access token a is of family f, of the flag must, and was built at instant t.
Handed(a, f, must, t) ==
    /\ a.family = f /\ a.must = must /\ a.must \in BOOLEAN /\ a.exp \in Nat
    /\ now < a.exp /\ a.exp <= t + RecheckEvery

\* What HandOut makes.
LEMMA HandOutFacts ==
    ASSUME RequestInv, NEW table, NEW f \in Nat, NEW must \in BOOLEAN, NEW t \in Nat,
           NEW end \in Nat, t <= now, HandOut(table, f, must, t, end), NEW F, f \in F,
           TokensOK(table, F)
    PROVE  /\ issued' \in Nat
           /\ TokensOK(tokens', F)
           /\ \A a \in access' : a \in access \/ Handed(a, f, must, t)
<1> DEFINE x == NewRefresh(f, must, t, end)
<1>1. now \in Nat /\ issued \in Nat /\ RecheckEvery \in Nat /\ IdleTTL \in Nat
  BY AccountTimes, TimeAssumption DEF RequestInv, StateType
<1>2. /\ issued' = issued + 1 /\ tokens' = With(table, issued + 1, x)
      /\ \E key \in Signers :
           LET a == NewAccess(f, must, t, end, key)
           IN  access' = IF now < a.exp THEN access \cup {a} ELSE access
  BY DEF HandOut
<1>3. x \in Refresh /\ x.family = f
  <2>1. IdleUntil(t, end) \in Nat
    BY <1>1, SMTT(30) DEF IdleUntil
  <2> HIDE DEF IdleUntil
  <2> QED BY <2>1 DEF NewRefresh, Refresh
<1> HIDE DEF x
<1>4. ASSUME NEW i \in DOMAIN tokens'
      PROVE  i \in Nat /\ tokens'[i] \in Refresh /\ tokens'[i].family \in F
  <2>1. (i = issued + 1 /\ tokens'[i] = x) \/ (i \in DOMAIN table /\ tokens'[i] = table[i])
    BY <1>2 DEF With
  <2> QED BY <1>1, <1>3, <2>1, SMTT(30) DEF TokensOK
<1>5. PICK key \in Signers :
        LET a == NewAccess(f, must, t, end, key)
        IN  access' = IF now < a.exp THEN access \cup {a} ELSE access
  BY <1>2
<1> DEFINE exp == IF t + RecheckEvery > end THEN end ELSE t + RecheckEvery
           a == NewAccess(f, must, t, end, key)
<1>7. exp \in Nat /\ exp <= t + RecheckEvery
  BY <1>1, SMTT(30)
<1>8. a = [family |-> f, must |-> must, key |-> key, resource |-> FALSE, exp |-> exp]
  BY DEF NewAccess
<1> HIDE DEF exp
<1>9. a.family = f /\ a.must = must /\ a.exp = exp
  BY <1>8, SMTT(30)
<1>10. access' = IF now < a.exp THEN access \cup {a} ELSE access
  BY <1>5
<1> HIDE DEF a
<1>11. \A b \in access' : b \in access \/ (b = a /\ now < a.exp)
  BY <1>10
<1>12. now < a.exp => Handed(a, f, must, t)
  BY <1>7, <1>9 DEF Handed
<1>13. issued' \in Nat
  BY <1>1, <1>2, SMTT(30)
<1>14. TokensOK(tokens', F)
  BY <1>4 DEF TokensOK
<1> QED BY <1>11, <1>12, <1>13, <1>14

\* What holds of an access token built at instant t by request q.
LEMMA MadeTimely ==
    ASSUME RequestInv, NEW q \in Request, NEW a, NEW t \in {now, req[q].at},
           NEW multi, NEW f, NEW must, Handed(a, f, must, t), req[q].pc # "idle",
           ~must => account.must = 0 \/ req[q].at <= account.must,
           \A g \in Factor : ~multi => enrolled[g] = 0 \/ req[q].at <= enrolled[g]
    PROVE  TimelyAccess(a, multi, now, account, enrolled)
<1>0. a.exp \in Nat /\ now < a.exp /\ a.exp <= t + RecheckEvery /\ a.must = must
  BY DEF Handed
<1>1. req[q].at \in Nat /\ req[q].at <= now /\ now <= req[q].at + scene.lasts
  BY RequestTimes DEF TimelyRequest
<1>2. /\ now \in Nat /\ scene.lasts \in Nat /\ account.must \in Nat /\ RecheckEvery \in Nat
      /\ \A g \in Factor : enrolled[g] \in Nat
  BY AccountTimes, TimeAssumption
<1>3. a.exp <= now + RecheckEvery /\ a.exp <= req[q].at + scene.lasts + RecheckEvery
  BY <1>0, <1>1, <1>2, SMTT(30)
<1>4. now < a.exp /\ a.exp <= now + RecheckEvery
  BY <1>0, <1>3
<1>5. ~must /\ account.must # 0 => a.exp <= account.must + scene.lasts + RecheckEvery
  BY <1>0, <1>1, <1>2, <1>3, SMTT(30)
<1>6. ASSUME NEW g \in Factor, ~multi, enrolled[g] # 0
      PROVE  a.exp <= enrolled[g] + scene.lasts + RecheckEvery
  BY <1>0, <1>1, <1>2, <1>3, <1>6, SMTT(30)
<1> QED BY <1>0, <1>4, <1>5, <1>6 DEF TimelyAccess

===============================================================================
