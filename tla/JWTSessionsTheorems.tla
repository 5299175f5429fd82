------------------------- MODULE JWTSessionsTheorems -------------------------
(***************************************************************************)
(* What the JWT backend promises, for every number of requests, families,  *)
(* tokens, renewals and keys and every duration.                           *)
(*                                                                         *)
(* SessionInv and RequestInv are inductive: one lemma for each operation.  *)
(* Beside them SigningInv is, from the lemmas about the keyset.            *)
(***************************************************************************)
EXTENDS JWTSessionsProofs

\* Zenon proves the steps that name no prover; the SMT solver those with arithmetic.
USE Zenon

\* A renewal is cleared, and answered, for its family.
LEMMA AnswerFamily ==
    ASSUME SessionInv, RequestInv, NEW q \in Request, Cleared(q, "resume", req[q].attrs.multi), NEW s,
           s = [req[q] EXCEPT !.pc = "answered", !.required = FALSE]
    PROVE  /\ s \in RequestType /\ Formed(s, account.epoch)
           /\ TimelyRequest(s, now, account, enrolled, left)
           /\ RequestOK(s, fams, Len(admitted)) /\ GoesOn(req[q], s)
<1>1. /\ s \in RequestType /\ Formed(s, account.epoch) /\ TimelyRequest(s, now, account, enrolled, left)
      /\ s.at = req[q].at /\ s.attrs = req[q].attrs /\ s.op = req[q].op /\ s.id = req[q].id
      /\ GoesOn(req[q], s)
  BY AnswerTimes
<1>2. RequestOK(req[q], fams, Len(admitted))
  BY DEF SessionInv
<1>3. RequestOK(s, fams, Len(admitted))
  BY <1>1, <1>2 DEF RequestOK
<1> QED BY <1>1, <1>3

\* A request that lost the race of a rotation is answered with the session it loaded.
LEMMA RotateConcurrentInv ==
    ASSUME SessionInv, RequestInv, NEW q \in Request, RotateConcurrent(q), UNCHANGED scene
    PROVE  SessionInv' /\ RequestInv'
<1> DEFINE s == [req[q] EXCEPT !.pc = "answered", !.required = FALSE]
<1>1. /\ Cleared(q, "resume", req[q].attrs.multi) /\ Reads(q, s)
      /\ UNCHANGED <<scene, fams, tokens, access>>
  BY DEF RotateConcurrent
<1> HIDE DEF s
<1> QED BY <1>1, AnswerFamily, OwnReading DEF s

\* A rotation consumes the refresh token and hands out its successors.
LEMMA RotateInv ==
    ASSUME SessionInv, RequestInv, NEW q \in Request, Rotate(q), UNCHANGED scene
    PROVE  SessionInv' /\ RequestInv'
<1> DEFINE r == req[q]
           s == [r EXCEPT !.pc = "answered", !.required = FALSE]
           tok == [tokens[r.token] EXCEPT !.used = now]
           table == [tokens EXCEPT ![r.token] = tok]
           end == FamilyEnd(r.id)
<1>1. /\ Cleared(q, "resume", r.attrs.multi) /\ r.token \in DOMAIN tokens
      /\ HandOut(table, r.id, r.attrs.must, r.at, end)
      /\ Goto(q, s) /\ UNCHANGED <<scene, now, accountVars>>
      /\ fams' = fams /\ admitted' = admitted
  BY DEF Rotate, Consumable, Writes
<1>2. /\ s \in RequestType /\ Formed(s, account.epoch)
      /\ TimelyRequest(s, now, account, enrolled, left)
      /\ RequestOK(s, fams, Len(admitted)) /\ GoesOn(r, s)
  BY <1>1, AnswerFamily
<1>3. /\ r.pc = "factors" /\ r.op = "resume"
      /\ ~r.attrs.must => account.must = 0 \/ r.at <= account.must
      /\ \A g \in Factor : ~r.attrs.multi => enrolled[g] = 0 \/ r.at <= enrolled[g]
  BY <1>1, ClearedOwn
<1>4. r.id \in DOMAIN fams /\ r.attrs.multi = fams[r.id].multi
  BY <1>3 DEF SessionInv, RequestOK
<1>5. r.id \in Nat /\ end \in Nat /\ r.attrs.must \in BOOLEAN /\ r.at \in Nat /\ r.at <= now
  BY <1>4, SessionFacts, RequestTimes, SMTT(30)
<1>6. now \in Nat /\ tokens[r.token] \in Refresh /\ tokens[r.token].family \in DOMAIN fams
  BY <1>1, SessionFacts, AccountTimes
<1>7. tok \in Refresh /\ tok.family \in DOMAIN fams
  BY <1>6 DEF Refresh
<1>8. \A i \in DOMAIN table : /\ i \in DOMAIN tokens
                              /\ table[i] = tok \/ table[i] = tokens[i]
  BY SMTT(30)
<1> HIDE DEF r, s, tok, table, end
<1>9. TokensOK(table, DOMAIN fams)
  BY <1>7, <1>8, SessionFacts DEF TokensOK
<1>10. /\ issued' \in Nat
       /\ TokensOK(tokens', DOMAIN fams)
       /\ \A a \in access' : a \in access \/ Handed(a, r.id, r.attrs.must, r.at)
  BY <1>1, <1>4, <1>5, <1>9, HandOutFacts
<1>11. ASSUME NEW a \in access'
       PROVE  \/ a \in access
              \/ AccessOK(a, fams, now, account, enrolled)
  <2>1. CASE a \notin access
    <3>1. Handed(a, r.id, r.attrs.must, r.at)
      BY <1>10, <2>1
    <3>2. TimelyAccess(a, r.attrs.multi, now, account, enrolled)
      BY <1>3, <3>1, MadeTimely DEF r
    <3> QED BY <1>4, <3>1, <3>2 DEF Handed, AccessOK
  <2> QED BY <2>1
<1>12. /\ admitted \in Seq([at : Nat, epoch : Nat]) /\ Len(admitted) <= MaxLogins
       /\ Len(admitted) \in Nat
  BY SessionFacts DEF RequestInv, StateType
<1>13. Succeed(fams', Len(admitted'), account, left) /\ RequestOK(s, fams', Len(admitted'))
  BY <1>1, <1>2, SessionFacts DEF Succeed
<1>14. UNCHANGED <<scene, now, accountVars>>
  BY <1>1
<1>15. /\ \A a \in access' : a \in access \/ AccessOK(a, fams', now, account, enrolled)
       /\ TokensOK(tokens', DOMAIN fams') /\ Len(admitted') <= MaxLogins
       /\ admitted' \in Seq([at : Nat, epoch : Nat]) /\ Len(admitted) <= Len(admitted')
  <2>1. Len(admitted) <= Len(admitted)
    BY <1>12, SMTT(30)
  <2> QED BY <1>1, <1>10, <1>11, <1>12, <2>1
<1>16. s \in RequestType /\ Goto(q, s) /\ issued' \in Nat
  BY <1>1, <1>2, <1>10
<1> QED BY <1>2, <1>13, <1>14, <1>15, <1>16, OwnSession

\* Request q creates the family fam, after some were revoked or none, and ends.
LEMMA CreateInv ==
    ASSUME SessionInv, RequestInv, NEW q \in Request, req[q].pc # "idle", NEW n, n = Len(fams) + 1,
           Succeed(fams', Len(admitted'), account, left), n \in DOMAIN fams', NEW fam, fams'[n] = fam,
           NEW must \in BOOLEAN, NEW end \in Nat, HandOut(tokens, n, must, now, end),
           Goto(q, Idle), UNCHANGED <<scene, now, accountVars>>,
           admitted' \in Seq([at : Nat, epoch : Nat]), Len(admitted') <= MaxLogins,
           Len(admitted) <= Len(admitted'),
           ~must => account.must = 0 \/ req[q].at <= account.must,
           \A f \in Factor : ~fam.multi => enrolled[f] = 0 \/ req[q].at <= enrolled[f]
    PROVE  SessionInv' /\ RequestInv'
<1>1. now \in Nat /\ now <= now /\ fams \in Seq(Family) /\ n \in Nat
  <2>1. now \in Nat /\ fams \in Seq(Family) /\ Len(fams) \in Nat
    BY AccountTimes, SessionFacts
  <2> QED BY <2>1, SMTT(30)
<1>3. TokensOK(tokens, DOMAIN fams')
  <2>1. DOMAIN fams \subseteq DOMAIN fams'
    BY DEF Succeed
  <2> QED BY <2>1, SessionFacts DEF TokensOK
<1>5. /\ issued' \in Nat
      /\ TokensOK(tokens', DOMAIN fams')
      /\ \A a \in access' : a \in access \/ Handed(a, n, must, now)
  BY <1>1, <1>3, HandOutFacts
<1>6. ASSUME NEW a \in access', a \notin access
      PROVE  AccessOK(a, fams', now, account, enrolled)
  <2>1. Handed(a, n, must, now)
    BY <1>5, <1>6
  <2>2. TimelyAccess(a, fam.multi, now, account, enrolled)
    BY <2>1, MadeTimely
  <2> QED BY <2>1, <2>2 DEF Handed, AccessOK
<1>7. \A a \in access' : a \in access \/ AccessOK(a, fams', now, account, enrolled)
  BY <1>6
<1>9. GoesOn(req[q], Idle)
  BY DEF GoesOn, Idle
<1> QED BY <1>5, <1>7, <1>9, IdleTimes, OwnSession

\* A login creates a family.
LEMMA StartInv ==
    ASSUME SessionInv, RequestInv, NEW q \in Request, Start(q), UNCHANGED scene
    PROVE  SessionInv' /\ RequestInv'
<1> DEFINE r == req[q]
           l == Len(admitted) + 1
           n == Len(fams) + 1
           fam == [lineage |-> l, epoch |-> r.attrs.epoch, multi |-> r.attrs.multi, revoked |-> 0]
<1>1. PICK t \in r.at .. now :
        /\ admitted' = Append(admitted, [at |-> t, epoch |-> r.attrs.epoch])
        /\ HandOut(tokens, n, r.attrs.must, now, t + MaxLifetime)
  BY DEF Start
<1>2. /\ Cleared(q, "login", r.attrs.multi) /\ l <= scene.logins /\ fams' = Append(fams, fam)
      /\ Goto(q, Idle) /\ UNCHANGED <<scene, now, accountVars>>
  BY DEF Start, Writes
<1>3. /\ r.pc = "factors" /\ r.attrs.epoch >= 1
      /\ ~r.attrs.must => account.must = 0 \/ r.at <= account.must
      /\ \A g \in Factor : ~r.attrs.multi => enrolled[g] = 0 \/ r.at <= enrolled[g]
  BY <1>2, ClearedOwn
<1>4. /\ r.attrs.epoch \in Nat /\ r.attrs.multi \in BOOLEAN /\ r.attrs.must \in BOOLEAN
      /\ r.at \in Nat /\ r.attrs.epoch <= account.epoch
      /\ TimelyRequest(r, now, account, enrolled, left)
  BY RequestTimes
<1>5. /\ now \in Nat /\ account.epoch \in Nat /\ MaxLifetime \in Nat /\ MaxLogins \in Nat
      /\ scene.logins \in 0 .. MaxLogins
  <2>1. scene \in Scenario
    BY AccountTimes
  <2> QED BY <2>1, AccountTimes, TimeAssumption, ScenarioAssumption
<1>6. Len(admitted) \in Nat /\ fams \in Seq(Family) /\ l \in Nat
  BY SessionFacts, SMTT(30)
<1>7. t \in Nat /\ t + MaxLifetime \in Nat
  BY <1>4, <1>5, SMTT(30)
<1> DEFINE T == [at : Nat, epoch : Nat]
           x == [at |-> t, epoch |-> r.attrs.epoch]
           end == t + MaxLifetime
           must == r.attrs.must
<1>8. admitted \in Seq(T) /\ x \in T /\ admitted' = Append(admitted, x)
  BY <1>1, <1>4, <1>7 DEF RequestInv, StateType
<1>9. fam \in Family /\ FamilyOK(fam, l, account, left) /\ fam.multi = r.attrs.multi
  <2>1. Suspended(r.attrs.epoch, account, left)
    BY <1>3, <1>4 DEF TimelyRequest
  <2>2. l \in 1 .. l /\ r.attrs.epoch \in 1 .. account.epoch
    BY <1>3, <1>4, <1>5, <1>6, SMTT(30)
  <2> QED BY <1>4, <1>6, <2>1, <2>2 DEF Family, FamilyOK
<1>10. /\ HandOut(tokens, n, must, now, end) /\ end \in Nat /\ must \in BOOLEAN
       /\ ~must => account.must = 0 \/ r.at <= account.must
       /\ \A g \in Factor : ~fam.multi => enrolled[g] = 0 \/ r.at <= enrolled[g]
  BY <1>1, <1>3, <1>4, <1>7, <1>9
<1>11. r.pc # "idle" /\ n = Len(fams) + 1
  BY <1>3
<1> HIDE DEF T, x, end, must, fam, n
<1>12. admitted' \in Seq(T) /\ Len(admitted') = l
  BY <1>8, SMTT(30)
<1>13. Len(admitted) <= l /\ l <= MaxLogins
  BY <1>2, <1>5, <1>6, SMTT(30)
<1>14. Succeed(fams, l, account, left)
  BY <1>6 DEF Succeed
<1>15. admitted' \in Seq([at : Nat, epoch : Nat]) /\ Len(admitted') <= MaxLogins
       /\ Len(admitted) <= Len(admitted')
  BY <1>12, <1>13 DEF T
<1>16. Succeed(fams, Len(admitted'), account, left) /\ FamilyOK(fam, Len(admitted'), account, left)
  BY <1>9, <1>12, <1>14
<1>17. Succeed(fams', Len(admitted'), account, left) /\ n \in DOMAIN fams' /\ fams'[n] = fam
  <2> DEFINE m == Len(admitted')
  <2>1. /\ fams \in Seq(Family) /\ fam \in Family /\ fams' = Append(fams, fam) /\ n = Len(fams) + 1
        /\ Succeed(fams, m, account, left) /\ FamilyOK(fam, m, account, left) /\ Len(fams) = Len(fams)
    BY <1>2, <1>6, <1>9, <1>11, <1>16
  <2> HIDE DEF m
  <2>2. Succeed(fams', m, account, left) /\ Holds(fams', n, fam)
    BY <2>1, AppendFacts
  <2> QED BY <2>2 DEF m, Holds
<1> QED BY <1>2, <1>10, <1>11, <1>15, <1>17, CreateInv

\* The next family of a session, with the attributes next.
LEMMA ReplaceInv ==
    ASSUME SessionInv, RequestInv, NEW q \in Request, NEW next \in Attrs,
           Replace(q, next), UNCHANGED scene,
           req[q].pc # "idle", req[q].op # "login",
           next.epoch = req[q].attrs.epoch, next.lineage = req[q].attrs.lineage,
           ~next.must => account.must = 0 \/ req[q].at <= account.must,
           \A f \in Factor : ~next.multi => enrolled[f] = 0 \/ req[q].at <= enrolled[f]
    PROVE  SessionInv' /\ RequestInv'
<1> DEFINE n == Len(fams) + 1
           g == RevokeFamilies({req[q].id})
           fam == [lineage |-> next.lineage, epoch |-> next.epoch, multi |-> next.multi, revoked |-> 0]
           end == End(next.lineage)
           must == next.must
<1>1. /\ HandOut(tokens, n, must, now, end) /\ fams' = Append(g, fam)
      /\ Goto(q, Idle) /\ UNCHANGED <<scene, now, accountVars>> /\ admitted' = admitted
  BY DEF Replace, Writes
<1>2. next.lineage \in Nat /\ next.epoch \in Nat /\ next.multi \in BOOLEAN /\ must \in BOOLEAN
  BY DEF Attrs
<1>3. next.lineage \in 1 .. Len(admitted) /\ next.epoch >= 1 /\ next.epoch <= account.epoch
  BY RequestTimes DEF SessionInv, RequestOK, Formed
<1>4. Suspended(next.epoch, account, left)
  BY <1>3, RequestTimes DEF TimelyRequest
<1>5. now \in Nat /\ account.epoch \in Nat
  BY AccountTimes
<1>6. Len(admitted) \in Nat /\ fams \in Seq(Family) /\ end \in Nat
  BY <1>3, SessionFacts
<1>7. next.epoch \in 1 .. account.epoch
  BY <1>2, <1>3, <1>5, SMTT(30)
<1>8. fam \in Family /\ FamilyOK(fam, Len(admitted), account, left) /\ fam.multi = next.multi
  BY <1>2, <1>3, <1>4, <1>7 DEF Family, FamilyOK
<1>9. Succeed(g, Len(admitted), account, left) /\ Len(g) = Len(fams)
  BY <1>5, <1>6, RevokeFacts
<1>10. /\ n = Len(fams) + 1
       /\ ~must => account.must = 0 \/ req[q].at <= account.must
       /\ \A f \in Factor : ~fam.multi => enrolled[f] = 0 \/ req[q].at <= enrolled[f]
  BY <1>8
<1> HIDE DEF n, g, fam, end, must
<1>11. /\ admitted' \in Seq([at : Nat, epoch : Nat]) /\ Len(admitted') <= MaxLogins
       /\ Len(admitted) <= Len(admitted')
  <2>1. admitted \in Seq([at : Nat, epoch : Nat]) /\ Len(admitted) <= MaxLogins
    BY DEF RequestInv, StateType
  <2> QED BY <1>1, <1>6, <2>1, SMTT(30)
<1>12. Succeed(g, Len(admitted'), account, left) /\ FamilyOK(fam, Len(admitted'), account, left)
  BY <1>1, <1>8, <1>9
<1>13. Succeed(fams', Len(admitted'), account, left) /\ n \in DOMAIN fams' /\ fams'[n] = fam
  <2> DEFINE m == Len(admitted')
  <2>1. /\ fams \in Seq(Family) /\ fam \in Family /\ fams' = Append(g, fam) /\ n = Len(fams) + 1
        /\ Succeed(g, m, account, left) /\ FamilyOK(fam, m, account, left) /\ Len(g) = Len(fams)
    BY <1>1, <1>6, <1>8, <1>9, <1>10, <1>12
  <2> HIDE DEF m
  <2>2. Succeed(fams', m, account, left) /\ Holds(fams', n, fam)
    BY <2>1, AppendFacts
  <2> QED BY <2>2 DEF m, Holds
<1>14. /\ HandOut(tokens, n, must, now, end) /\ Goto(q, Idle) /\ UNCHANGED <<scene, now, accountVars>>
       /\ must \in BOOLEAN /\ end \in Nat
  BY <1>1, <1>2, <1>6
<1> QED BY <1>10, <1>11, <1>13, <1>14, CreateInv

\* A proof of a factor replaces the family.
LEMMA ReauthenticateInv ==
    ASSUME SessionInv, RequestInv, NEW q \in Request, Reauthenticate(q), UNCHANGED scene
    PROVE  SessionInv' /\ RequestInv'
<1> DEFINE a == req[q].attrs
<1>1. PICK multi \in BOOLEAN :
        Cleared(q, "reauth", multi) /\ Replace(q, [a EXCEPT !.multi = a.multi \/ multi])
  BY DEF Reauthenticate
<1> DEFINE next == [a EXCEPT !.multi = a.multi \/ multi]
<1>2. a \in Attrs /\ a.multi \in BOOLEAN
  BY RequestTimes
<1>3. /\ next \in Attrs /\ next.epoch = a.epoch /\ next.lineage = a.lineage /\ next.must = a.must
      /\ next.multi = (a.multi \/ multi)
  BY <1>2 DEF Attrs
<1>4. Replace(q, next)
  BY <1>1
<1> HIDE DEF next
<1>5. /\ req[q].pc = "factors" /\ req[q].op = "reauth"
      /\ ~a.must => account.must = 0 \/ req[q].at <= account.must
      /\ \A f \in Factor : ~multi /\ ~a.multi => enrolled[f] = 0 \/ req[q].at <= enrolled[f]
  BY <1>1, ClearedTimes, SMTT(30)
<1> QED BY <1>3, <1>4, <1>5, ReplaceInv

\* A change of its own replaces the family of the request.
LEMMA ReissueInv ==
    ASSUME SessionInv, RequestInv, NEW q \in Request, Reissue(q), UNCHANGED scene
    PROVE  SessionInv' /\ RequestInv'
<1> DEFINE a == req[q].attrs
<1>1. a \in Attrs /\ Replace(q, a) /\ req[q].pc = "reissue" /\ req[q].op # "login"
  BY RequestTimes DEF Reissue, Formed
<1>2. TimelyRequest(req[q], now, account, enrolled, left)
  BY RequestTimes
<1>3. ~a.must => account.must = 0 \/ req[q].at <= account.must
  BY <1>1, <1>2 DEF TimelyRequest, TimelyFlag
<1>4. \A f \in Factor : ~a.multi => enrolled[f] = 0 \/ req[q].at <= enrolled[f]
  BY <1>1, <1>2 DEF TimelyRequest, TimelyFactor
<1> QED BY <1>1, <1>3, <1>4, ReplaceInv

\* MintResource: the token is minted for a family that is live, at this instant.
LEMMA MintResourceInv ==
    ASSUME SessionInv, RequestInv, NEW q \in Request, MintResource(q), UNCHANGED scene
    PROVE  SessionInv' /\ RequestInv'
<1> DEFINE r == req[q]
           end == FamilyEnd(r.id)
           exp == IF now + RecheckEvery > end THEN end ELSE now + RecheckEvery
<1>1. PICK key :
        access' = access \cup {[NewAccess(r.id, r.attrs.must, now, end, key) EXCEPT !.resource = TRUE]}
  BY DEF MintResource
<1> DEFINE b == NewAccess(r.id, r.attrs.must, now, end, key)
           a == [b EXCEPT !.resource = TRUE]
<1>2. /\ Answered(q) /\ CachedLive(r.id) /\ Goto(q, Idle) /\ UNCHANGED <<scene, now, accountVars>>
      /\ fams' = fams /\ tokens' = tokens /\ admitted' = admitted /\ issued' = issued
  BY DEF MintResource, Writes, Resumable
<1>3. r.op # "login" /\ r.attrs.must \in BOOLEAN
  BY <1>2, RequestTimes DEF Answered, Formed
<1>4. r.id \in DOMAIN fams
  BY <1>3 DEF SessionInv, RequestOK
<1>5. end \in Nat /\ now < end
  BY <1>2, <1>4, SessionFacts DEF CachedLive
<1>6. now \in Nat /\ RecheckEvery \in Nat \ {0}
  BY AccountTimes, TimeAssumption
<1>7. exp \in Nat /\ now < exp /\ exp <= now + RecheckEvery
  BY <1>5, <1>6, SMTT(30)
<1>8. b = [family |-> r.id, must |-> r.attrs.must, key |-> key, resource |-> FALSE, exp |-> exp]
  BY DEF NewAccess
<1> HIDE DEF exp, b
<1>9. a.family = r.id /\ a.must = r.attrs.must /\ a.exp = exp /\ a.resource = TRUE
  BY <1>8
<1> HIDE DEF a
<1>10. TimelyAccess(a, fams[a.family].multi, now, account, enrolled)
  BY <1>7, <1>9 DEF TimelyAccess
<1>11. AccessOK(a, fams, now, account, enrolled)
  BY <1>3, <1>4, <1>7, <1>9, <1>10 DEF AccessOK
<1>12. \A c \in access' : c \in access \/ AccessOK(c, fams', now, account, enrolled)
  BY <1>1, <1>2, <1>11 DEF a, b
<1>13. /\ admitted \in Seq([at : Nat, epoch : Nat]) /\ Len(admitted) <= MaxLogins
       /\ Len(admitted) \in Nat /\ issued \in Nat
  BY SessionFacts DEF RequestInv, StateType
<1>14. /\ admitted' \in Seq([at : Nat, epoch : Nat]) /\ Len(admitted') <= MaxLogins
       /\ Len(admitted) <= Len(admitted') /\ issued' \in Nat
  BY <1>2, <1>13, SMTT(30)
<1>15. Succeed(fams', Len(admitted'), account, left) /\ TokensOK(tokens', DOMAIN fams')
  BY <1>2, SessionFacts DEF Succeed, SessionInv
<1>16. GoesOn(req[q], Idle) /\ Goto(q, Idle) /\ UNCHANGED <<scene, now, accountVars>>
  BY <1>2 DEF GoesOn, Idle
<1> QED BY <1>12, <1>14, <1>15, <1>16, IdleTimes, OwnSession

\* The steps that end sessions: of no request, or of one that ends.
LEMMA EndingInv ==
    ASSUME SessionInv, RequestInv, UNCHANGED scene,
           \/ Deliver \/ Revoke \/ Erase \/ ReapExpired
           \/ \E q \in Request : RotateReused(q) \/ RevokeUnknown(q)
    PROVE  SessionInv' /\ RequestInv'
<1>1. CASE Deliver \/ Revoke
  BY <1>1, EndingStep DEF Deliver, Revoke
<1>2. CASE Erase \/ ReapExpired
  BY <1>2, EndingStep DEF Erase, ReapExpired
<1>3. CASE \E q \in Request : RotateReused(q) \/ RevokeUnknown(q)
  <2>1. PICK q \in Request : RotateReused(q) \/ RevokeUnknown(q)
    BY <1>3
  <2>2. /\ Goto(q, Idle) /\ UNCHANGED <<now, accountVars, admitted, issued, access>> /\ tokens' = tokens
        /\ \E F : fams' = RevokeFamilies(F)
    BY <2>1 DEF RotateReused, RevokeUnknown, Writes
  <2> QED BY <2>2, EndingStep
<1> QED BY <1>1, <1>2, <1>3

\* The steps that every backend has, but for the passing of time.
LEMMA SharedInv ==
    ASSUME SessionInv, RequestInv, UNCHANGED <<scene, fams, tokens, access>>,
           AccountStep \/ \E q \in Request : RequestStep(q)
    PROVE  SessionInv' /\ RequestInv'
<1>1. RequestInv'
  BY SharedTimes
<1>2. /\ now' = now /\ admitted' = admitted
      /\ Moved(now, account, enrolled, left, account', enrolled', left')
      /\ \A p \in Request : GoesOn(req[p], req'[p])
  BY SharedMoves
<1>3. Succeed(fams', Len(admitted'), account', left') /\ TokensOK(tokens', DOMAIN fams')
  BY SessionFacts DEF Succeed, SessionInv
<1>4. Len(admitted) <= Len(admitted')
  BY <1>2, SessionFacts, SMTT(30)
<1>5. \A a \in access' : a \in access
  BY SMTT(30)
<1>6. AtOnce
  BY <1>2, <1>3, <1>4, <1>5 DEF AtOnce
<1> QED BY <1>1, <1>6, SessionStep

\* Time passes: the access tokens that have expired are forgotten.
LEMMA ElapseInv ==
    ASSUME SessionInv, RequestInv, Elapse, UNCHANGED scene
    PROVE  SessionInv' /\ RequestInv'
<1>1. /\ Tick /\ access' = {a \in access : now' < a.exp} /\ fams' = fams /\ tokens' = tokens
      /\ now' = now + 1 /\ account' = account /\ enrolled' = enrolled /\ left' = left /\ req' = req
      /\ admitted' = admitted /\ scene' = scene
  BY DEF Elapse, Tick, accountVars
<1>2. RequestInv'
  BY <1>1, TickTimes
<1>3. now \in Nat /\ RecheckEvery \in Nat
  BY AccountTimes, TimeAssumption
<1>4. ASSUME NEW a \in access'
      PROVE  AccessOK(a, fams, now, account, enrolled)'
  <2> DEFINE m == fams[a.family].multi
  <2>1. AccessOK(a, fams, now, account, enrolled) /\ now' < a.exp
    BY <1>1 DEF SessionInv
  <2>2. a.exp \in Nat /\ TimelyAccess(a, m, now, account, enrolled)
    BY <2>1 DEF AccessOK
  <2>3. TimelyAccess(a, m, now + 1, account, enrolled)
    BY <1>1, <1>3, <2>1, <2>2, SMTT(30) DEF TimelyAccess
  <2>4. TimelyAccess(a, m, now, account, enrolled)'
    BY <1>1, <2>3 DEF TimelyAccess
  <2> QED BY <1>1, <2>1, <2>4 DEF AccessOK
<1>5. /\ fams' \in Seq(Family) /\ TokensOK(tokens, DOMAIN fams)'
      /\ \A f \in DOMAIN fams' : FamilyOK(fams[f], Len(admitted), account, left)'
      /\ \A q \in Request : RequestOK(req[q], fams, Len(admitted))'
  BY <1>1 DEF SessionInv, TokensOK, FamilyOK, Suspended, RequestOK
<1> QED BY <1>2, <1>4, <1>5 DEF SessionInv

\* A step of the keys touches no session.
LEMMA UntouchedInv ==
    ASSUME SessionInv, RequestInv, UNCHANGED <<sharedVars, fams, tokens, access>>
    PROVE  SessionInv' /\ RequestInv'
<1>1. /\ UNCHANGED <<scene, now, accountVars, admitted, issued, access>>
      /\ fams' = fams /\ tokens' = tokens /\ req' = req
  BY DEF sharedVars
<1> QED BY <1>1, EndingStep

\* Every step keeps the invariants.
LEMMA NextInv ==
    ASSUME SessionInv, RequestInv, [Next]_vars
    PROVE  SessionInv' /\ RequestInv'
<1>1. CASE UNCHANGED vars
  BY <1>1, UntouchedInv DEF vars
<1>2. ASSUME Next
      PROVE  SessionInv' /\ RequestInv'
  <2>1. UNCHANGED scene
    BY <1>2 DEF Next
  <2>2. CASE Elapse
    BY <2>1, <2>2, ElapseInv
  <2>3. CASE (AccountStep \/ \E q \in Request : RequestStep(q)) /\ UNCHANGED <<fams, tokens, access, keyVars>>
    BY <2>1, <2>3, SharedInv
  <2>4. CASE Deliver \/ Revoke \/ Erase \/ ReapExpired
    BY <2>1, <2>4, EndingInv
  <2>5. ASSUME NEW q \in Request, Step(q)
        PROVE  SessionInv' /\ RequestInv'
    <3>1. CASE RotateReused(q) \/ RevokeUnknown(q)
      BY <2>1, <3>1, EndingInv
    <3> QED BY <2>1, <2>5, <3>1, ResumeLiveInv, BeginRenewInv, StartInv, RotateInv, RotateConcurrentInv,
               ReauthenticateInv, ReissueInv, MintResourceInv DEF Step
  <2>6. CASE UNCHANGED <<now, accountVars, req, admitted, issued, fams, tokens, access>>
    BY <2>1, <2>6, UntouchedInv DEF sharedVars
  <2> QED BY <1>2, <2>2, <2>3, <2>4, <2>5, <2>6 DEF Next
<1> QED BY <1>1, <1>2

\* The initial state satisfies them.
LEMMA InitInv == Init => SessionInv /\ RequestInv
<1> SUFFICES ASSUME Init PROVE SessionInv /\ RequestInv
  BY SMTT(30)
<1>1. /\ InitRequests /\ fams = <<>> /\ tokens = [i \in {} |-> 0] /\ access = {}
      /\ req = [q \in Request |-> Idle]
  BY DEF Init, InitRequests
<1>2. RequestInv
  BY <1>1, InitTimes
<1>3. fams \in Seq(Family) /\ DOMAIN fams = {}
  BY <1>1, SMTT(30)
<1>4. \A q \in Request : RequestOK(req[q], fams, Len(admitted))
  BY <1>1 DEF RequestOK, Idle
<1>5. TokensOK(tokens, DOMAIN fams)
  BY <1>1 DEF TokensOK
<1> QED BY <1>1, <1>2, <1>3, <1>4, <1>5 DEF SessionInv

-----------------------------------------------------------------------------
\* What is signed.

\* A change of the keyset, for everything that is signed.
LEMMA SigningOn ==
    ASSUME SessionInv, SigningInv, KeysOK', Evolves, now' = now, now \in Nat, access' = access
    PROVE  SigningInv'
<1>1. /\ KeysOK /\ ViewsOK(RecheckEvery)
      /\ \A a \in access : a.key \in Key /\ ~a.key.retired /\ Served(a.key, a.exp)
  BY DEF SigningInv
<1> DEFINE ks == keys'
<1>2. ks \in SUBSET Key /\ Record(ks) /\ Follows(ks) /\ wiped \subseteq wiped'
  BY DEF Evolves
<1>3. PollBound \in Nat /\ RecheckEvery \in Nat
  BY <1>1, KeyFacts
<1> HIDE DEF ks
<1>4. ViewsOK(RecheckEvery)'
  BY <1>1, <1>2, ViewsOn
<1>5. ASSUME NEW a \in access
      PROVE  Served(a.key, a.exp)'
  <2>1. a.exp \in Nat /\ a.key \in Key /\ now < a.exp /\ a.exp <= now + RecheckEvery
    BY <1>1 DEF SessionInv, AccessOK, TimelyAccess
  <2>2. Served(a.key, a.exp) /\ a.exp <= now + PollBound + RecheckEvery
    BY <1>1, <1>3, <2>1, SMTT(30)
  <2> DEFINE k == a.key
             t == a.exp
  <2> HIDE DEF k, t
  <2>3. Served(k, t)'
    BY <1>1, <1>2, <2>1, <2>2, ServedOn DEF k, t
  <2> QED BY <2>3 DEF k, t
<1> QED BY <1>1, <1>4, <1>5 DEF SigningInv

\* Tokens that are signed now join the ones that were.
LEMMA SigningMore ==
    ASSUME SigningInv, now \in Nat, UNCHANGED <<now, keyVars>>,
           \A a \in access' : a \in access \/ (/\ a.key \in Signers /\ a.exp \in Nat
                                               /\ a.exp <= now + RecheckEvery)
    PROVE  SigningInv'
<1>1. /\ KeysOK /\ ViewsOK(RecheckEvery)
      /\ \A a \in access : a.key \in Key /\ ~a.key.retired /\ Served(a.key, a.exp)
  BY DEF SigningInv
<1>2. \A a \in access' : a.key \in Key /\ ~a.key.retired /\ Served(a.key, a.exp)
  <2>1. ASSUME NEW a \in access', a \notin access
        PROVE  a.key \in Key /\ ~a.key.retired /\ Served(a.key, a.exp)
    <3>1. a.key \in Signers /\ a.exp \in Nat /\ a.exp <= now + RecheckEvery
      BY <2>1
    <3> QED BY <1>1, <3>1, SignersServed
  <2> QED BY <1>1, <2>1
<1>3. /\ keys' = keys /\ dead' = dead /\ renewal' = renewal /\ past' = past /\ wiped' = wiped
      /\ drawn' = drawn /\ now' = now
  BY DEF keyVars
<1>4. KeysOK' /\ ViewsOK(RecheckEvery)' /\ \A k, t : Served(k, t) => Served(k, t)'
  <2>1. KeysOK'
    BY <1>1, <1>3 DEF KeysOK, RenewalOK
  <2>2. ViewsOK(RecheckEvery)'
    BY <1>1, <1>3 DEF ViewsOK, Served, IsExpired
  <2>3. \A k, t : Served(k, t) => Served(k, t)'
    BY <1>3 DEF Served, IsExpired
  <2> QED BY <2>1, <2>2, <2>3
<1>5. \A a \in access' : a.key \in Key /\ ~a.key.retired /\ Served(a.key, a.exp)'
  BY <1>2, <1>4
<1> QED BY <1>4, <1>5 DEF SigningInv

\* Whatever is signed in a step is signed with a key of some instance.
LEMMA HandOutSigned ==
    ASSUME NEW table, NEW f, NEW must, NEW t, NEW end, HandOut(table, f, must, t, end)
    PROVE  \A a \in access' : a \in access \/ a.key \in Signers
<1>1. PICK key \in Signers :
        access' = access \/ access' = access \cup {NewAccess(f, must, t, end, key)}
  BY DEF HandOut
<1>2. NewAccess(f, must, t, end, key).key = key
  BY DEF NewAccess
<1> QED BY <1>1, <1>2

\* A resource token is signed with a key of an instance.
LEMMA MintSigned ==
    ASSUME NEW q, MintResource(q)
    PROVE  \A a \in access' : a \in access \/ a.key \in Signers
<1> DEFINE b(key) == NewAccess(req[q].id, req[q].attrs.must, now, FamilyEnd(req[q].id), key)
<1>1. PICK key \in Signers : access' = access \cup {[b(key) EXCEPT !.resource = TRUE]}
  BY DEF MintResource
<1>2. [b(key) EXCEPT !.resource = TRUE].key = key
  BY DEF NewAccess
<1> QED BY <1>1, <1>2

\* So is every token that a request hands out, and requests leave the keys alone.
LEMMA StepSigned ==
    ASSUME NEW q, Step(q)
    PROVE  /\ \A a \in access' : a \in access \/ a.key \in Signers
           /\ UNCHANGED keyVars /\ now' = now
<1>1. CASE ResumeLive(q) \/ BeginRenew(q) \/ RotateConcurrent(q) \/ RotateReused(q) \/ RevokeUnknown(q)
  BY <1>1 DEF ResumeLive, BeginRenew, RotateConcurrent, RotateReused, RevokeUnknown, Reads, Writes
<1>2. CASE Start(q)
  BY <1>2, HandOutSigned DEF Start, Writes
<1>3. CASE Rotate(q)
  BY <1>3, HandOutSigned DEF Rotate, Writes
<1>4. CASE Reauthenticate(q) \/ Reissue(q)
  BY <1>4, HandOutSigned DEF Reauthenticate, Reissue, Replace, Writes
<1>5. CASE MintResource(q)
  <2>1. UNCHANGED keyVars /\ now' = now
    BY <1>5 DEF MintResource, Writes
  <2> QED BY <1>5, <2>1, MintSigned
<1> QED BY <1>1, <1>2, <1>3, <1>4, <1>5 DEF Step

\* Time passing keeps the invariant of keys and tokens.
LEMMA ElapseSigning ==
    ASSUME SigningInv, RequestInv, Elapse
    PROVE  SigningInv'
<1>1. /\ KeysOK /\ ViewsOK(RecheckEvery)
      /\ \A a \in access : a.key \in Key /\ ~a.key.retired /\ Served(a.key, a.exp)
  BY DEF SigningInv
<1>2. now \in Nat /\ now' = now + 1 /\ Age /\ \A a \in access' : a \in access
  BY AccountTimes DEF Elapse, Tick
<1>3. KeysOK' /\ ViewsOK(RecheckEvery)'
  BY <1>1, <1>2, AgeKeys
<1>4. past' \subseteq past /\ UNCHANGED <<keys, wiped>>
  BY <1>2 DEF Age
<1>5. ASSUME NEW a \in access'
      PROVE  Served(a.key, a.exp)'
  <2> DEFINE k == a.key
             t == a.exp
  <2>1. k \in Key /\ Served(k, t)
    BY <1>1, <1>2
  <2> HIDE DEF k, t
  <2>2. Served(k, t)'
    BY <1>2, <1>4, <2>1, ServedLater
  <2> QED BY <2>2 DEF k, t
<1> QED BY <1>1, <1>2, <1>3, <1>5 DEF SigningInv

\* A step leaves every signed token verifiable: the keys of the instances evolve, the
\* tokens signed meanwhile are signed with keys of keysets still in use.
LEMMA SigningStep ==
    ASSUME SigningInv, SessionInv, RequestInv, SessionInv', RequestInv', [Next]_vars
    PROVE  SigningInv'
<1>1. now \in Nat /\ RecheckEvery \in Nat
  BY AccountTimes, TimeAssumption
<1>2. \A a \in access' : a.exp \in Nat /\ a.exp <= now' + RecheckEvery
  BY DEF SessionInv, AccessOK, TimelyAccess
<1>3. ASSUME UNCHANGED keyVars, now' = now, \A a \in access' : a \in access \/ a.key \in Signers
      PROVE  SigningInv'
  <2>1. \A a \in access' : a \in access \/ (/\ a.key \in Signers /\ a.exp \in Nat
                                            /\ a.exp <= now + RecheckEvery)
    BY <1>2, <1>3
  <2> QED BY <1>1, <1>3, <2>1, SigningMore
<1>4. CASE UNCHANGED vars
  <2>1. UNCHANGED keyVars /\ now' = now /\ access' = access
    BY <1>4 DEF vars, sharedVars
  <2> QED BY <1>3, <2>1
<1>5. ASSUME Next
      PROVE  SigningInv'
  <2>1. CASE Elapse
    BY <2>1, ElapseSigning
  <2>2. CASE (AccountStep \/ \E q \in Request : RequestStep(q)) /\ UNCHANGED <<fams, tokens, access, keyVars>>
    <3>1. now' = now
      BY <2>2, SharedMoves
    <3> QED BY <1>3, <2>2, <3>1
  <2>3. CASE Deliver \/ Revoke \/ Erase \/ ReapExpired
    BY <1>3, <2>3 DEF Deliver, Revoke, Erase, ReapExpired
  <2>4. ASSUME NEW q \in Request, Step(q)
        PROVE  SigningInv'
    BY <1>3, <2>4, StepSigned
  <2>5. CASE KeyStep /\ UNCHANGED <<now, accountVars, req, admitted, issued, fams, tokens, access>>
    <3>1. now' = now /\ access' = access /\ KeysOK
      BY <2>5 DEF SigningInv
    <3>2. KeysOK' /\ Evolves
      BY <1>1, <2>5, <3>1, KeyStepInv
    <3> QED BY <1>1, <3>1, <3>2, SigningOn
  <2> QED BY <1>5, <2>1, <2>2, <2>3, <2>4, <2>5 DEF Next
<1> QED BY <1>4, <1>5

\* The first key of the tenant satisfies it.
LEMMA SigningInit == Init => SigningInv
<1> SUFFICES ASSUME Init PROVE SigningInv
  BY SMTT(30)
<1> DEFINE k0 == [kid |-> FirstKid, created |-> 1, notAfter |-> Never, retired |-> FALSE, stored |-> 0]
<1>1. /\ access = {} /\ keys = {k0} /\ dead = FALSE /\ renewal = [r \in Renewal |-> NoRenewal]
      /\ past = {} /\ wiped = {} /\ drawn = {FirstKid}
  BY DEF Init, InitKeys
<1>2. k0 \in Key /\ k0.kid = FirstKid
  BY KeyAssumption DEF Key, Never
<1> HIDE DEF k0
<1>3. renewal \in [Renewal -> RenewalType] /\ \A r \in Renewal : RenewalOK(r)
  BY <1>1, NoRenewalType DEF RenewalOK
<1>4. KeysOK
  BY <1>1, <1>2, <1>3, KeyAssumption DEF KeysOK
<1>5. ViewsOK(RecheckEvery)
  BY <1>1 DEF ViewsOK
<1> QED BY <1>1, <1>4, <1>5 DEF SigningInv

-----------------------------------------------------------------------------
\* The theorems.

\* Every reachable state of the JWT backend satisfies the two inductive invariants: what a
\* request, a family or an access token lacks of what the account asks for was not yet asked
\* for when it was last checked, and no request goes on with a family revoked long ago.
THEOREM Invariance == Spec => [](SessionInv /\ RequestInv)
<1>1. SessionInv /\ RequestInv /\ [Next]_vars => (SessionInv /\ RequestInv)'
  BY NextInv
<1> QED BY <1>1, InitInv, PTL DEF Spec

\* Families.Live and the checks of Resume: a revoked family answers no request that starts
\* PollBound after the revocation, nor one that lost a rotation race to it.
THEOREM RevocationObeyed == Spec => []RevokedRefused
<1>1. SessionInv /\ RequestInv => RevokedRefused
  <2> SUFFICES ASSUME SessionInv, RequestInv, NEW q \in Request, Answered(q), fams[req[q].id].revoked # 0
               PROVE  req[q].at < fams[req[q].id].revoked + PollBound
    BY DEF RevokedRefused
  <2>1. req[q].op # "login"
    BY RequestTimes DEF Answered, Formed
  <2> QED BY <2>1 DEF SessionInv, RequestOK
<1> QED BY <1>1, Invariance, PTL

\* Admission and renewal of the JWT backend: disabling the account, replacing the password or
\* asking for a change of it reaches every session within the bounds of ChangesEnforced.
THEOREM ChangesObeyed == Spec => []ChangesEnforced
<1>1. SessionInv /\ RequestInv => ChangesEnforced
  BY AnsweredTimes
<1> QED BY <1>1, Invariance, PTL

\* Admission and renewal of the JWT backend: an enrolled second factor is asked for by every
\* session within the bounds of SecondFactorEnforced.
THEOREM FactorObeyed == Spec => []SecondFactorEnforced
<1>1. SessionInv /\ RequestInv => SecondFactorEnforced
  BY AnsweredTimes
<1> QED BY <1>1, Invariance, PTL

\* Every reachable state satisfies the inductive invariant of the signing keys: every
\* keyset that an instance may use holds the key of every token alive, or its retired
\* successor, for as long as the token lasts.
THEOREM KeysServed == Spec => []SigningInv
<1>1. SigningInv /\ (SessionInv /\ RequestInv) /\ (SessionInv /\ RequestInv)' /\ [Next]_vars => SigningInv'
  BY SigningStep
<1> QED BY <1>1, SigningInit, Invariance, PTL DEF Spec

\* Manager.Renew and Store.Rotate keep the previous key for Overlap: a token outlives the
\* rotation of its key on every instance.
THEOREM TokensVerify == Spec => []SignedVerifies
<1>1. SigningInv /\ (SessionInv /\ RequestInv) => SignedVerifies
  <2> SUFFICES ASSUME SigningInv, SessionInv, RequestInv, NEW a \in access,
                      a.key.kid \notin wiped, ~IsExpired(a.key, now), NEW v \in View,
                      ~(now < a.key.stored + PollBound)
               PROVE  VerifiesIn(v, a.key.kid, now)
    BY DEF SignedVerifies
  <2>1. /\ now \in Nat /\ a.exp \in Nat /\ now < a.exp /\ a.key \in Key
        /\ Kept(keys, a.key, a.exp)
        /\ \A w \in past : Kept(w.keys, a.key, a.exp) \/ w.until <= a.key.stored + PollBound
    BY AccountTimes DEF SigningInv, SessionInv, AccessOK, TimelyAccess, Served
  <2>2. KeysOK /\ ViewsOK(RecheckEvery)
    BY DEF SigningInv
  <2>3. v \subseteq Key /\ Kept(v, a.key, a.exp)
    <3>1. CASE v = keys
      BY <2>1, <2>2, <3>1, KeyFacts
    <3>2. ASSUME NEW w \in past, v = w.keys
          PROVE  v \subseteq Key /\ Kept(v, a.key, a.exp)
      <4>1. w.until \in Nat /\ now < w.until /\ w.keys \subseteq Key
        BY <2>2 DEF ViewsOK
      <4>2. a.key.stored \in Nat /\ PollBound \in Nat
        BY <2>1, <2>2, KeyFacts
      <4> QED BY <2>1, <3>2, <4>1, <4>2, SMTT(30)
    <3> QED BY <3>1, <3>2 DEF View
  <2>4. PICK k \in v : Succeeds(k, a.key, a.exp)
    BY <2>3 DEF Kept
  <2>5. k.notAfter \in Nat /\ a.key.notAfter \in Nat
    BY <2>1, <2>2, <2>3, KeyFacts
  <2>6. k.kid = a.key.kid /\ Verifies(k, now)
    BY <2>1, <2>4, <2>5, SMTT(30) DEF Succeeds, Verifies, IsExpired
  <2> QED BY <2>6 DEF VerifiesIn
<1> QED BY <1>1, KeysServed, Invariance, PTL

\* Manager.Tombstone and RevokeAll: an erased tenant has no keys and a revoked key never
\* comes back, whatever renewals were in flight.
THEOREM KeysStayRevoked == Spec => []KeysFinal
<1>1. SigningInv => KeysFinal
  BY DEF SigningInv, KeysFinal, KeysOK, KeysFinal
<1> QED BY <1>1, KeysServed, PTL

\* Store.Rotate and PutKey: renewals that race never leave a tenant without a signer.
THEOREM SignerStays == Spec => SignerKept
<1>1. ASSUME SigningInv, RequestInv, [Next]_vars, keys' # keys, wiped' = wiped,
             SignerAt(keys, now) # {}
      PROVE  SignerAt(keys', now) # {}
  <2>1. now \in Nat /\ KeysOK
    BY <1>1, AccountTimes DEF SigningInv
  <2>2. ~UNCHANGED keyVars
    BY <1>1 DEF keyVars
  <2>3. KeyStep /\ now' = now
    <3>1. ~(UNCHANGED vars) /\ Next
      BY <1>1, <2>2 DEF vars
    <3>2. ~Elapse
      BY <1>1 DEF Elapse, Age
    <3>3. ~(Deliver \/ Revoke \/ Erase \/ ReapExpired)
      BY <2>2 DEF Deliver, Revoke, Erase, ReapExpired
    <3>4. ~\E q \in Request : Step(q)
      BY <2>2, StepSigned
    <3> QED BY <2>2, <3>1, <3>2, <3>3, <3>4 DEF Next
  <2>4. PICK s : s \in SignerAt(keys, now)
    BY <1>1
  <2> QED BY <1>1, <2>1, <2>3, <2>4, SignerStep
<1>2. SigningInv /\ (SessionInv /\ RequestInv) /\ [Next]_vars
        => [keys' # keys /\ wiped' = wiped /\ SignerAt(keys, now) # {}
              => SignerAt(keys', now) # {}]_(keyVars)
  BY <1>1
<1> QED BY <1>2, KeysServed, Invariance, PTL DEF Spec, SignerKept, SignerKept

===============================================================================
