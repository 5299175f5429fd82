------------------------ MODULE SessionRequestsProofs ------------------------
(***************************************************************************)
(* The requests of both session backends, for every number of requests,    *)
(* lineages and epochs and every duration: the steps that the backends     *)
(* share keep RequestInv, which bounds how long a request may go on        *)
(* unaware of a change of the account.  The backends' own steps are left   *)
(* to modules StatefulSessionsTheorems and JWTSessionsTheorems.            *)
(***************************************************************************)
EXTENDS SessionRequests, TLAPS

\* Zenon proves the steps that name no prover; the SMT solver those with arithmetic.
USE Zenon

AccountType == [epoch : Epoch, disabled : Nat, must : Nat]

\* What a change of the account at instant t may do: set or clear the flag and the
\* factors, clear the suspension, and leave the epoch, perhaps with a suspension.
Moved(t, a1, n1, l1, a2, n2, l2) ==
    /\ a2.must \in {a1.must, 0, t}
    /\ \A f \in Factor : n2[f] \in {n1[f], 0, t}
    /\ \/ a2.epoch = a1.epoch /\ l2 = l1 /\ a2.disabled \in {a1.disabled, 0}
       \/ /\ a2.epoch = a1.epoch + 1 /\ l2 = [l1 EXCEPT ![a1.epoch] = t]
          /\ a2.disabled = a1.disabled \/ (a1.disabled = 0 /\ a2.disabled = t)

\* A suspension stays behind the epochs of the sessions it found.
LEMMA SuspendedKept ==
    ASSUME NEW t \in Nat, NEW a1 \in AccountType, NEW a2 \in AccountType,
           NEW n1, NEW n2, NEW l1 \in [Epoch -> Nat], NEW l2 \in [Epoch -> Nat],
           Moved(t, a1, n1, l1, a2, n2, l2), \A e \in Epoch : l1[e] <= t,
           NEW e \in Epoch, e <= a1.epoch, Suspended(e, a1, l1)
    PROVE  Suspended(e, a2, l2)
<1>1. /\ MaxEpoch \in Nat /\ a1.epoch \in Epoch /\ a1.disabled \in Nat /\ a2.disabled \in Nat
      /\ l1[e] \in Nat /\ l1[e] <= t
  BY TimeAssumption DEF AccountType
<1>2. a1.epoch \in Nat /\ e \in Nat
  BY <1>1, SMTT(30) DEF Epoch
<1>3. CASE a2.epoch = a1.epoch /\ l2 = l1 /\ a2.disabled \in {a1.disabled, 0}
  BY <1>1, <1>2, <1>3 DEF Suspended
<1>4. CASE /\ a2.epoch = a1.epoch + 1 /\ l2 = [l1 EXCEPT ![a1.epoch] = t]
           /\ a2.disabled = a1.disabled \/ (a1.disabled = 0 /\ a2.disabled = t)
  <2>1. l2[e] = IF e = a1.epoch THEN t ELSE l1[e]
    BY <1>4
  <2> QED BY <1>1, <1>2, <1>4, <2>1, SMTT(30) DEF Suspended
<1> QED BY <1>3, <1>4 DEF Moved

\* A requirement set at instant m and perhaps changed at t, later than r began.
LEMMA FlagKept ==
    ASSUME NEW r \in RequestType, NEW t \in Nat, NEW m1 \in Nat, NEW m2 \in Nat,
           m2 \in {m1, 0, t}, r.at <= t, scene.lasts \in Nat, TimelyFlag(r, m1)
    PROVE  TimelyFlag(r, m2)
<1>1. r.at \in Nat /\ RecheckEvery \in Nat /\ RecheckEvery > 0
  BY TimeAssumption, SMTT(30) DEF RequestType
<1>2. CASE m2 \in {m1, 0}
  BY <1>2 DEF TimelyFlag
<1>3. CASE m2 = t
  <2>1. r.at <= m2 /\ r.at < m2 + scene.lasts + RecheckEvery
    BY <1>1, <1>3, SMTT(30)
  <2> QED BY <2>1 DEF TimelyFlag
<1> QED BY <1>2, <1>3

\* The same of a second factor.
LEMMA FactorKept ==
    ASSUME NEW r \in RequestType, NEW f \in Factor, NEW t \in Nat, NEW m1 \in Nat, NEW m2 \in Nat,
           m2 \in {m1, 0, t}, r.at <= t, scene.lasts \in Nat, TimelyFactor(r, f, m1)
    PROVE  TimelyFactor(r, f, m2)
<1>1. r.at \in Nat /\ RecheckEvery \in Nat /\ RecheckEvery > 0
  BY TimeAssumption, SMTT(30) DEF RequestType
<1>2. CASE m2 \in {m1, 0}
  BY <1>2 DEF TimelyFactor
<1>3. CASE m2 = t
  <2>1. r.at <= m2 /\ r.at < m2 + scene.lasts + RecheckEvery
    BY <1>1, <1>3, SMTT(30)
  <2> QED BY <2>1 DEF TimelyFactor
<1> QED BY <1>2, <1>3

\* A request in flight during a change of the account.
LEMMA RequestKept ==
    ASSUME NEW r \in RequestType, NEW t \in Nat, NEW a1 \in AccountType, NEW a2 \in AccountType,
           NEW n1 \in [Factor -> Nat], NEW n2 \in [Factor -> Nat],
           NEW l1 \in [Epoch -> Nat], NEW l2 \in [Epoch -> Nat], scene.lasts \in Nat,
           Moved(t, a1, n1, l1, a2, n2, l2), \A e \in Epoch : l1[e] <= t,
           r.attrs.epoch <= a1.epoch, r.op # "login" => r.attrs.epoch >= 1,
           TimelyRequest(r, t, a1, n1, l1)
    PROVE  TimelyRequest(r, t, a2, n2, l2)
<1>1. /\ r.at \in Nat /\ r.attrs.epoch \in Nat /\ a1.epoch \in Epoch /\ a1.must \in Nat
      /\ a2.must \in Nat /\ PollBound \in Nat /\ PollBound > 0 /\ MaxEpoch \in Nat
  BY TimeAssumption, SMTT(30) DEF RequestType, Attrs, AccountType
<1>2. a1.epoch \in Nat /\ (r.attrs.epoch >= 1 => r.attrs.epoch \in Epoch)
  BY <1>1, SMTT(30) DEF Epoch
<1>3. r.at <= t /\ (r.pc # "idle" => t <= r.at + scene.lasts)
  BY DEF TimelyRequest
<1>4. TimelyFlag(r, a2.must)
  <2>1. a2.must \in {a1.must, 0, t} /\ TimelyFlag(r, a1.must)
    BY DEF Moved, TimelyRequest
  <2> QED BY <1>1, <1>3, <2>1, FlagKept
<1>5. ASSUME NEW f \in Factor
      PROVE  TimelyFactor(r, f, n2[f])
  <2>1. n2[f] \in {n1[f], 0, t} /\ TimelyFactor(r, f, n1[f])
    BY DEF Moved, TimelyRequest
  <2> QED BY <1>1, <1>3, <2>1, FactorKept
<1>6. r.attrs.epoch >= 1 => Suspended(r.attrs.epoch, a2, l2)
  <2>1. r.attrs.epoch >= 1 => Suspended(r.attrs.epoch, a1, l1)
    BY DEF TimelyRequest
  <2> QED BY <1>2, <2>1, SuspendedKept, SMTT(30)
<1>7. r.op # "login" /\ ~(r.op = "resume" /\ r.pc = "state") =>
        r.attrs.epoch = a2.epoch \/ r.at < l2[r.attrs.epoch] + PollBound
  <2> SUFFICES ASSUME r.op # "login", ~(r.op = "resume" /\ r.pc = "state")
               PROVE  r.attrs.epoch = a2.epoch \/ r.at < l2[r.attrs.epoch] + PollBound
    BY SMTT(30)
  <2>1. r.attrs.epoch = a1.epoch \/ r.at < l1[r.attrs.epoch] + PollBound
    BY DEF TimelyRequest
  <2>2. (l2 = l1 /\ a2.epoch = a1.epoch) \/ l2 = [l1 EXCEPT ![a1.epoch] = t]
    BY DEF Moved
  <2>3. CASE l2 = l1 /\ a2.epoch = a1.epoch
    BY <2>1, <2>3
  <2>4. CASE l2 = [l1 EXCEPT ![a1.epoch] = t]
    <3>1. l2[r.attrs.epoch] = IF r.attrs.epoch = a1.epoch THEN t ELSE l1[r.attrs.epoch]
      BY <1>2, <2>4
    <3> QED BY <1>1, <1>3, <2>1, <3>1, SMTT(30)
  <2> QED BY <2>2, <2>3, <2>4
<1> QED BY <1>3, <1>4, <1>5, <1>6, <1>7 DEF TimelyRequest

\* What RequestInv says of the account.
LEMMA AccountTimes ==
    ASSUME RequestInv
    PROVE  /\ account \in AccountType /\ enrolled \in [Factor -> Nat] /\ left \in [Epoch -> Nat]
           /\ kept \in [Epoch -> Nat] /\ now \in Nat /\ account.epoch \in Epoch
           /\ account.epoch \in Nat /\ account.must \in Nat /\ account.disabled \in Nat
           /\ scene \in Scenario /\ scene.lasts \in Nat /\ scene.epochs \in Epoch
           /\ \A e \in Epoch : left[e] <= now
<1>1. StateType /\ \A e \in Epoch : left[e] <= now
  BY DEF RequestInv
<1>2. account \in AccountType /\ account.epoch \in Epoch
  BY <1>1 DEF StateType, AccountType
<1>3. account.epoch \in Nat
  BY <1>2, TimeAssumption, SMTT(30) DEF Epoch
<1>4. scene \in Scenario /\ scene.lasts \in Nat /\ scene.epochs \in Epoch
  BY <1>1, ScenarioAssumption DEF StateType, Epoch
<1> QED BY <1>1, <1>2, <1>3, <1>4 DEF StateType, AccountType

\* What RequestInv says of a request.
LEMMA RequestTimes ==
    ASSUME RequestInv, NEW q \in Request
    PROVE  /\ req[q] \in RequestType /\ req[q].at \in Nat /\ req[q].at <= now
           /\ req[q].attrs \in Attrs /\ req[q].attrs.epoch \in Nat /\ req[q].attrs.lineage \in Nat
           /\ req[q].attrs.multi \in BOOLEAN /\ req[q].attrs.must \in BOOLEAN
           /\ req[q].pc \in Pc /\ req[q].op \in Op /\ req[q].required \in BOOLEAN
           /\ req[q].unread \in SUBSET Factor /\ req[q].factor \in Factor
           /\ req[q].attrs.epoch <= account.epoch
           /\ req = [req EXCEPT ![q] = req[q]]
           /\ Formed(req[q], account.epoch)
           /\ TimelyRequest(req[q], now, account, enrolled, left)
<1>1. /\ StateType /\ Formed(req[q], account.epoch)
      /\ TimelyRequest(req[q], now, account, enrolled, left)
  BY DEF RequestInv
<1>2. req[q] \in RequestType /\ req = [req EXCEPT ![q] = req[q]]
  BY <1>1 DEF StateType
<1>3. req[q].attrs \in Attrs
  BY <1>2 DEF RequestType
<1> QED BY <1>1, <1>2, <1>3 DEF RequestType, Attrs, Formed, TimelyRequest

\* A step that changes the account and the requests, at one instant.
LEMMA RequestsStep ==
    ASSUME RequestInv, StateType', now' = now, scene' = scene,
           Moved(now, account, enrolled, left, account', enrolled', left'),
           \A p \in Request :
               \/ req'[p] = req[p]
               \/ /\ Formed(req'[p], account'.epoch)
                  /\ TimelyRequest(req'[p], now, account', enrolled', left')
    PROVE  RequestInv'
<1>1. /\ account \in AccountType /\ account' \in AccountType
      /\ enrolled \in [Factor -> Nat] /\ enrolled' \in [Factor -> Nat]
      /\ left \in [Epoch -> Nat] /\ left' \in [Epoch -> Nat]
      /\ now \in Nat /\ scene.lasts \in Nat /\ \A e \in Epoch : left[e] <= now
      /\ account.epoch \in Nat
  BY AccountTimes DEF StateType, AccountType
<1>2. ASSUME NEW e \in Epoch
      PROVE  left'[e] <= now'
  <2>1. left' = left \/ left' = [left EXCEPT ![account.epoch] = now]
    BY DEF Moved
  <2> QED BY <1>1, <2>1, SMTT(30)
<1>3. account'.epoch = account.epoch \/ account'.epoch = account.epoch + 1
  BY DEF Moved
<1>4. ASSUME NEW p \in Request
      PROVE  /\ Formed(req'[p], account'.epoch)
             /\ TimelyRequest(req'[p], now, account', enrolled', left')
  <2>1. CASE req'[p] = req[p]
    <3>1. /\ req[p] \in RequestType /\ req[p].attrs.epoch \in Nat
          /\ Formed(req[p], account.epoch)
          /\ TimelyRequest(req[p], now, account, enrolled, left)
      BY RequestTimes
    <3>2. req[p].attrs.epoch <= account.epoch /\ (req[p].op # "login" => req[p].attrs.epoch >= 1)
      BY <3>1 DEF Formed
    <3>3. TimelyRequest(req[p], now, account', enrolled', left')
      BY <1>1, <3>1, <3>2, RequestKept
    <3>4. Formed(req[p], account'.epoch)
      BY <1>1, <1>3, <3>1, SMTT(30) DEF Formed
    <3> QED BY <2>1, <3>3, <3>4
  <2> QED BY <2>1
<1>5. \A p \in Request : Formed(req[p], account.epoch)'
  BY <1>4 DEF Formed
<1>6. \A p \in Request : TimelyRequest(req[p], now, account, enrolled, left)'
  BY <1>4, SMTT(30) DEF TimelyRequest, TimelyFlag, TimelyFactor, Suspended
<1> QED BY <1>2, <1>5, <1>6 DEF RequestInv

\* A step of request q, which goes on as r, that leaves the account alone.
LEMMA OwnStep ==
    ASSUME RequestInv, NEW q \in Request, NEW r \in RequestType, Goto(q, r),
           UNCHANGED <<scene, now, accountVars>>,
           issued' \in Nat, admitted' \in Seq([at : Nat, epoch : Nat]), Len(admitted') <= MaxLogins,
           Formed(r, account.epoch), TimelyRequest(r, now, account, enrolled, left)
    PROVE  RequestInv'
<1>1. /\ account' = account /\ enrolled' = enrolled /\ left' = left /\ kept' = kept
      /\ now' = now /\ scene' = scene /\ req' = [req EXCEPT ![q] = r]
  BY DEF Goto, accountVars
<1>2. StateType
  BY DEF RequestInv
<1>3. StateType'
  BY <1>1, <1>2 DEF StateType
<1>4. Moved(now, account, enrolled, left, account', enrolled', left')
  BY <1>1 DEF Moved
<1>5. \A p \in Request :
        \/ req'[p] = req[p]
        \/ /\ Formed(req'[p], account'.epoch)
           /\ TimelyRequest(req'[p], now, account', enrolled', left')
  BY <1>1, <1>2 DEF StateType
<1> QED BY <1>1, <1>3, <1>4, <1>5, RequestsStep

\* The same, of a step that only reads.
LEMMA OwnRead ==
    ASSUME RequestInv, NEW q \in Request, NEW r \in RequestType, Reads(q, r), UNCHANGED scene,
           Formed(r, account.epoch), TimelyRequest(r, now, account, enrolled, left)
    PROVE  RequestInv'
<1>1. issued' = issued /\ admitted' = admitted /\ Goto(q, r) /\ UNCHANGED <<scene, now, accountVars>>
  BY DEF Reads
<1>2. issued \in Nat /\ admitted \in Seq([at : Nat, epoch : Nat]) /\ Len(admitted) <= MaxLogins
  BY DEF RequestInv, StateType
<1> QED BY <1>1, <1>2, OwnStep

\* An idle request is in order at any time.
LEMMA IdleTimes ==
    ASSUME RequestInv
    PROVE  /\ Idle \in RequestType /\ Formed(Idle, account.epoch)
           /\ TimelyRequest(Idle, now, account, enrolled, left)
<1>1. (CHOOSE f \in Factor : TRUE) \in Factor
  BY TimeAssumption
<1>2. Idle \in RequestType
  BY <1>1 DEF Idle, NoAttrs, RequestType, Attrs, Pc, Op, NoId, NoLineage
<1>3. Idle.pc = "idle" /\ Idle.op = "login" /\ Idle.at = 0 /\ Idle.attrs.epoch = 0
  BY DEF Idle, NoAttrs
<1>4. now \in Nat /\ account.epoch \in Nat
  BY AccountTimes
<1>5. Formed(Idle, account.epoch)
  BY <1>3, <1>4, SMTT(30) DEF Formed
<1>6. TimelyRequest(Idle, now, account, enrolled, left)
  BY <1>3, <1>4, SMTT(30) DEF TimelyRequest, TimelyFlag, TimelyFactor
<1> QED BY <1>2, <1>5, <1>6

\* Time passes, an operator changes the account, or a request takes one of the steps
\* that are the same in both backends: the invariant of requests is kept.
LEMMA TickTimes ==
    ASSUME RequestInv, Tick, UNCHANGED scene
    PROVE  RequestInv'
<1>1. /\ now' = now + 1 /\ account' = account /\ enrolled' = enrolled /\ left' = left /\ req' = req
      /\ kept' = kept /\ scene' = scene /\ admitted' = admitted /\ issued' = issued
      /\ \A q \in Request : req[q].pc # "idle" => now < req[q].at + scene.lasts
  BY DEF Tick, accountVars
<1>2. now \in Nat /\ scene.lasts \in Nat /\ left \in [Epoch -> Nat]
  BY AccountTimes
<1>3. \A e \in Epoch : left'[e] <= now'
  BY <1>1, <1>2, AccountTimes, SMTT(30)
<1>4. ASSUME NEW p \in Request
      PROVE  TimelyRequest(req[p], now, account, enrolled, left)' /\ Formed(req[p], account.epoch)'
  <2>1. /\ req[p].at \in Nat /\ req'[p] = req[p] /\ Formed(req[p], account.epoch)
        /\ TimelyRequest(req[p], now, account, enrolled, left)
    BY <1>1, RequestTimes
  <2> QED BY <1>1, <1>2, <2>1, SMTT(30) DEF TimelyRequest, TimelyFlag, TimelyFactor, Suspended, Formed
<1>5. StateType'
  BY <1>1, <1>2, SMTT(30) DEF RequestInv, StateType
<1> QED BY <1>3, <1>4, <1>5 DEF RequestInv

\* A change of the account by none of the requests, or by one that goes on as it is
\* or as another in order.
LEMMA ChangeTimes ==
    ASSUME RequestInv, now' = now, scene' = scene, admitted' = admitted, issued' = issued,
           account' \in AccountType, enrolled' \in [Factor -> Nat], left' \in [Epoch -> Nat],
           kept' \in [Epoch -> Nat],
           Moved(now, account, enrolled, left, account', enrolled', left'),
           \/ req' = req
           \/ \E q \in Request : \E s \in RequestType :
                /\ Goto(q, s)
                /\ Formed(s, account'.epoch)
                /\ TimelyRequest(s, now, account', enrolled', left')
    PROVE  RequestInv'
<1>1. StateType
  BY DEF RequestInv
<1>2. req' \in [Request -> RequestType]
  BY <1>1 DEF StateType, Goto
<1>3. StateType'
  BY <1>1, <1>2 DEF StateType, AccountType
<1>4. \A p \in Request :
        \/ req'[p] = req[p]
        \/ /\ Formed(req'[p], account'.epoch)
           /\ TimelyRequest(req'[p], now, account', enrolled', left')
  BY <1>1 DEF StateType, Goto
<1> QED BY <1>3, <1>4, RequestsStep

\* The bump out of the account's epoch, which keeps the lineage l.
LEMMA BumpTimes ==
    ASSUME RequestInv, NEW l \in Nat, Bump(l)
    PROVE  /\ account.epoch + 1 \in Epoch
           /\ left' \in [Epoch -> Nat] /\ kept' \in [Epoch -> Nat]
           /\ left' = [left EXCEPT ![account.epoch] = now]
<1>1. /\ account.epoch \in Nat /\ account.epoch < scene.epochs /\ scene.epochs \in Epoch
      /\ account.epoch \in Epoch
  BY AccountTimes DEF Bump
<1>2. account.epoch + 1 \in Epoch
  BY <1>1, TimeAssumption, SMTT(30) DEF Epoch
<1> QED BY <1>1, <1>2, AccountTimes DEF Bump

\* Disable, Enable, ReplacePassword and SetMustChange move the account.
LEMMA AccountMoves ==
    ASSUME RequestInv, AccountStep
    PROVE  /\ now' = now /\ enrolled' = enrolled /\ req' = req /\ admitted' = admitted
           /\ issued' = issued /\ account' \in AccountType
           /\ left' \in [Epoch -> Nat] /\ kept' \in [Epoch -> Nat]
           /\ Moved(now, account, enrolled, left, account', enrolled', left')
<1>1. /\ account \in AccountType /\ now \in Nat /\ account.epoch \in Nat /\ account.disabled \in Nat
      /\ left \in [Epoch -> Nat] /\ kept \in [Epoch -> Nat] /\ NoLineage \in Nat
  BY AccountTimes DEF NoLineage
<1>2. now' = now /\ enrolled' = enrolled /\ req' = req /\ admitted' = admitted /\ issued' = issued
  BY DEF AccountStep, Disable, Enable, ReplacePassword, SetMustChange
<1>3. CASE Disable
  <2>1. Bump(NoLineage)
    BY <1>3 DEF Disable
  <2>2. account' \in AccountType
    BY <1>1, <1>3, <2>1, BumpTimes DEF Disable, AccountType
  <2> QED BY <1>1, <1>2, <1>3, <2>1, <2>2, BumpTimes DEF Disable, Moved, AccountType
<1>4. CASE Enable
  BY <1>1, <1>2, <1>4 DEF Enable, Moved, AccountType
<1>5. CASE ReplacePassword
  <2>1. PICK must \in BOOLEAN : SetPassword(NoLineage, must)
    BY <1>5 DEF ReplacePassword
  <2>2. Bump(NoLineage)
    BY <2>1 DEF SetPassword
  <2>3. account'.must \in {0, now} /\ account'.epoch = account.epoch + 1
        /\ account'.disabled = account.disabled
    BY <1>1, <2>1 DEF SetPassword, AccountType
  <2>4. account' \in AccountType
    BY <1>1, <2>1, <2>2, BumpTimes DEF SetPassword, AccountType
  <2> QED BY <1>1, <1>2, <2>2, <2>3, <2>4, BumpTimes DEF Moved
<1>6. CASE SetMustChange
  BY <1>1, <1>2, <1>6 DEF SetMustChange, Moved, AccountType
<1> QED BY <1>3, <1>4, <1>5, <1>6 DEF AccountStep

LEMMA AccountStepTimes ==
    ASSUME RequestInv, AccountStep, UNCHANGED scene
    PROVE  RequestInv'
<1>1. enrolled \in [Factor -> Nat] /\ enrolled' = enrolled
  BY AccountTimes, AccountMoves
<1> QED BY <1>1, AccountMoves, ChangeTimes

LEMMA BeginLoginTimes ==
    ASSUME RequestInv, NEW q \in Request, BeginLogin(q), UNCHANGED scene
    PROVE  RequestInv'
<1>1. PICK multi \in BOOLEAN :
        Reads(q, [Idle EXCEPT !.pc = "state", !.at = now,
                              !.attrs = [NoAttrs EXCEPT !.multi = multi]])
  BY DEF BeginLogin
<1> DEFINE r == [Idle EXCEPT !.pc = "state", !.at = now,
                             !.attrs = [NoAttrs EXCEPT !.multi = multi]]
<1>2. now \in Nat /\ scene.lasts \in Nat /\ account.epoch \in Nat
  BY AccountTimes
<1>3. /\ r.pc = "state" /\ r.op = "login" /\ r.at = now /\ r.attrs.epoch = 0
  BY DEF Idle, NoAttrs
<1>4. [NoAttrs EXCEPT !.multi = multi] \in Attrs
  BY DEF NoAttrs, Attrs, NoLineage
<1>5. r \in RequestType
  BY <1>2, <1>4, IdleTimes DEF RequestType, Pc
<1>6. Reads(q, r)
  BY <1>1
<1> HIDE DEF r
<1>7. Formed(r, account.epoch) /\ TimelyRequest(r, now, account, enrolled, left)
  BY <1>2, <1>3, SMTT(30) DEF TimelyRequest, TimelyFlag, TimelyFactor, Formed
<1> QED BY <1>5, <1>6, <1>7, OwnRead

\* A request that has read the account lacks no flag set by then.
LEMMA ReadStateTimes ==
    ASSUME RequestInv, NEW q \in Request, ReadState(q), UNCHANGED scene
    PROVE  RequestInv'
<1> DEFINE r == req[q]
<1>1. /\ r \in RequestType /\ r.at \in Nat /\ r.at <= now /\ r.attrs \in Attrs
      /\ r.attrs.epoch \in Nat /\ r.attrs.must \in BOOLEAN /\ r.attrs.multi \in BOOLEAN
      /\ TimelyRequest(r, now, account, enrolled, left)
      /\ r.attrs.epoch <= account.epoch /\ Formed(r, account.epoch)
      /\ account.epoch \in Nat /\ account.epoch >= 1
  BY RequestTimes, AccountTimes, SMTT(30) DEF Epoch
<1>2. r.pc = "state" /\ account.disabled = 0 /\ now <= r.at + scene.lasts
  BY <1>1 DEF ReadState, TimelyRequest
<1>3. ASSUME NEW s \in RequestType, NEW a \in Attrs, s.at = r.at, s.attrs = a, s.pc # "idle", Reads(q, s),
             s.op = r.op, a.epoch = account.epoch, s.op = "login" => s.pc = "factors",
             TimelyFlag(s, account.must), \A f \in Factor : TimelyFactor(s, f, enrolled[f])
      PROVE  RequestInv'
  <2>1. TimelyRequest(s, now, account, enrolled, left)
    BY <1>1, <1>2, <1>3 DEF TimelyRequest, Suspended
  <2>2. Formed(s, account.epoch)
    BY <1>1, <1>3, SMTT(30) DEF Formed
  <2> QED BY <1>3, <2>1, <2>2, OwnRead
<1>4. ASSUME NEW a \in Attrs, ~a.must => account.must = 0, r.op \in {"login", "resume", "reauth"},
             a.epoch = account.epoch,
             Reads(q, [r EXCEPT !.pc = "factors", !.unread = Factor, !.attrs = a])
      PROVE  RequestInv'
  <2> DEFINE s == [r EXCEPT !.pc = "factors", !.unread = Factor, !.attrs = a]
  <2>1. /\ s.at = r.at /\ s.attrs = a /\ s.pc = "factors" /\ s.op = r.op /\ s.unread = Factor
    BY <1>1 DEF RequestType
  <2>2. s \in RequestType /\ Reads(q, s)
    BY <1>1, <1>4 DEF RequestType, Pc
  <2> HIDE DEF s
  <2>3. TimelyFlag(s, account.must) /\ \A f \in Factor : TimelyFactor(s, f, enrolled[f])
    BY <1>4, <2>1 DEF TimelyFlag, TimelyFactor
  <2> QED BY <1>3, <1>4, <2>1, <2>2, <2>3
<1>5. CASE r.op = "login" /\ Reads(q, [r EXCEPT !.pc = "factors", !.unread = Factor,
                                                !.attrs = AdmitAttrs(r.attrs)])
  <2>1. /\ AdmitAttrs(r.attrs) \in Attrs /\ AdmitAttrs(r.attrs).must = (account.must # 0)
        /\ AdmitAttrs(r.attrs).epoch = account.epoch
    BY <1>1 DEF AdmitAttrs, Attrs, MustChange
  <2> QED BY <1>4, <1>5, <2>1
<1>6. CASE /\ r.op \in {"resume", "reauth"} /\ account.epoch = r.attrs.epoch
           /\ Reads(q, [r EXCEPT !.pc = "factors", !.unread = Factor, !.attrs = RenewAttrs(r.attrs)])
  <2>1. /\ RenewAttrs(r.attrs) \in Attrs
        /\ RenewAttrs(r.attrs).must = (r.attrs.must \/ account.must # 0)
        /\ RenewAttrs(r.attrs).epoch = r.attrs.epoch
    BY <1>1 DEF RenewAttrs, Attrs, MustChange
  <2> QED BY <1>4, <1>6, <2>1
<1>7. ASSUME r.op \in {"password", "enrol"}, NEW a \in Attrs, a.epoch = account.epoch,
             a = IF r.op = "enrol" THEN FactorEnrolledAttrs(r.attrs)
                 ELSE PasswordChangedAttrs(r.attrs),
             Reads(q, [r EXCEPT !.pc = "reissue", !.attrs = a])
      PROVE  RequestInv'
  <2> DEFINE s == [r EXCEPT !.pc = "reissue", !.attrs = a]
  <2>1. /\ s.at = r.at /\ s.attrs = a /\ s.pc = "reissue" /\ s.op = r.op
    BY <1>1 DEF RequestType
  <2>4. s \in RequestType /\ Reads(q, s)
    BY <1>1, <1>7 DEF RequestType, Pc
  <2> HIDE DEF s
  <2>2. CASE r.op = "enrol"
    <3>1. a.multi = TRUE /\ a.must = (r.attrs.must \/ account.must # 0)
      BY <1>1, <1>7, <2>2 DEF FactorEnrolledAttrs, Attrs, MustChange
    <3>2. TimelyFlag(s, account.must) /\ \A f \in Factor : TimelyFactor(s, f, enrolled[f])
      BY <2>1, <2>2, <3>1 DEF TimelyFlag, TimelyFactor
    <3> QED BY <1>3, <1>7, <2>1, <2>4, <3>2
  <2>3. CASE r.op = "password"
    <3>1. a.multi = r.attrs.multi
      BY <1>1, <1>7, <2>3 DEF PasswordChangedAttrs, Attrs
    <3>2. TimelyFlag(r, account.must) /\ \A f \in Factor : TimelyFactor(r, f, enrolled[f])
      BY <1>1 DEF TimelyRequest
    <3>3. TimelyFlag(s, account.must) /\ \A f \in Factor : TimelyFactor(s, f, enrolled[f])
      BY <1>2, <2>1, <2>3, <3>1, <3>2 DEF TimelyFlag, TimelyFactor
    <3> QED BY <1>3, <1>7, <2>1, <2>4, <3>3
  <2> QED BY <1>7, <2>2, <2>3
<1>8. CASE /\ r.op \in {"password", "enrol"}
           /\ Reads(q, [r EXCEPT !.pc = "reissue",
                            !.attrs = IF r.op = "enrol" THEN FactorEnrolledAttrs(r.attrs)
                                      ELSE PasswordChangedAttrs(r.attrs)])
  <2> DEFINE a == IF r.op = "enrol" THEN FactorEnrolledAttrs(r.attrs)
                  ELSE PasswordChangedAttrs(r.attrs)
  <2>1. a \in Attrs /\ a.epoch = account.epoch
    BY <1>1 DEF FactorEnrolledAttrs, PasswordChangedAttrs, Attrs, MustChange
  <2> HIDE DEF a
  <2> QED BY <1>7, <1>8, <2>1 DEF a
<1> QED BY <1>5, <1>6, <1>8 DEF ReadState

LEMMA ReadFactorTimes ==
    ASSUME RequestInv, NEW q \in Request, ReadFactor(q), UNCHANGED scene
    PROVE  RequestInv'
<1> DEFINE r == req[q]
<1>1. PICK g \in r.unread : Reads(q, [r EXCEPT !.unread = r.unread \ {g},
                                               !.required = r.required \/ enrolled[g] # 0])
  BY DEF ReadFactor
<1> DEFINE s == [r EXCEPT !.unread = r.unread \ {g}, !.required = r.required \/ enrolled[g] # 0]
<1>2. /\ r \in RequestType /\ r.required \in BOOLEAN /\ r.pc = "factors"
      /\ TimelyRequest(r, now, account, enrolled, left) /\ Formed(r, account.epoch)
      /\ r.unread \in SUBSET Factor
  BY RequestTimes DEF ReadFactor, RequestType
<1>3. /\ s.at = r.at /\ s.attrs = r.attrs /\ s.pc = "factors" /\ s.op = r.op
      /\ s.unread = r.unread \ {g} /\ s.required = (r.required \/ enrolled[g] # 0)
  BY <1>2 DEF RequestType
<1>4. s \in RequestType /\ Reads(q, s)
  BY <1>1, <1>2 DEF RequestType
<1> HIDE DEF s
<1>5. TimelyFlag(s, account.must)
  BY <1>2, <1>3 DEF TimelyRequest, TimelyFlag
<1>6. ASSUME NEW f \in Factor
      PROVE  TimelyFactor(s, f, enrolled[f])
  <2>1. TimelyFactor(r, f, enrolled[f])
    BY <1>2 DEF TimelyRequest
  <2>2. f \notin s.unread /\ ~s.required => enrolled[f] = 0 \/ (f \notin r.unread /\ ~r.required)
    BY <1>2, <1>3
  <2> QED BY <1>2, <1>3, <2>1, <2>2 DEF TimelyFactor
<1>7. TimelyRequest(s, now, account, enrolled, left)
  BY <1>2, <1>3, <1>5, <1>6 DEF TimelyRequest
<1>8. Formed(s, account.epoch)
  BY <1>2, <1>3 DEF Formed
<1> QED BY <1>4, <1>7, <1>8, OwnRead

LEMMA ProceedTimes ==
    ASSUME RequestInv, NEW q \in Request, Proceed(q), UNCHANGED scene
    PROVE  RequestInv'
<1> DEFINE r == req[q]
<1>1. /\ r \in RequestType /\ r.pc = "answered" /\ r.op # "login"
      /\ TimelyRequest(r, now, account, enrolled, left) /\ Formed(r, account.epoch)
  BY RequestTimes DEF Proceed, Formed
<1>2. ASSUME NEW s \in RequestType, s.at = r.at, s.attrs = r.attrs, Reads(q, s),
             \/ s.pc = "state" /\ s.op = "reauth"
             \/ s.pc = "factors" /\ s.op \in {"password", "enrol", "remove"} /\ s.unread = Factor
      PROVE  RequestInv'
  <2>1. TimelyFlag(s, account.must) /\ \A f \in Factor : TimelyFactor(s, f, enrolled[f])
    BY <1>2 DEF TimelyFlag, TimelyFactor
  <2>2. TimelyRequest(s, now, account, enrolled, left)
    BY <1>1, <1>2, <2>1 DEF TimelyRequest
  <2>3. Formed(s, account.epoch)
    BY <1>1, <1>2 DEF Formed
  <2> QED BY <1>2, <2>2, <2>3, OwnRead
<1>3. CASE Reads(q, [r EXCEPT !.pc = "state", !.op = "reauth"])
  <2> DEFINE s == [r EXCEPT !.pc = "state", !.op = "reauth"]
  <2>1. s.at = r.at /\ s.attrs = r.attrs /\ s.pc = "state" /\ s.op = "reauth"
    BY <1>1 DEF RequestType
  <2>2. s \in RequestType /\ Reads(q, s)
    BY <1>1, <1>3 DEF RequestType, Pc, Op
  <2> HIDE DEF s
  <2> QED BY <1>2, <2>1, <2>2
<1>4. ASSUME NEW op \in {"password", "enrol", "remove"}, NEW f \in Factor,
             Reads(q, [r EXCEPT !.pc = "factors", !.op = op, !.factor = f, !.unread = Factor])
      PROVE  RequestInv'
  <2> DEFINE s == [r EXCEPT !.pc = "factors", !.op = op, !.factor = f, !.unread = Factor]
  <2>1. s.at = r.at /\ s.attrs = r.attrs /\ s.pc = "factors" /\ s.op = op /\ s.unread = Factor
    BY <1>1 DEF RequestType
  <2>2. s \in RequestType /\ Reads(q, s)
    BY <1>1, <1>4 DEF RequestType, Pc, Op
  <2> HIDE DEF s
  <2> QED BY <1>2, <1>4, <2>1, <2>2
<1> QED BY <1>3, <1>4 DEF Proceed

\* The request's own change of the account, and what it goes on as.
LEMMA ApplyChangeMoves ==
    ASSUME RequestInv, NEW q \in Request, ApplyChange(q)
    PROVE  /\ now' = now /\ enrolled' = enrolled /\ admitted' = admitted /\ issued' = issued
           /\ account' \in AccountType /\ left' \in [Epoch -> Nat] /\ kept' \in [Epoch -> Nat]
           /\ Moved(now, account, enrolled, left, account', enrolled', left')
           /\ Cleared(q, req[q].op, req[q].attrs.multi)
           /\ req[q].op \in {"password", "enrol", "remove"}
           /\ \E pc \in {"state", "factor_write"} :
                /\ Goto(q, [req[q] EXCEPT !.required = FALSE, !.pc = pc])
                /\ pc = "state" => account'.must = 0
<1> DEFINE o == req[q]
           r == [o EXCEPT !.required = FALSE]
           a == account'
<1>1. /\ o \in RequestType /\ o.attrs.lineage \in Nat /\ r.op = o.op /\ r.attrs = o.attrs
      /\ \A pc \in Pc : [r EXCEPT !.pc = pc] = [o EXCEPT !.required = FALSE, !.pc = pc]
  BY RequestTimes DEF RequestType
<1>2. /\ account \in AccountType /\ now \in Nat /\ NoLineage \in Nat
  BY AccountTimes DEF NoLineage
<1>3. now' = now /\ enrolled' = enrolled /\ admitted' = admitted /\ issued' = issued
  BY DEF ApplyChange
<1>4. ASSUME NEW l \in Nat, SetPassword(l, FALSE)
      PROVE  /\ Moved(now, account, enrolled, left, account', enrolled', left')
             /\ account'.must = 0 /\ account' \in AccountType
             /\ left' \in [Epoch -> Nat] /\ kept' \in [Epoch -> Nat]
  <2>0. Bump(l)
    BY <1>4 DEF SetPassword
  <2>1. /\ account'.must = 0 /\ account'.epoch = account.epoch + 1
        /\ account'.disabled = account.disabled
    BY <1>2, <1>4 DEF SetPassword, AccountType
  <2>2. account' \in AccountType
    BY <1>2, <1>4, <2>0, BumpTimes DEF SetPassword, AccountType
  <2> QED BY <1>3, <2>0, <2>1, <2>2, BumpTimes DEF Moved
<1>5. ASSUME NEW l \in Nat, BumpEpoch(l)
      PROVE  /\ Moved(now, account, enrolled, left, account', enrolled', left')
             /\ account' \in AccountType /\ left' \in [Epoch -> Nat] /\ kept' \in [Epoch -> Nat]
  <2>0. Bump(l)
    BY <1>5 DEF BumpEpoch
  <2>1. /\ account'.must = account.must /\ account'.epoch = account.epoch + 1
        /\ account'.disabled = account.disabled
    BY <1>2, <1>5 DEF BumpEpoch, AccountType
  <2>2. account' \in AccountType
    BY <1>2, <1>5, <2>0, BumpTimes DEF BumpEpoch, AccountType
  <2> QED BY <1>3, <2>0, <2>1, <2>2, BumpTimes DEF Moved
<1>6. /\ Cleared(q, r.op, r.attrs.multi)
      /\ \/ /\ r.op = "password" /\ SetPassword(r.attrs.lineage, FALSE)
            /\ Goto(q, [r EXCEPT !.pc = "state"])
         \/ /\ r.op \in {"enrol", "remove"}
            /\ BumpEpoch(r.attrs.lineage) \/ BumpEpoch(NoLineage)
            /\ Goto(q, [r EXCEPT !.pc = "factor_write"])
  BY DEF ApplyChange
<1> HIDE DEF r
<1>7. CASE /\ r.op = "password" /\ SetPassword(r.attrs.lineage, FALSE)
           /\ Goto(q, [r EXCEPT !.pc = "state"])
  <2>1. Goto(q, [o EXCEPT !.required = FALSE, !.pc = "state"])
    BY <1>1, <1>7 DEF Pc
  <2> QED BY <1>1, <1>3, <1>4, <1>6, <1>7, <2>1
<1>8. CASE /\ r.op \in {"enrol", "remove"}
           /\ BumpEpoch(r.attrs.lineage) \/ BumpEpoch(NoLineage)
           /\ Goto(q, [r EXCEPT !.pc = "factor_write"])
  <2>1. Goto(q, [o EXCEPT !.required = FALSE, !.pc = "factor_write"])
    BY <1>1, <1>8 DEF Pc
  <2> QED BY <1>1, <1>2, <1>3, <1>5, <1>6, <1>8, <2>1
<1> QED BY <1>6, <1>7, <1>8

LEMMA ApplyChangeTimes ==
    ASSUME RequestInv, NEW q \in Request, ApplyChange(q), UNCHANGED scene
    PROVE  RequestInv'
<1> DEFINE o == req[q]
<1>1. PICK pc \in {"state", "factor_write"} :
        /\ Goto(q, [o EXCEPT !.required = FALSE, !.pc = pc])
        /\ pc = "state" => account'.must = 0
  BY ApplyChangeMoves
<1> DEFINE s == [o EXCEPT !.required = FALSE, !.pc = pc]
<1>2. /\ o \in RequestType /\ o.attrs.epoch \in Nat /\ o.attrs.epoch <= account.epoch
      /\ o.pc = "factors" /\ o.unread = {} /\ (o.required => o.attrs.multi)
      /\ o.op \in {"password", "enrol", "remove"} /\ Formed(o, account.epoch)
      /\ TimelyRequest(o, now, account, enrolled, left)
  BY ApplyChangeMoves, RequestTimes DEF Cleared
<1>3. /\ account \in AccountType /\ account' \in AccountType /\ account.epoch \in Nat
      /\ enrolled \in [Factor -> Nat] /\ enrolled' = enrolled
      /\ left \in [Epoch -> Nat] /\ left' \in [Epoch -> Nat]
      /\ now \in Nat /\ scene.lasts \in Nat /\ \A e \in Epoch : left[e] <= now
      /\ Moved(now, account, enrolled, left, account', enrolled', left')
  BY AccountTimes, ApplyChangeMoves
<1>4. /\ s.at = o.at /\ s.attrs = o.attrs /\ s.op = o.op /\ s.pc = pc
      /\ s \in RequestType /\ Goto(q, s)
  BY <1>1, <1>2 DEF RequestType, Pc
<1> HIDE DEF s
<1>5. TimelyRequest(o, now, account', enrolled', left')
  BY <1>2, <1>3, RequestKept DEF Formed
<1>6. TimelyFlag(s, account'.must)
  BY <1>1, <1>4 DEF TimelyFlag
<1>7. \A f \in Factor : TimelyFactor(s, f, enrolled'[f])
  BY <1>2, <1>3, <1>4 DEF TimelyFactor, TimelyRequest
<1>8. TimelyRequest(s, now, account', enrolled', left')
  BY <1>2, <1>4, <1>5, <1>6, <1>7 DEF TimelyRequest
<1>9. account'.epoch \in {account.epoch, account.epoch + 1}
  BY <1>3 DEF Moved
<1>10. Formed(s, account'.epoch)
  BY <1>2, <1>3, <1>4, <1>9, SMTT(30) DEF Formed
<1> QED BY <1>3, <1>4, <1>8, <1>10, ApplyChangeMoves, ChangeTimes

\* What the write or removal of a factor changes.
LEMMA WriteFactorMoves ==
    ASSUME RequestInv, NEW q \in Request, WriteFactor(q)
    PROVE  /\ now' = now /\ account' = account /\ left' = left /\ kept' = kept
           /\ admitted' = admitted /\ issued' = issued /\ enrolled' \in [Factor -> Nat]
           /\ Moved(now, account, enrolled, left, account', enrolled', left')
           /\ req[q].pc = "factor_write"
           /\ \/ req[q].op = "enrol" /\ Goto(q, [req[q] EXCEPT !.pc = "state"])
              \/ Goto(q, Idle)
<1>1. /\ now' = now /\ account' = account /\ left' = left /\ kept' = kept /\ admitted' = admitted
      /\ issued' = issued /\ req[q].pc = "factor_write"
  BY DEF WriteFactor
<1>2. enrolled \in [Factor -> Nat] /\ req[q].factor \in Factor /\ now \in Nat
  BY RequestTimes, AccountTimes
<1>3. \/ /\ req[q].op = "enrol" /\ Goto(q, [req[q] EXCEPT !.pc = "state"])
         /\ enrolled' = [enrolled EXCEPT ![req[q].factor] =
                            IF enrolled[req[q].factor] = 0 THEN now ELSE enrolled[req[q].factor]]
      \/ enrolled' = [enrolled EXCEPT ![req[q].factor] = 0] /\ Goto(q, Idle)
  BY DEF WriteFactor
<1>4. /\ enrolled' \in [Factor -> Nat]
      /\ \A f \in Factor : enrolled'[f] \in {enrolled[f], 0, now}
  BY <1>2, <1>3, SMTT(30)
<1>5. Moved(now, account, enrolled, left, account', enrolled', left')
  BY <1>1, <1>4 DEF Moved
<1> QED BY <1>1, <1>3, <1>4, <1>5

\* It keeps the invariant of requests.
LEMMA WriteFactorTimes ==
    ASSUME RequestInv, NEW q \in Request, WriteFactor(q), UNCHANGED scene
    PROVE  RequestInv'
<1> DEFINE r == req[q]
           s == [r EXCEPT !.pc = "state"]
<1>1. /\ r \in RequestType /\ r.pc = "factor_write" /\ Formed(r, account.epoch)
      /\ r.attrs.epoch <= account.epoch
      /\ TimelyRequest(r, now, account, enrolled, left)
  BY RequestTimes, WriteFactorMoves
<1>2. /\ account \in AccountType /\ account' = account /\ account.epoch \in Nat
      /\ enrolled \in [Factor -> Nat] /\ enrolled' \in [Factor -> Nat]
      /\ left \in [Epoch -> Nat] /\ left' = left /\ kept \in [Epoch -> Nat] /\ kept' = kept
      /\ now \in Nat /\ scene.lasts \in Nat /\ \A e \in Epoch : left[e] <= now
      /\ Moved(now, account, enrolled, left, account', enrolled', left')
  BY AccountTimes, WriteFactorMoves
<1>3. /\ s.at = r.at /\ s.attrs = r.attrs /\ s.op = r.op /\ s.pc = "state"
      /\ s \in RequestType
  BY <1>1 DEF RequestType, Pc
<1> HIDE DEF s
<1>4. CASE r.op = "enrol" /\ Goto(q, s)
  <2>1. TimelyRequest(r, now, account', enrolled', left')
    BY <1>1, <1>2, RequestKept DEF Formed
  <2>2. TimelyFlag(s, account'.must) /\ \A f \in Factor : TimelyFactor(s, f, enrolled'[f])
    BY <1>3, <1>4 DEF TimelyFlag, TimelyFactor
  <2>3. TimelyRequest(s, now, account', enrolled', left')
    BY <1>1, <1>3, <1>4, <2>1, <2>2 DEF TimelyRequest
  <2>4. Formed(s, account'.epoch)
    BY <1>1, <1>2, <1>3, <1>4 DEF Formed
  <2> QED BY <1>2, <1>3, <1>4, <2>3, <2>4, WriteFactorMoves, ChangeTimes
<1>5. CASE Goto(q, Idle)
  <2>1. Idle \in RequestType /\ Formed(Idle, account'.epoch)
    BY <1>2, IdleTimes
  <2>2. Idle.pc = "idle" /\ Idle.op = "login" /\ Idle.at = 0 /\ Idle.attrs.epoch = 0
    BY DEF Idle, NoAttrs
  <2>3. TimelyRequest(Idle, now, account', enrolled', left')
    BY <1>2, <2>2, SMTT(30) DEF TimelyRequest, TimelyFlag, TimelyFactor
  <2> QED BY <1>2, <1>5, <2>1, <2>3, WriteFactorMoves, ChangeTimes
<1> QED BY <1>4, <1>5, WriteFactorMoves DEF s

\* The steps that the backends share keep RequestInv.
LEMMA SharedTimes ==
    ASSUME RequestInv, UNCHANGED scene,
           Tick \/ AccountStep \/ \E q \in Request : RequestStep(q)
    PROVE  RequestInv'
<1>1. ASSUME NEW q \in Request, Abandon(q)
      PROVE  RequestInv'
  <2>1. Reads(q, Idle)
    BY <1>1 DEF Abandon
  <2> QED BY <2>1, IdleTimes, OwnRead
<1> QED BY <1>1, TickTimes, AccountStepTimes, BeginLoginTimes, ReadStateTimes, ReadFactorTimes,
        ProceedTimes, ApplyChangeTimes, WriteFactorTimes DEF RequestStep

\* What a shared step of a request does to it: it is a login or it ends, or it goes on
\* with the session it resumed.
GoesOn(r, s) ==
    \/ s = r
    \/ s.op = "login"
    \/ /\ r.op # "login" /\ s.op # "login"
       /\ s.id = r.id /\ s.token = r.token /\ s.at = r.at /\ s.attrs.lineage = r.attrs.lineage
       /\ s.op = "resume" => r.op = "resume" /\ s.attrs.multi = r.attrs.multi

\* What a shared step other than Tick does to the rest of the state.
LEMMA SharedMoves ==
    ASSUME RequestInv, AccountStep \/ \E q \in Request : RequestStep(q)
    PROVE  /\ now' = now /\ admitted' = admitted /\ issued' = issued
           /\ Moved(now, account, enrolled, left, account', enrolled', left')
           /\ \A p \in Request : GoesOn(req[p], req'[p])
<1>1. CASE AccountStep
  BY <1>1, AccountMoves DEF GoesOn
<1>2. ASSUME NEW q \in Request, RequestStep(q)
      PROVE  /\ now' = now /\ admitted' = admitted /\ issued' = issued
             /\ Moved(now, account, enrolled, left, account', enrolled', left')
             /\ \A p \in Request : GoesOn(req[p], req'[p])
  <2> DEFINE r == req[q]
  <2>1. r \in RequestType /\ r.attrs \in Attrs /\ req \in [Request -> RequestType]
        /\ Formed(r, account.epoch)
    BY RequestTimes DEF RequestInv, StateType
  <2>2. ASSUME NEW s, Goto(q, s), GoesOn(r, s)
        PROVE  \A p \in Request : GoesOn(req[p], req'[p])
    BY <2>1, <2>2 DEF Goto, GoesOn
  <2>3. ASSUME NEW s, Reads(q, s)
        PROVE  /\ now' = now /\ admitted' = admitted /\ issued' = issued /\ Goto(q, s)
               /\ Moved(now, account, enrolled, left, account', enrolled', left')
    BY <2>3 DEF Reads, accountVars, Moved
  <2>4. GoesOn(r, Idle)
    BY DEF GoesOn, Idle
  <2>5. CASE BeginLogin(q)
    <3>1. PICK multi \in BOOLEAN :
            Reads(q, [Idle EXCEPT !.pc = "state", !.at = now,
                                  !.attrs = [NoAttrs EXCEPT !.multi = multi]])
      BY <2>5 DEF BeginLogin
    <3> DEFINE s == [Idle EXCEPT !.pc = "state", !.at = now,
                                 !.attrs = [NoAttrs EXCEPT !.multi = multi]]
    <3>2. GoesOn(r, s)
      BY DEF GoesOn, Idle
    <3> HIDE DEF s
    <3> QED BY <2>2, <2>3, <3>1, <3>2 DEF s
  <2>6. CASE Abandon(q)
    BY <2>2, <2>3, <2>4, <2>6 DEF Abandon
  <2>7. CASE ReadState(q)
    <3>1. ASSUME NEW pc, NEW u, NEW a, a.lineage = r.attrs.lineage,
                 r.op = "resume" => a.multi = r.attrs.multi
          PROVE  /\ GoesOn(r, [r EXCEPT !.pc = pc, !.unread = u, !.attrs = a])
                 /\ GoesOn(r, [r EXCEPT !.pc = pc, !.attrs = a])
      <4>1. r.op = "login" \/ r.op # "login"
        BY SMTT(30)
      <4> QED BY <2>1, <3>1, <4>1 DEF RequestType, GoesOn
    <3>2. /\ AdmitAttrs(r.attrs).lineage = r.attrs.lineage
          /\ RenewAttrs(r.attrs).lineage = r.attrs.lineage
          /\ FactorEnrolledAttrs(r.attrs).lineage = r.attrs.lineage
          /\ PasswordChangedAttrs(r.attrs).lineage = r.attrs.lineage
          /\ RenewAttrs(r.attrs).multi = r.attrs.multi
      BY <2>1 DEF AdmitAttrs, RenewAttrs, FactorEnrolledAttrs, PasswordChangedAttrs, Attrs
    <3>3. PICK pc, a : /\ \/ Reads(q, [r EXCEPT !.pc = pc, !.unread = Factor, !.attrs = a])
                          \/ Reads(q, [r EXCEPT !.pc = pc, !.attrs = a])
                       /\ a \in {AdmitAttrs(r.attrs), RenewAttrs(r.attrs),
                                 FactorEnrolledAttrs(r.attrs), PasswordChangedAttrs(r.attrs)}
                       /\ r.op = "resume" => a = RenewAttrs(r.attrs)
      BY <2>7 DEF ReadState
    <3>4. a.lineage = r.attrs.lineage /\ (r.op = "resume" => a.multi = r.attrs.multi)
      BY <3>2, <3>3
    <3> DEFINE s1 == [r EXCEPT !.pc = pc, !.unread = Factor, !.attrs = a]
               s2 == [r EXCEPT !.pc = pc, !.attrs = a]
    <3>5. GoesOn(r, s1) /\ GoesOn(r, s2)
      BY <3>1, <3>4
    <3>6. Reads(q, s1) \/ Reads(q, s2)
      BY <3>3
    <3> HIDE DEF s1, s2
    <3> QED BY <2>2, <2>3, <3>5, <3>6
  <2>8. CASE ReadFactor(q)
    <3>1. PICK f : Reads(q, [r EXCEPT !.unread = r.unread \ {f},
                                      !.required = r.required \/ enrolled[f] # 0])
      BY <2>8 DEF ReadFactor
    <3> DEFINE s == [r EXCEPT !.unread = r.unread \ {f}, !.required = r.required \/ enrolled[f] # 0]
    <3>2. GoesOn(r, s)
      BY <2>1 DEF RequestType, GoesOn
    <3> HIDE DEF s
    <3> QED BY <2>2, <2>3, <3>1, <3>2 DEF s
  <2>9. CASE Proceed(q)
    <3>1. r.op # "login"
      BY <2>1, <2>9 DEF Proceed, Formed
    <3>2. \/ Reads(q, [r EXCEPT !.pc = "state", !.op = "reauth"])
          \/ \E op \in {"password", "enrol", "remove"}, f \in Factor :
               Reads(q, [r EXCEPT !.pc = "factors", !.op = op, !.factor = f, !.unread = Factor])
      BY <2>9 DEF Proceed
    <3>3. PICK s : Reads(q, s) /\ GoesOn(r, s)
      <4>1. CASE Reads(q, [r EXCEPT !.pc = "state", !.op = "reauth"])
        <5>1. GoesOn(r, [r EXCEPT !.pc = "state", !.op = "reauth"])
          BY <2>1, <3>1 DEF RequestType, GoesOn
        <5> QED BY <4>1, <5>1
      <4>2. ASSUME NEW op \in {"password", "enrol", "remove"}, NEW f \in Factor,
                   Reads(q, [r EXCEPT !.pc = "factors", !.op = op, !.factor = f, !.unread = Factor])
            PROVE  \E s : Reads(q, s) /\ GoesOn(r, s)
        <5>1. GoesOn(r, [r EXCEPT !.pc = "factors", !.op = op, !.factor = f, !.unread = Factor])
          BY <2>1, <3>1 DEF RequestType, GoesOn
        <5> QED BY <4>2, <5>1
      <4> QED BY <3>2, <4>1, <4>2
    <3> QED BY <2>2, <2>3, <3>3
  <2>10. CASE ApplyChange(q)
    <3>1. PICK pc : Goto(q, [r EXCEPT !.required = FALSE, !.pc = pc])
      BY <2>10, ApplyChangeMoves
    <3> DEFINE s == [r EXCEPT !.required = FALSE, !.pc = pc]
    <3>2. GoesOn(r, s)
      BY <2>1 DEF RequestType, GoesOn
    <3>3. Goto(q, s)
      BY <3>1
    <3> HIDE DEF s
    <3> QED BY <2>2, <2>10, <3>2, <3>3, ApplyChangeMoves
  <2>11. CASE WriteFactor(q)
    <3> DEFINE s == [r EXCEPT !.pc = "state"]
    <3>1. GoesOn(r, s)
      BY <2>1 DEF RequestType, GoesOn
    <3>2. Goto(q, s) \/ Goto(q, Idle)
      BY <2>11, WriteFactorMoves
    <3> HIDE DEF s
    <3> QED BY <2>2, <2>4, <2>11, <3>1, <3>2, WriteFactorMoves
  <2> QED BY <1>2, <2>5, <2>6, <2>7, <2>8, <2>9, <2>10, <2>11 DEF RequestStep
<1> QED BY <1>1, <1>2

\* Idle requests satisfy the invariant.
LEMMA InitTimes == InitRequests => RequestInv
<1> SUFFICES ASSUME InitRequests PROVE RequestInv
  BY SMTT(30)
<1>1. /\ scene \in Scenario /\ now = 1 /\ account = [epoch |-> 1, disabled |-> 0, must |-> 0]
      /\ req = [q \in Request |-> Idle] /\ left = [e \in Epoch |-> 0]
      /\ kept = [e \in Epoch |-> 0] /\ enrolled = [f \in Factor |-> 0]
      /\ admitted = <<>> /\ issued = 0
  BY DEF InitRequests, NoLineage
<1>2. (CHOOSE f \in Factor : TRUE) \in Factor
  BY TimeAssumption
<1>3. Idle \in RequestType
  BY <1>2 DEF Idle, NoAttrs, RequestType, Attrs, Pc, Op, NoId, NoLineage
<1>4. 1 \in Epoch
  BY TimeAssumption, SMTT(30) DEF Epoch
<1>5. admitted \in Seq([at : Nat, epoch : Nat]) /\ Len(admitted) <= MaxLogins
  BY <1>1, TimeAssumption, SMTT(30)
<1>6. StateType
  BY <1>1, <1>3, <1>4, <1>5 DEF StateType
<1>7. Idle.pc = "idle" /\ Idle.op = "login" /\ Idle.at = 0 /\ Idle.attrs.epoch = 0
  BY DEF Idle, NoAttrs
<1>8. Formed(Idle, account.epoch) /\ TimelyRequest(Idle, now, account, enrolled, left)
  BY <1>1, <1>7, SMTT(30) DEF Formed, TimelyRequest, TimelyFlag, TimelyFactor
<1> QED BY <1>1, <1>6, <1>8, SMTT(30) DEF RequestInv

\* The factors phase ends: what the account asked for then, at the latest.
LEMMA ClearedTimes ==
    ASSUME RequestInv, NEW q \in Request, NEW op, NEW multi, Cleared(q, op, multi)
    PROVE  /\ req[q].pc = "factors" /\ req[q].op = op
           /\ op \in {"login", "resume", "reauth"} /\ ~req[q].attrs.must =>
                account.must = 0 \/ req[q].at <= account.must
           /\ \A f \in Factor : ~multi /\ ~req[q].attrs.multi =>
                enrolled[f] = 0 \/ req[q].at <= enrolled[f]
           /\ req[q].attrs.epoch >= 1
<1>1. /\ req[q].pc = "factors" /\ req[q].op = op /\ req[q].unread = {} /\ (req[q].required => multi)
  BY DEF Cleared
<1>2. /\ TimelyFlag(req[q], account.must) /\ \A f \in Factor : TimelyFactor(req[q], f, enrolled[f])
  BY RequestTimes DEF TimelyRequest
<1>3. req[q].attrs.epoch >= 1
  BY <1>1, RequestTimes DEF Formed
<1>4. op \in {"login", "resume", "reauth"} /\ ~req[q].attrs.must =>
        account.must = 0 \/ req[q].at <= account.must
  BY <1>1, <1>2 DEF TimelyFlag
<1>5. ASSUME NEW f \in Factor, ~multi, ~req[q].attrs.multi
      PROVE  enrolled[f] = 0 \/ req[q].at <= enrolled[f]
  BY <1>1, <1>2, <1>5 DEF TimelyFactor
<1> QED BY <1>1, <1>3, <1>4, <1>5

\* What RequestInv means for the requests that are answered.
LEMMA AnsweredTimes == RequestInv => SecondFactorEnforced /\ ChangesEnforced
<1> SUFFICES ASSUME RequestInv PROVE SecondFactorEnforced /\ ChangesEnforced
  BY SMTT(30)
<1>1. ASSUME NEW q \in Request, Answered(q)
      PROVE  /\ req[q].pc = "answered" /\ req[q].op # "login" /\ req[q].attrs.epoch >= 1
             /\ req[q].attrs.epoch \in Nat /\ req[q].at \in Nat
             /\ TimelyRequest(req[q], now, account, enrolled, left)
  BY <1>1, RequestTimes DEF Answered, Formed
<1>2. SecondFactorEnforced
  BY <1>1 DEF SecondFactorEnforced, TimelyRequest, TimelyFactor
<1>3. MustChangeEnforced
  BY <1>1 DEF MustChangeEnforced, TimelyRequest, TimelyFlag
<1>4. ASSUME NEW q \in Request, Answered(q), account.disabled # 0
      PROVE  req[q].at < account.disabled + PollBound
  <2> DEFINE e == req[q].attrs.epoch
  <2>1. e < account.epoch /\ left[e] <= account.disabled
    BY <1>1, <1>4 DEF TimelyRequest, Suspended
  <2>2. e \in Epoch
    <3>1. account.epoch \in Epoch /\ MaxEpoch \in Nat /\ e \in Nat /\ e >= 1
      BY <1>1, <1>4, AccountTimes, TimeAssumption
    <3> QED BY <2>1, <3>1, SMTT(30) DEF Epoch
  <2>3. left[e] \in Nat /\ account.disabled \in Nat /\ account.epoch \in Nat /\ PollBound \in Nat
    BY <2>2, AccountTimes, TimeAssumption
  <2>4. e = account.epoch \/ req[q].at < left[e] + PollBound
    <3>1. /\ TimelyRequest(req[q], now, account, enrolled, left)
          /\ req[q].op # "login" /\ req[q].pc # "state"
      BY <1>1, <1>4
    <3> QED BY <3>1 DEF TimelyRequest
  <2> QED BY <1>1, <1>4, <2>1, <2>3, <2>4, SMTT(30)
<1> QED BY <1>2, <1>3, <1>4 DEF ChangesEnforced, DisabledEnds

\* A request is cleared with the factors of its own session.
LEMMA ClearedOwn ==
    ASSUME RequestInv, NEW q \in Request, NEW op \in {"login", "resume", "reauth"},
           Cleared(q, op, req[q].attrs.multi)
    PROVE  /\ req[q].pc = "factors" /\ req[q].op = op /\ req[q].attrs.epoch >= 1
           /\ ~req[q].attrs.must => account.must = 0 \/ req[q].at <= account.must
           /\ \A f \in Factor : ~req[q].attrs.multi => enrolled[f] = 0 \/ req[q].at <= enrolled[f]
BY ClearedTimes, SMTT(30)

\* A renewal is cleared, and answered.
LEMMA AnswerTimes ==
    ASSUME RequestInv, NEW q \in Request, Cleared(q, "resume", req[q].attrs.multi), NEW s,
           s = [req[q] EXCEPT !.pc = "answered", !.required = FALSE]
    PROVE  /\ s \in RequestType /\ Formed(s, account.epoch)
           /\ TimelyRequest(s, now, account, enrolled, left)
           /\ s.at = req[q].at /\ s.attrs = req[q].attrs /\ s.op = req[q].op /\ s.id = req[q].id
           /\ req[q].op = "resume" /\ GoesOn(req[q], s)
<1> DEFINE r == req[q]
<1>1. /\ r \in RequestType /\ r.attrs \in Attrs /\ r.at \in Nat
      /\ TimelyRequest(r, now, account, enrolled, left) /\ Formed(r, account.epoch)
  BY RequestTimes
<1>2. /\ s.at = r.at /\ s.attrs = r.attrs /\ s.op = r.op /\ s.pc = "answered" /\ s.id = r.id
      /\ s.token = r.token /\ s \in RequestType
  BY <1>1 DEF RequestType, Pc
<1>3. /\ r.pc = "factors" /\ r.op = "resume" /\ r.attrs.epoch >= 1
      /\ ~r.attrs.must => account.must = 0 \/ r.at <= account.must
      /\ \A g \in Factor : ~r.attrs.multi => enrolled[g] = 0 \/ r.at <= enrolled[g]
  BY ClearedTimes, SMTT(30)
<1>4. /\ scene.lasts \in Nat /\ account.must \in Nat /\ enrolled \in [Factor -> Nat]
      /\ RecheckEvery \in Nat \ {0}
  BY AccountTimes, TimeAssumption
<1> HIDE DEF r
<1>5. TimelyFlag(s, account.must)
  BY <1>1, <1>2, <1>3, <1>4, SMTT(30) DEF TimelyFlag
<1>6. ASSUME NEW g \in Factor
      PROVE  TimelyFactor(s, g, enrolled[g])
  <2>1. enrolled[g] \in Nat
    BY <1>4
  <2> QED BY <1>1, <1>2, <1>3, <1>4, <2>1, SMTT(30) DEF TimelyFactor
<1>7. TimelyRequest(s, now, account, enrolled, left) /\ Formed(s, account.epoch)
  BY <1>1, <1>2, <1>3, <1>5, <1>6 DEF TimelyRequest, Formed
<1>8. GoesOn(r, s)
  BY <1>2, <1>3 DEF GoesOn
<1> QED BY <1>2, <1>3, <1>7, <1>8 DEF r

=============================================================================
