----------------------- MODULE StatefulSessionsTheorems -----------------------
(***************************************************************************)
(* What the stateful backend promises, for every number of requests,       *)
(* sessions and epochs and every duration.                                 *)
(*                                                                         *)
(* It implements the contract of sessions: what each write of the store    *)
(* does to the session that the table of rows stands for, and the step of  *)
(* the contract that each action takes.  And no session goes on unaware of *)
(* a change of its account for longer than the bounds: the times of the    *)
(* rows, beside RequestInv of the requests.                                *)
(***************************************************************************)
EXTENDS StatefulContract, StatefulSessionsProofs, SessionRequestsProofs

\* Zenon proves the steps that name no prover; the SMT solver those with arithmetic.
USE Zenon

\* The lineages of the logins so far.
LEMMA InLineage ==
    ASSUME IInv, NEW k, k \in 1 .. Len(admitted)
    PROVE  k \in Lineage
<1>1. Len(admitted) <= MaxLogins /\ Len(admitted) \in Nat
  BY SMTT(30) DEF IInv, StateType
<1> QED BY <1>1, TimeAssumption, SMTT(30) DEF Lineage

-----------------------------------------------------------------------------
\* The times of the rows.

\* A row during a change of the account, or one of the same check and attributes.
LEMMA RowKept ==
    ASSUME NEW x \in Row, NEW y \in Row, NEW t \in Nat,
           NEW a1 \in AccountType, NEW a2 \in AccountType,
           NEW n1 \in [Factor -> Nat], NEW n2 \in [Factor -> Nat],
           NEW l1 \in [Epoch -> Nat], NEW l2 \in [Epoch -> Nat], scene.lasts \in Nat,
           Moved(t, a1, n1, l1, a2, n2, l2), \A e \in Epoch : l1[e] <= t,
           x.attrs.epoch \in 1 .. a1.epoch, TimelyRow(x, t, a1, n1, l1),
           y.attrs = x.attrs, y.checked = x.checked
    PROVE  TimelyRow(y, t, a2, n2, l2)
<1>1. /\ x.checked \in Nat /\ a1.epoch \in Epoch /\ a1.must \in Nat /\ a2.must \in Nat
      /\ MaxEpoch \in Nat
  BY TimeAssumption DEF Row, AccountType
<1>2. x.attrs.epoch \in Epoch /\ x.attrs.epoch <= a1.epoch
  BY <1>1, SMTT(30) DEF Epoch
<1>3. y.checked <= t
  BY DEF TimelyRow
<1>4. Suspended(y.attrs.epoch, a2, l2)
  <2>1. Suspended(x.attrs.epoch, a1, l1)
    BY DEF TimelyRow
  <2> QED BY <1>2, <2>1, SuspendedKept, SMTT(30)
<1>5. ~y.attrs.must /\ a2.must # 0 => y.checked <= a2.must + scene.lasts
  BY <1>1, SMTT(30) DEF TimelyRow, Moved
<1>6. ASSUME NEW f \in Factor
      PROVE  ~y.attrs.multi /\ n2[f] # 0 => y.checked <= n2[f] + scene.lasts
  <2>1. n1[f] \in Nat /\ n2[f] \in {n1[f], 0, t}
    BY DEF Moved
  <2>2. ~x.attrs.multi /\ n1[f] # 0 => x.checked <= n1[f] + scene.lasts
    BY DEF TimelyRow
  <2> QED BY <1>1, <1>3, <2>1, <2>2, SMTT(30)
<1> QED BY <1>3, <1>4, <1>5, <1>6 DEF TimelyRow

\* A step at one instant that changes the account and the rows.
LEMMA RowsStep ==
    ASSUME IInv, IInv', RequestInv, Timely, now' = now, scene' = scene,
           Moved(now, account, enrolled, left, account', enrolled', left'),
           \A i \in DOMAIN rows' :
               \/ /\ i \in DOMAIN rows
                  /\ rows'[i].attrs = rows[i].attrs /\ rows'[i].checked = rows[i].checked
               \/ TimelyRow(rows'[i], now, account', enrolled', left')
    PROVE  Timely'
<1>1. /\ account \in AccountType /\ account' \in AccountType
      /\ enrolled \in [Factor -> Nat] /\ enrolled' \in [Factor -> Nat]
      /\ left \in [Epoch -> Nat] /\ left' \in [Epoch -> Nat]
      /\ now \in Nat /\ scene.lasts \in Nat /\ \A e \in Epoch : left[e] <= now
      /\ account.epoch \in Nat
  BY AccountTimes DEF IInv, StateType, AccountType
<1>2. ASSUME NEW i \in DOMAIN rows'
      PROVE  TimelyRow(rows'[i], now, account', enrolled', left')
  <2>1. CASE /\ i \in DOMAIN rows
             /\ rows'[i].attrs = rows[i].attrs /\ rows'[i].checked = rows[i].checked
    <3>1. rows[i] \in Row /\ rows[i].attrs.epoch \in 1 .. account.epoch
      BY <2>1, AccountFacts DEF RowsOK
    <3>2. rows'[i] \in Row
      BY DEF IInv, RowsOK
    <3>3. TimelyRow(rows[i], now, account, enrolled, left)
      BY <2>1 DEF Timely
    <3> DEFINE x == rows[i]
               y == rows'[i]
    <3>4. x \in Row /\ y \in Row /\ y.attrs = x.attrs /\ y.checked = x.checked
      BY <2>1, <3>1, <3>2
    <3>5. x.attrs.epoch \in 1 .. account.epoch /\ TimelyRow(x, now, account, enrolled, left)
      BY <3>1, <3>3
    <3> HIDE DEF x, y
    <3>6. TimelyRow(y, now, account', enrolled', left')
      BY <1>1, <3>4, <3>5, RowKept
    <3> QED BY <3>6 DEF y
  <2> QED BY <2>1
<1>3. \A i \in DOMAIN rows' : TimelyRow(rows[i], now, account, enrolled, left)'
  BY <1>2 DEF TimelyRow, Suspended
<1> QED BY <1>3 DEF Timely

\* A step of request q, which goes on as r, that leaves the account alone.
LEMMA OwnTimely ==
    ASSUME IInv, IInv', RequestInv, Timely, NEW q \in Request, NEW r \in RequestType, Goto(q, r),
           UNCHANGED <<scene, now, accountVars>>,
           Formed(r, account.epoch), TimelyRequest(r, now, account, enrolled, left),
           \A i \in DOMAIN rows' :
               \/ /\ i \in DOMAIN rows
                  /\ rows'[i].attrs = rows[i].attrs /\ rows'[i].checked = rows[i].checked
               \/ TimelyRow(rows'[i], now, account, enrolled, left)
    PROVE  RequestInv' /\ Timely'
<1>1. /\ account' = account /\ enrolled' = enrolled /\ left' = left /\ now' = now /\ scene' = scene
  BY DEF accountVars
<1>2. Moved(now, account, enrolled, left, account', enrolled', left')
  BY <1>1 DEF Moved
<1>3. \A i \in DOMAIN rows' :
        \/ /\ i \in DOMAIN rows
           /\ rows'[i].attrs = rows[i].attrs /\ rows'[i].checked = rows[i].checked
        \/ TimelyRow(rows'[i], now, account', enrolled', left')
  BY <1>1
<1>4. issued' \in Nat /\ admitted' \in Seq([at : Nat, epoch : Nat]) /\ Len(admitted') <= MaxLogins
  BY DEF IInv, StateType
<1>5. RequestInv'
  BY <1>4, OwnStep
<1> QED BY <1>1, <1>2, <1>3, <1>5, RowsStep

\* A step that takes rows away, of a request that ends with it or of none.
LEMMA LeaveTimely ==
    ASSUME IInv, IInv', RequestInv, Timely, NEW S, rows' = Without(S),
           UNCHANGED <<scene, now, accountVars>>,
           \/ req' = req
           \/ \E q \in Request : Goto(q, Idle)
    PROVE  RequestInv' /\ Timely'
<1>1. \A i \in DOMAIN rows' :
        /\ i \in DOMAIN rows
        /\ rows'[i].attrs = rows[i].attrs /\ rows'[i].checked = rows[i].checked
  BY DEF Without
<1>2. CASE req' = req
  <2>1. Moved(now, account, enrolled, left, account', enrolled', left') /\ now' = now
    BY DEF Moved, accountVars
  <2>2. StateType'
    BY DEF IInv
  <2> QED BY <1>1, <1>2, <2>1, <2>2, RowsStep, RequestsStep
<1>3. CASE \E q \in Request : Goto(q, Idle)
  BY <1>1, <1>3, IdleTimes, OwnTimely
<1> QED BY <1>2, <1>3

\* The clock moves on.
LEMMA TickTimely ==
    ASSUME IInv, RequestInv, Timely, Tick, UNCHANGED <<rows, scene>>
    PROVE  Timely'
<1>1. /\ now' = now + 1 /\ account' = account /\ enrolled' = enrolled /\ left' = left
      /\ scene' = scene /\ rows' = rows
  BY DEF Tick, accountVars
<1>2. now \in Nat /\ scene.lasts \in Nat
  BY AccountTimes
<1>3. ASSUME NEW i \in DOMAIN rows'
      PROVE  TimelyRow(rows[i], now, account, enrolled, left)'
  <2>1. rows[i] \in Row /\ i \in DOMAIN rows
    BY <1>1, AccountFacts DEF RowsOK
  <2>2. rows[i].checked \in Nat
    BY <2>1 DEF Row
  <2>3. TimelyRow(rows[i], now, account, enrolled, left)
    BY <2>1 DEF Timely
  <2> QED BY <1>1, <1>2, <2>2, <2>3, SMTT(30) DEF TimelyRow, Suspended
<1> QED BY <1>3 DEF Timely

\* The steps of a request that read or write rows keep the invariant of instants.
LEMMA BeginResumeTimely ==
    ASSUME IInv, IInv', RequestInv, Timely, NEW q \in Request, BeginResume(q), UNCHANGED scene
    PROVE  RequestInv' /\ Timely'
<1>1. PICK i \in DOMAIN rows :
        /\ CheckEpoch(rows[i].attrs.epoch)
        /\ Reads(q, [Idle EXCEPT !.op = "resume", !.at = now, !.id = i, !.attrs = rows[i].attrs,
                         !.pc = IF now - rows[i].checked >= RecheckEvery THEN "state" ELSE "touch"])
  BY DEF BeginResume
<1> DEFINE x == rows[i]
           pc == IF now - x.checked >= RecheckEvery THEN "state" ELSE "touch"
           r == [Idle EXCEPT !.op = "resume", !.at = now, !.id = i, !.attrs = x.attrs, !.pc = pc]
<1>2. /\ x \in Row /\ TimelyRow(x, now, account, enrolled, left)
      /\ x.attrs.epoch \in 1 .. account.epoch
  BY AccountFacts DEF RowsOK, Timely
<1>3. x.checked \in Nat /\ x.attrs.epoch \in Nat
  BY <1>2 DEF Row, Attrs
<1>4. /\ r.op = "resume" /\ r.at = now /\ r.attrs = x.attrs /\ r.pc = pc
  BY DEF Idle
<1>13. req'[q] = r /\ req'[q] \in RequestType
  BY <1>1 DEF Reads, Goto, IInv, StateType
<1>5. Goto(q, r) /\ UNCHANGED <<scene, now, accountVars>> /\ rows' = rows
  BY <1>1 DEF Reads, BeginResume
<1>6. CheckEpoch(x.attrs.epoch)
  BY <1>1
<1>7. /\ now \in Nat /\ scene.lasts \in Nat /\ account.must \in Nat /\ enrolled \in [Factor -> Nat]
      /\ RecheckEvery \in Nat
  BY AccountTimes, TimeAssumption
<1>8. /\ pc \in {"state", "touch"}
      /\ \A m \in Nat : pc = "touch" /\ x.checked <= m + scene.lasts
                          => now < m + scene.lasts + RecheckEvery
  BY <1>3, <1>7, SMTT(30)
<1> HIDE DEF x, pc, r
<1>9. TimelyFlag(r, account.must)
  BY <1>2, <1>4, <1>7, <1>8 DEF TimelyRow, TimelyFlag
<1>10. ASSUME NEW f \in Factor
       PROVE  TimelyFactor(r, f, enrolled[f])
  BY <1>2, <1>4, <1>7, <1>8 DEF TimelyRow, TimelyFactor
<1>11. TimelyRequest(r, now, account, enrolled, left)
  BY <1>2, <1>4, <1>6, <1>7, <1>9, <1>10, SMTT(30) DEF TimelyRow, TimelyRequest, CheckEpoch
<1>12. \A j \in DOMAIN rows' :
         j \in DOMAIN rows /\ rows'[j].attrs = rows[j].attrs /\ rows'[j].checked = rows[j].checked
  BY <1>5
<1>14. account.epoch \in Nat
  BY AccountTimes
<1>15. Formed(r, account.epoch)
  BY <1>2, <1>3, <1>4, <1>14, SMTT(30) DEF Formed
<1> QED BY <1>5, <1>11, <1>12, <1>13, <1>15, OwnTimely

LEMMA TouchTimely ==
    ASSUME IInv, IInv', RequestInv, Timely, NEW q \in Request, Touch(q), UNCHANGED scene
    PROVE  RequestInv' /\ Timely'
<1> DEFINE r == req[q]
           s == [r EXCEPT !.pc = "answered"]
<1>1. /\ r \in RequestType /\ r.pc = "touch" /\ TimelyRequest(r, now, account, enrolled, left)
      /\ Formed(r, account.epoch)
  BY RequestTimes DEF Touch
<1>2. s.at = r.at /\ s.attrs = r.attrs /\ s.op = r.op /\ s.pc = "answered" /\ s \in RequestType
  BY <1>1 DEF RequestType, Pc
<1>3. Goto(q, s) /\ UNCHANGED <<scene, now, accountVars>>
  BY DEF Touch, Writes
<1> HIDE DEF s
<1>4. TimelyRequest(s, now, account, enrolled, left) /\ Formed(s, account.epoch)
  BY <1>1, <1>2 DEF TimelyRequest, TimelyFlag, TimelyFactor, Formed
<1>5. /\ rows = [i \in DOMAIN rows |-> rows[i]] /\ \A i \in DOMAIN rows : rows[i] \in Row
  BY AccountFacts DEF RowsOK
<1>6. \/ rows' = rows
      \/ \E until : rows' = [rows EXCEPT ![r.id] = [rows[r.id] EXCEPT !.idle = until]]
  BY DEF Touch
<1>7. \A i \in DOMAIN rows' :
        i \in DOMAIN rows /\ rows'[i].attrs = rows[i].attrs /\ rows'[i].checked = rows[i].checked
  <2>1. CASE rows' = rows
    BY <2>1
  <2>2. ASSUME NEW until, rows' = [rows EXCEPT ![r.id] = [rows[r.id] EXCEPT !.idle = until]],
               NEW i \in DOMAIN rows'
        PROVE  i \in DOMAIN rows /\ rows'[i].attrs = rows[i].attrs /\ rows'[i].checked = rows[i].checked
    <3>1. i \in DOMAIN rows
      BY <2>2
    <3>2. rows[i] \in Row
      BY <1>5, <3>1
    <3>3. rows'[i] = rows[i] \/ rows'[i] = [rows[i] EXCEPT !.idle = until]
      BY <1>5, <2>2, <3>1
    <3> QED BY <3>1, <3>2, <3>3 DEF Row
  <2> QED BY <1>6, <2>1, <2>2
<1> QED BY <1>2, <1>3, <1>4, <1>7, OwnTimely

\* What holds of a row written with attributes a and check c by request q.
LEMMA WrittenTimely ==
    ASSUME RequestInv, NEW q \in Request, NEW a \in Attrs, NEW c \in {now, req[q].at},
           req[q].pc # "idle", a.epoch = req[q].attrs.epoch, a.epoch >= 1,
           ~a.must => account.must = 0 \/ req[q].at <= account.must,
           \A f \in Factor : ~a.multi => enrolled[f] = 0 \/ req[q].at <= enrolled[f],
           NEW x, x.attrs = a, x.checked = c
    PROVE  TimelyRow(x, now, account, enrolled, left)
<1>1. /\ req[q].at \in Nat /\ req[q].at <= now /\ now <= req[q].at + scene.lasts
      /\ Suspended(a.epoch, account, left)
  BY RequestTimes DEF TimelyRequest
<1>2. /\ now \in Nat /\ scene.lasts \in Nat /\ account.must \in Nat
      /\ \A f \in Factor : enrolled[f] \in Nat
  BY AccountTimes
<1>3. c <= now /\ c <= req[q].at + scene.lasts /\ c \in Nat
  BY <1>1, <1>2, SMTT(30)
<1> QED BY <1>1, <1>2, <1>3, SMTT(30) DEF TimelyRow

LEMMA StartTimely ==
    ASSUME IInv, IInv', RequestInv, Timely, NEW q \in Request, Start(q), UNCHANGED scene
    PROVE  RequestInv' /\ Timely'
<1> DEFINE r == req[q]
           l == Len(admitted) + 1
           a == [r.attrs EXCEPT !.lineage = l]
<1>1. PICK t \in r.at .. now : rows' = With(rows, issued + 1, NewRow(a, now, t + MaxLifetime))
  BY DEF Start
<1>2. /\ r.attrs \in Attrs /\ l \in Nat
  BY RequestTimes, AccountFacts, SMTT(30)
<1>3. /\ a \in Attrs /\ a.epoch = r.attrs.epoch /\ a.multi = r.attrs.multi /\ a.must = r.attrs.must
  BY <1>2 DEF Attrs
<1>4. Cleared(q, "login", a.multi) /\ Goto(q, Idle) /\ UNCHANGED <<scene, now, accountVars>>
  BY DEF Start, Writes
<1> DEFINE x == NewRow(a, now, t + MaxLifetime)
<1>5. x.attrs = a /\ x.checked = now
  BY DEF NewRow
<1>6. \A i \in DOMAIN rows' : rows'[i] = x \/ (i \in DOMAIN rows /\ rows'[i] = rows[i])
  BY <1>1 DEF With
<1> HIDE DEF a, x
<1>7. TimelyRow(x, now, account, enrolled, left)
  <2>1. /\ r.pc = "factors" /\ r.attrs.epoch >= 1
        /\ ~r.attrs.must => account.must = 0 \/ r.at <= account.must
        /\ \A f \in Factor : ~a.multi /\ ~r.attrs.multi => enrolled[f] = 0 \/ r.at <= enrolled[f]
    BY <1>4, ClearedTimes, SMTT(30)
  <2>2. /\ r.pc # "idle" /\ a.epoch >= 1
        /\ ~a.must => account.must = 0 \/ r.at <= account.must
        /\ \A f \in Factor : ~a.multi => enrolled[f] = 0 \/ r.at <= enrolled[f]
    BY <1>3, <2>1
  <2> QED BY <1>3, <1>5, <2>2, WrittenTimely
<1>8. \A i \in DOMAIN rows' :
        \/ /\ i \in DOMAIN rows
           /\ rows'[i].attrs = rows[i].attrs /\ rows'[i].checked = rows[i].checked
        \/ TimelyRow(rows'[i], now, account, enrolled, left)
  BY <1>6, <1>7
<1> QED BY <1>4, <1>8, IdleTimes, OwnTimely

LEMMA RotateTimely ==
    ASSUME IInv, IInv', RequestInv, Timely, NEW q \in Request, Rotate(q), UNCHANGED scene
    PROVE  RequestInv' /\ Timely'
<1> DEFINE r == req[q]
           a == r.attrs
           s == [r EXCEPT !.pc = "answered", !.required = FALSE]
           x == NewRow(a, r.at, End(a.lineage))
<1>1. /\ Cleared(q, "resume", a.multi) /\ Goto(q, s) /\ UNCHANGED <<scene, now, accountVars>>
      /\ rows' = [rows EXCEPT ![r.id] = x]
  BY DEF Rotate, Writes
<1>2. x.attrs = a /\ x.checked = r.at /\ a \in Attrs
  BY RequestTimes DEF NewRow
<1>3. \A i \in DOMAIN rows' : rows'[i] = x \/ (i \in DOMAIN rows /\ rows'[i] = rows[i])
  BY <1>1
<1> HIDE DEF s, x
<1>4. /\ r.pc # "idle" /\ a.epoch >= 1
      /\ ~a.must => account.must = 0 \/ r.at <= account.must
      /\ \A f \in Factor : ~a.multi => enrolled[f] = 0 \/ r.at <= enrolled[f]
  BY <1>1, ClearedTimes, SMTT(30)
<1>5. TimelyRow(x, now, account, enrolled, left)
  BY <1>2, <1>4, WrittenTimely
<1>6. /\ s \in RequestType /\ Formed(s, account.epoch)
      /\ TimelyRequest(s, now, account, enrolled, left)
  BY <1>1, AnswerTimes DEF s
<1>7. \A i \in DOMAIN rows' :
        \/ /\ i \in DOMAIN rows
           /\ rows'[i].attrs = rows[i].attrs /\ rows'[i].checked = rows[i].checked
        \/ TimelyRow(rows'[i], now, account, enrolled, left)
  BY <1>3, <1>5
<1> QED BY <1>1, <1>6, <1>7, OwnTimely

\* Replace, for a request that may write the attributes next.
LEMMA ReplaceTimely ==
    ASSUME IInv, IInv', RequestInv, Timely, NEW q \in Request, NEW next \in Attrs, Replace(q, next),
           UNCHANGED scene, req[q].pc # "idle", next.epoch = req[q].attrs.epoch, next.epoch >= 1,
           ~next.must => account.must = 0 \/ req[q].at <= account.must,
           \A f \in Factor : ~next.multi => enrolled[f] = 0 \/ req[q].at <= enrolled[f]
    PROVE  RequestInv' /\ Timely'
<1> DEFINE x == NewRow(next, now, End(next.lineage))
<1>1. /\ rows' = With(Without({req[q].id}), issued + 1, x) /\ Goto(q, Idle)
      /\ UNCHANGED <<scene, now, accountVars>>
  BY DEF Replace, Writes
<1>2. x.attrs = next /\ x.checked = now
  BY DEF NewRow
<1>3. \A i \in DOMAIN rows' : rows'[i] = x \/ (i \in DOMAIN rows /\ rows'[i] = rows[i])
  BY <1>1 DEF With, Without
<1> HIDE DEF x
<1>4. TimelyRow(x, now, account, enrolled, left)
  BY <1>2, WrittenTimely
<1>5. \A i \in DOMAIN rows' :
        \/ /\ i \in DOMAIN rows
           /\ rows'[i].attrs = rows[i].attrs /\ rows'[i].checked = rows[i].checked
        \/ TimelyRow(rows'[i], now, account, enrolled, left)
  BY <1>3, <1>4
<1> QED BY <1>1, <1>5, IdleTimes, OwnTimely

LEMMA ReauthenticateTimely ==
    ASSUME IInv, IInv', RequestInv, Timely, NEW q \in Request, Reauthenticate(q), UNCHANGED scene
    PROVE  RequestInv' /\ Timely'
<1>1. PICK multi \in BOOLEAN :
        /\ Cleared(q, "reauth", multi)
        /\ Replace(q, [req[q].attrs EXCEPT !.multi = req[q].attrs.multi \/ multi])
  BY DEF Reauthenticate
<1> DEFINE a == req[q].attrs
           next == [a EXCEPT !.multi = a.multi \/ multi]
<1>2. a \in Attrs /\ a.multi \in BOOLEAN
  BY RequestTimes
<1>3. /\ next \in Attrs /\ next.epoch = a.epoch /\ next.must = a.must
      /\ next.multi = (a.multi \/ multi) /\ Replace(q, next)
  BY <1>1, <1>2 DEF Attrs
<1> HIDE DEF next
<1>4. /\ req[q].pc = "factors" /\ a.epoch >= 1
      /\ ~a.must => account.must = 0 \/ req[q].at <= account.must
      /\ \A f \in Factor : ~multi /\ ~a.multi => enrolled[f] = 0 \/ req[q].at <= enrolled[f]
  BY <1>1, ClearedTimes, SMTT(30)
<1> QED BY <1>3, <1>4, ReplaceTimely

LEMMA ReissueTimely ==
    ASSUME IInv, IInv', RequestInv, Timely, NEW q \in Request, Reissue(q), UNCHANGED scene
    PROVE  RequestInv' /\ Timely'
<1>1. /\ req[q].pc = "reissue" /\ Replace(q, req[q].attrs) /\ req[q].attrs \in Attrs
      /\ req[q].attrs.epoch >= 1
  BY RequestTimes DEF Reissue, Formed
<1>2. /\ TimelyFlag(req[q], account.must) /\ \A f \in Factor : TimelyFactor(req[q], f, enrolled[f])
  BY RequestTimes DEF TimelyRequest
<1>3. ~req[q].attrs.must => account.must = 0 \/ req[q].at <= account.must
  BY <1>1, <1>2 DEF TimelyFlag
<1>4. \A f \in Factor : ~req[q].attrs.multi => enrolled[f] = 0 \/ req[q].at <= enrolled[f]
  BY <1>1, <1>2 DEF TimelyFactor
<1> QED BY <1>1, <1>3, <1>4, ReplaceTimely

\* Nothing is late in the initial state.
LEMMA InitTimely == Init => RequestInv /\ Timely
BY InitTimes DEF Init, Timely

\* Every step keeps the invariant of instants.
LEMMA NextTimely ==
    IInv /\ IInv' /\ (RequestInv /\ Timely) /\ [Next]_vars => (RequestInv /\ Timely)'
<1> SUFFICES ASSUME IInv, IInv', RequestInv, Timely, [Next]_vars PROVE RequestInv' /\ Timely'
  BY SMTT(30)
<1>1. CASE UNCHANGED vars
  <2>1. UNCHANGED <<scene, now, account, enrolled, left, req, rows>>
    BY <1>1 DEF vars, sharedVars, accountVars
  <2>2. Moved(now, account, enrolled, left, account', enrolled', left') /\ StateType'
    BY <2>1 DEF Moved, IInv
  <2> QED BY <2>1, <2>2, RowsStep, RequestsStep
<1>2. CASE Next
  <2>0. UNCHANGED scene
    BY <1>2 DEF Next
  <2>1. CASE Tick /\ UNCHANGED rows
    BY <2>0, <2>1, TickTimely, SharedTimes
  <2>2. CASE (AccountStep \/ \E q \in Request : RequestStep(q)) /\ UNCHANGED rows
    <3>1. RequestInv'
      BY <2>0, <2>2, SharedTimes
    <3>2. now' = now /\ Moved(now, account, enrolled, left, account', enrolled', left')
      BY <2>2, SharedMoves
    <3> QED BY <2>0, <2>2, <3>1, <3>2, RowsStep
  <2>4. CASE Deliver \/ Revoke \/ Erase \/ ReapExpired
    <3>1. PICK S : rows' = Without(S)
      BY <2>4 DEF Deliver, Revoke, Erase, ReapExpired
    <3>2. UNCHANGED <<scene, now, accountVars>> /\ req' = req
      BY <2>0, <2>4 DEF Deliver, Revoke, Erase, ReapExpired
    <3> QED BY <3>1, <3>2, LeaveTimely, SMTT(30)
  <2>5. ASSUME NEW q \in Request, Step(q)
        PROVE  RequestInv' /\ Timely'
    <3>1. CASE RevokeUnknown(q)
      <4>1. rows' = Without({req[q].id}) /\ Goto(q, Idle) /\ UNCHANGED <<scene, now, accountVars>>
        BY <2>0, <3>1 DEF RevokeUnknown, Writes
      <4> QED BY <4>1, LeaveTimely
    <3> QED BY <2>0, <2>5, <3>1, BeginResumeTimely, TouchTimely, StartTimely, RotateTimely,
            ReauthenticateTimely, ReissueTimely DEF Step
  <2> QED BY <1>2, <2>1, <2>2, <2>4, <2>5, SMTT(30) DEF Next
<1> QED BY <1>1, <1>2

\* The inductive invariant of the times: what a request or a row lacks of what the
\* account asks for was not asked for when the request began or the row was checked.
THEOREM Timeliness == Spec => [](RequestInv /\ Timely)
BY Invariance, InitTimely, NextTimely, PTL DEF Spec

\* Once a second factor is enrolled, Resume answers no session without one for longer
\* than RecheckEvery after the last request that may have missed the enrolment.
THEOREM FactorEnforced == Spec => []SecondFactorEnforced
BY Timeliness, AnsweredTimes, PTL

\* Sessions follow the must-change flag within RecheckEvery, and a suspension within
\* PollBound, whatever logins, renewals and Reissues were in flight.
THEOREM ChangesFollowed == Spec => []ChangesEnforced
BY Timeliness, AnsweredTimes, PTL

-----------------------------------------------------------------------------
\* The refinement.

None == [stage |-> "none", epoch |-> 0, multi |-> FALSE]
Ended == [stage |-> "ended", epoch |-> 0, multi |-> FALSE]
LiveAs(a) == [stage |-> "live", epoch |-> a.epoch, multi |-> a.multi]

Unique(t) == \A i, j \in DOMAIN t : t[i].attrs.lineage = t[j].attrs.lineage => i = j

-----------------------------------------------------------------------------
\* The session that a table of rows stands for.

\* The row of a lineage is its session.
LEMMA SessionOfRow ==
    ASSUME NEW t, Unique(t), NEW i \in DOMAIN t
    PROVE  SessionOf(t, t[i].attrs.lineage) = LiveAs(t[i].attrs)
<1> DEFINE l == t[i].attrs.lineage
           j == CHOOSE j \in RowsOf(t, l) : TRUE
<1>1. i \in RowsOf(t, l)
  BY DEF RowsOf
<1>2. j \in RowsOf(t, l)
  BY <1>1
<1>3. j = i
  BY <1>2 DEF RowsOf, Unique
<1>4. SessionOf(t, l) = [stage |-> "live", epoch |-> t[j].attrs.epoch, multi |-> t[j].attrs.multi]
  BY <1>1 DEF SessionOf
<1> HIDE DEF j
<1> QED BY <1>3, <1>4 DEF LiveAs

\* A lineage without a row has ended.
LEMMA SessionWithoutRow ==
    ASSUME NEW t, NEW l, \A i \in DOMAIN t : t[i].attrs.lineage # l
    PROVE  SessionOf(t, l) = Ended
<1>1. RowsOf(t, l) = {}
  BY DEF RowsOf
<1> QED BY <1>1 DEF SessionOf, Ended

\* Two tables with the same session in every row stand for the same sessions.
LEMMA SessionSame ==
    ASSUME NEW t, NEW u, Unique(t), Unique(u), NEW l,
           \A i \in DOMAIN t : t[i].attrs.lineage = l =>
               i \in DOMAIN u /\ u[i].attrs.lineage = l /\ LiveAs(u[i].attrs) = LiveAs(t[i].attrs),
           \A i \in DOMAIN u : u[i].attrs.lineage = l => i \in DOMAIN t /\ t[i].attrs.lineage = l
    PROVE  SessionOf(u, l) = SessionOf(t, l)
<1>1. CASE \E i \in DOMAIN t : t[i].attrs.lineage = l
  <2>1. PICK i \in DOMAIN t : t[i].attrs.lineage = l
    BY <1>1, SMTT(30)
  <2>2. SessionOf(t, l) = LiveAs(t[i].attrs)
    BY <2>1, SessionOfRow
  <2>3. i \in DOMAIN u /\ u[i].attrs.lineage = l /\ LiveAs(u[i].attrs) = LiveAs(t[i].attrs)
    BY <2>1
  <2>4. SessionOf(u, l) = LiveAs(u[i].attrs)
    BY <2>3, SessionOfRow
  <2> QED BY <2>2, <2>3, <2>4
<1>2. CASE \A i \in DOMAIN t : t[i].attrs.lineage # l
  <2>1. \A i \in DOMAIN u : u[i].attrs.lineage # l
    BY <1>2
  <2> QED BY <1>2, <2>1, SessionWithoutRow
<1> QED BY <1>1, <1>2

\* A row that leaves ends its session, and no other.
LEMMA SessionLeaves ==
    ASSUME NEW t, NEW u, NEW S, Unique(t), u = [i \in DOMAIN t \ S |-> t[i]], NEW l
    PROVE  \/ SessionOf(u, l) = SessionOf(t, l)
           \/ SessionOf(u, l) = Ended /\ SessionOf(t, l).stage = "live"
<1>1. DOMAIN u = DOMAIN t \ S /\ \A i \in DOMAIN u : u[i] = t[i]
  BY SMTT(30)
<1>2. Unique(u)
  BY <1>1 DEF Unique
<1>3. CASE \E i \in DOMAIN t : t[i].attrs.lineage = l /\ i \in S
  <2>1. PICK i \in DOMAIN t : t[i].attrs.lineage = l /\ i \in S
    BY <1>3
  <2>2. SessionOf(t, l) = LiveAs(t[i].attrs)
    BY <2>1, SessionOfRow, SMTT(30)
  <2>3. SessionOf(t, l).stage = "live"
    BY <2>2, SMTT(30) DEF LiveAs
  <2>4. \A k \in DOMAIN u : u[k].attrs.lineage # l
    BY <1>1, <2>1 DEF Unique
  <2> QED BY <2>3, <2>4, SessionWithoutRow
<1>4. CASE \A i \in DOMAIN t : t[i].attrs.lineage = l => i \notin S
  <2>1. \A i \in DOMAIN t : t[i].attrs.lineage = l =>
               i \in DOMAIN u /\ u[i].attrs.lineage = l /\ LiveAs(u[i].attrs) = LiveAs(t[i].attrs)
    BY <1>1, <1>4
  <2>2. \A i \in DOMAIN u : u[i].attrs.lineage = l => i \in DOMAIN t /\ t[i].attrs.lineage = l
    BY <1>1
  <2> QED BY <1>2, <2>1, <2>2, SessionSame
<1> QED BY <1>3, <1>4

\* A row that is inserted is the session of its lineage, and of no other.
LEMMA SessionInserted ==
    ASSUME NEW t, NEW n, NEW row, Unique(t), n \notin DOMAIN t,
           \A i \in DOMAIN t : t[i].attrs.lineage # row.attrs.lineage
    PROVE  /\ SessionOf(With(t, n, row), row.attrs.lineage) = LiveAs(row.attrs)
           /\ \A l : l # row.attrs.lineage => SessionOf(With(t, n, row), l) = SessionOf(t, l)
<1> DEFINE u == With(t, n, row)
<1>1. /\ DOMAIN u = DOMAIN t \cup {n} /\ u[n] = row
      /\ \A j \in DOMAIN t : u[j] = t[j]
  BY DEF With
<1> HIDE DEF u
<1>2. Unique(u)
  BY <1>1 DEF Unique
<1>3. SessionOf(u, row.attrs.lineage) = LiveAs(row.attrs)
  <2>1. n \in DOMAIN u
    BY <1>1
  <2> QED BY <1>1, <1>2, <2>1, SessionOfRow
<1>4. ASSUME NEW l, l # row.attrs.lineage
      PROVE  SessionOf(u, l) = SessionOf(t, l)
  <2>1. \A i \in DOMAIN t : t[i].attrs.lineage = l =>
               i \in DOMAIN u /\ u[i].attrs.lineage = l /\ LiveAs(u[i].attrs) = LiveAs(t[i].attrs)
    BY <1>1
  <2>2. \A i \in DOMAIN u : u[i].attrs.lineage = l => i \in DOMAIN t /\ t[i].attrs.lineage = l
    BY <1>1, <1>4
  <2> QED BY <1>2, <2>1, <2>2, SessionSame, SMTT(30)
<1> QED BY <1>3, <1>4 DEF u

-----------------------------------------------------------------------------
\* The steps of the contract.

Sessions == [l \in Lineage |-> Session(l)]

\* A step that changes no session is a stuttering step of the contract.
LEMMA Stutters ==
    ASSUME account'.epoch = account.epoch, kept' = kept, \A l \in Lineage : Session(l)' = Session(l)
    PROVE  UNCHANGED Contract!vars
<1>1. Sessions' = Sessions
  BY DEF Sessions
<1> QED BY <1>1 DEF Contract!vars, Sessions

\* A step that keeps the rows, the lineages and the epoch is a stutter of the contract.
LEMMA SameRows ==
    ASSUME account'.epoch = account.epoch, kept' = kept, rows' = rows, admitted' = admitted
    PROVE  UNCHANGED Contract!vars
<1>1. \A l \in Lineage : Session(l)' = Session(l)
  BY DEF Session
<1> QED BY <1>1, Stutters

\* A bump is a change made by the lineage it keeps.
LEMMA BumpRefines ==
    ASSUME IInv, NEW k \in Nat, k = 0 \/ k \in 1 .. Len(admitted), Bump(k),
           account'.epoch = account.epoch + 1, rows' = rows, admitted' = admitted
    PROVE  Contract!Next
<1>1. Sessions' = Sessions
  BY DEF Sessions, Session
<1>2. account'.epoch \in Epoch /\ kept' = [kept EXCEPT ![account.epoch] = k]
  BY BumpFacts
<1>3. k \in Lineage \cup {NoLineage} /\ (k = NoLineage \/ Sessions[k] # None)
  <2>1. CASE k = 0
    BY <2>1 DEF NoLineage
  <2>2. CASE k \in 1 .. Len(admitted)
    <3>1. k \in Lineage
      BY <2>2, TimeAssumption, SMTT(30) DEF Lineage, IInv, StateType
    <3>2. Sessions[k] = SessionOf(rows, k)
      BY <2>2, <3>1 DEF Sessions, Session
    <3>3. SessionOf(rows, k).stage # "none"
      BY DEF SessionOf
    <3>4. None.stage = "none"
      BY DEF None
    <3> QED BY <3>1, <3>2, <3>3, <3>4
  <2> QED BY <2>1, <2>2
<1>4. Contract!Change(k)
  BY <1>1, <1>2, <1>3 DEF Contract!Change, Contract!None, None, Sessions
<1> QED BY <1>3, <1>4 DEF Contract!Next

\* Rows that leave end their sessions.
LEMMA LeaveRefines ==
    ASSUME IInv, NEW S, rows' = Without(S), account'.epoch = account.epoch, kept' = kept,
           admitted' = admitted
    PROVE  Contract!Next \/ UNCHANGED Contract!vars
<1>1. Unique(rows)
  BY AccountFacts DEF RowsOK, Unique
<1>2. ASSUME NEW l \in Lineage
      PROVE  Session(l)' = Session(l) \/ (Session(l)' = Ended /\ Session(l).stage = "live")
  <2>1. rows' = [i \in DOMAIN rows \ S |-> rows[i]]
    BY DEF Without
  <2>2. \/ SessionOf(rows', l) = SessionOf(rows, l)
        \/ SessionOf(rows', l) = Ended /\ SessionOf(rows, l).stage = "live"
    BY <1>1, <2>1, SessionLeaves
  <2> QED BY <2>2 DEF Session
<1>3. CASE Sessions' = Sessions
  BY <1>3 DEF Contract!vars, Sessions
<1>4. CASE Sessions' # Sessions
  <2> DEFINE G == {l \in Lineage : Session(l)' # Session(l)}
  <2>1. G \in SUBSET {l \in Lineage : Sessions[l].stage = "live"}
    BY <1>2 DEF Sessions
  <2>2. Sessions' = [l \in Lineage |-> IF l \in G THEN Ended ELSE Sessions[l]]
    BY <1>2 DEF Sessions
  <2>3. Contract!End
    BY <2>1, <2>2 DEF Contract!End, Contract!Ended, Ended, Sessions
  <2> QED BY <1>4, <2>3 DEF Contract!Next, Sessions
<1> QED BY <1>3, <1>4

\* A row written in place is the same session.
LEMMA InPlaceRefines ==
    ASSUME IInv, IInv', Subtable(rows, rows', issued), DOMAIN rows' = DOMAIN rows,
           account' = account, kept' = kept, admitted' = admitted
    PROVE  UNCHANGED Contract!vars
<1>1. Unique(rows) /\ DOMAIN rows \subseteq 1 .. issued
  BY AccountFacts DEF RowsOK, Unique
<1>2. Unique(rows')
  BY DEF IInv, RowsOK, Unique
<1>3. \A i \in DOMAIN rows : /\ rows'[i].attrs.lineage = rows[i].attrs.lineage
                             /\ LiveAs(rows'[i].attrs) = LiveAs(rows[i].attrs)
  BY <1>1 DEF Subtable, LiveAs
<1>4. ASSUME NEW l \in Lineage PROVE SessionOf(rows', l) = SessionOf(rows, l)
  BY <1>1, <1>2, <1>3, SessionSame, SMTT(30)
<1>5. \A l \in Lineage : Session(l)' = Session(l)
  BY <1>4 DEF Session
<1> QED BY <1>5, Stutters, SMTT(30)

\* A new id is not the id of a row.
LEMMA NewId ==
    ASSUME IInv
    PROVE  issued + 1 \notin DOMAIN rows /\ Unique(rows)
<1>1. DOMAIN rows \subseteq 1 .. issued /\ Unique(rows)
  BY AccountFacts DEF RowsOK, Unique
<1> QED BY <1>1, AccountFacts, SMTT(30)

\* The types of the attributes of a row.
LEMMA RowAttrs ==
    ASSUME NEW row \in Row
    PROVE  row.attrs.epoch \in Nat /\ row.attrs.multi \in BOOLEAN
BY DEF Row, Attrs

\* Start admits the next lineage.
LEMMA StartRefines ==
    ASSUME IInv, NEW q \in Request, Start(q), UNCHANGED scene
    PROVE  Contract!Next
<1>0. PICK k : k = Len(admitted) + 1
  BY SMTT(30)
<1>1. PICK row \in Row : /\ rows' = With(rows, issued + 1, row)
                         /\ row.attrs.lineage = k
                         /\ row.attrs.epoch \in 1 .. account.epoch
  BY <1>0, StartInv
<1>2. Len(admitted') = k /\ k \in Lineage /\ Len(admitted) \in Nat
  BY <1>0, StartInv, AccountFacts, TimeAssumption, SMTT(30) DEF Lineage
<1>3. account' = account /\ kept' = kept
  BY SMTT(30) DEF Start, Writes, accountVars
<1>4. \A i \in DOMAIN rows : rows[i].attrs.lineage # k
  <2>1. \A i \in DOMAIN rows : rows[i].attrs.lineage \in 1 .. Len(admitted)
    BY AccountFacts DEF RowsOK
  <2> QED BY <1>0, <1>2, <2>1, SMTT(30)
<1>5. /\ SessionOf(rows', k) = LiveAs(row.attrs)
      /\ \A l \in Lineage : l # k => SessionOf(rows', l) = SessionOf(rows, l)
  <2>1. \A i \in DOMAIN rows : rows[i].attrs.lineage # row.attrs.lineage
    BY <1>1, <1>4
  <2>2. /\ SessionOf(With(rows, issued + 1, row), row.attrs.lineage) = LiveAs(row.attrs)
        /\ \A l : l # row.attrs.lineage =>
             SessionOf(With(rows, issued + 1, row), l) = SessionOf(rows, l)
    <3>1. issued + 1 \notin DOMAIN rows /\ Unique(rows)
      BY NewId
    <3> QED BY <2>1, <3>1, SessionInserted, SMTT(30)
  <2> QED BY <1>1, <2>2
<1>6. Session(k) = None /\ Session(k)' = LiveAs(row.attrs)
  <2>1. k \notin 1 .. Len(admitted) /\ k \in 1 .. Len(admitted')
    BY <1>0, <1>2, SMTT(30)
  <2> QED BY <1>5, <2>1 DEF Session, None
<1>7. ASSUME NEW l \in Lineage, l # k PROVE Session(l)' = Session(l)
  <2>1. l \in 1 .. Len(admitted') <=> l \in 1 .. Len(admitted)
    BY <1>0, <1>2, <1>7, TimeAssumption, SMTT(30) DEF Lineage
  <2> QED BY <1>5, <1>7, <2>1 DEF Session
<1>8. Sessions[k] = None /\ Sessions' = [Sessions EXCEPT ![k] = LiveAs(row.attrs)] /\ Sessions' # Sessions
  <2>1. Sessions[k] = None /\ Sessions' = [Sessions EXCEPT ![k] = LiveAs(row.attrs)]
    BY <1>2, <1>6, <1>7 DEF Sessions
  <2>2. Sessions'[k] = LiveAs(row.attrs)
    BY <1>2, <1>6 DEF Sessions
  <2>3. LiveAs(row.attrs).stage # None.stage
    BY DEF LiveAs, None
  <2> QED BY <2>1, <2>2, <2>3, SMTT(30)
<1>9. Contract!Admit(k)
  <2>1. row.attrs.multi \in BOOLEAN
    BY RowAttrs
  <2>2. LiveAs(row.attrs) = Contract!Live(row.attrs.epoch, row.attrs.multi)
    BY DEF LiveAs, Contract!Live
  <2>3. Sessions' = [Sessions EXCEPT ![k] = Contract!Live(row.attrs.epoch, row.attrs.multi)]
    BY <1>8, <2>2
  <2> QED BY <1>1, <1>8, <2>1, <2>3, SMTT(30) DEF Contract!Admit, Contract!None, None, Sessions
<1> QED BY <1>2, <1>3, <1>8, <1>9 DEF Contract!Next, Sessions

\* Replace changes the session of the request to next, and no other.
LEMMA ReplaceFacts ==
    ASSUME IInv, NEW q \in Request, NEW next \in Attrs, Replace(q, next), UNCHANGED scene,
           req[q].op # "login", next.lineage = req[q].attrs.lineage,
           next.epoch = req[q].attrs.epoch
    PROVE  /\ next.lineage \in Lineage
           /\ Sessions[next.lineage] = LiveAs(rows[req[q].id].attrs)
           /\ Sessions' = [Sessions EXCEPT ![next.lineage] = LiveAs(next)]
           /\ account' = account /\ kept' = kept
           /\ req[q].id \in DOMAIN rows
<1> DEFINE r == req[q]
           k == next.lineage
           t == Without({r.id})
<1>1. r.id \in DOMAIN rows /\ RowsOK(t, issued, admitted, account.epoch)
      /\ \A i \in DOMAIN t : t[i].attrs.lineage # k
  BY ReplaceInv
<1>2. PICK row \in Row : rows' = With(t, issued + 1, row) /\ row.attrs = next
  BY ReplaceInv
<1>3. /\ account' = account /\ kept' = kept /\ admitted' = admitted
  BY DEF Replace, Writes, accountVars
<1>4. k \in 1 .. Len(admitted) /\ rows[r.id].attrs.lineage = k
  BY <1>1, OwnRow
<1>5. k \in Lineage
  BY <1>4, InLineage
<1>6. Unique(rows) /\ Unique(t) /\ issued + 1 \notin DOMAIN t
  <2>1. Unique(t)
    BY <1>1 DEF RowsOK, Unique
  <2>2. DOMAIN t \subseteq DOMAIN rows
    BY DEF Without
  <2> HIDE DEF t
  <2> QED BY <2>1, <2>2, NewId, SMTT(30)
<1>7. SessionOf(rows, k) = LiveAs(rows[r.id].attrs)
  BY <1>1, <1>4, <1>6, SessionOfRow
<1>8. ASSUME NEW l \in Lineage, l # k PROVE SessionOf(t, l) = SessionOf(rows, l)
  <2>1. DOMAIN t = DOMAIN rows \ {r.id} /\ \A i \in DOMAIN t : t[i] = rows[i]
    BY DEF Without
  <2> HIDE DEF t
  <2>2. \A i \in DOMAIN rows : rows[i].attrs.lineage = l =>
               i \in DOMAIN t /\ t[i].attrs.lineage = l /\ LiveAs(t[i].attrs) = LiveAs(rows[i].attrs)
    <3> SUFFICES ASSUME NEW i \in DOMAIN rows, rows[i].attrs.lineage = l
                 PROVE  i \in DOMAIN t /\ t[i] = rows[i]
      OBVIOUS
    <3>1. i # r.id
      BY <1>4, <1>8
    <3> QED BY <2>1, <3>1
  <2>3. \A i \in DOMAIN t : t[i].attrs.lineage = l => i \in DOMAIN rows /\ rows[i].attrs.lineage = l
    BY <2>1
  <2> QED BY <1>6, <2>2, <2>3, SessionSame, SMTT(30)
<1> HIDE DEF t
<1>9. /\ SessionOf(rows', k) = LiveAs(next)
      /\ \A l \in Lineage : l # k => SessionOf(rows', l) = SessionOf(t, l)
  <2> DEFINE n == issued + 1
  <2>1. Unique(t) /\ n \notin DOMAIN t /\ rows' = With(t, n, row)
        /\ \A i \in DOMAIN t : t[i].attrs.lineage # row.attrs.lineage
    BY <1>1, <1>2, <1>6
  <2> HIDE DEF n
  <2>2. /\ SessionOf(With(t, n, row), row.attrs.lineage) = LiveAs(row.attrs)
        /\ \A l : l # row.attrs.lineage => SessionOf(With(t, n, row), l) = SessionOf(t, l)
    BY <2>1, SessionInserted, SMTT(30)
  <2> QED BY <1>2, <2>1, <2>2
<1>10. Session(k) = LiveAs(rows[r.id].attrs) /\ Session(k)' = LiveAs(next)
  BY <1>3, <1>4, <1>7, <1>9 DEF Session
<1>11. \A l \in Lineage : l # k => Session(l)' = Session(l)
  BY <1>3, <1>8, <1>9 DEF Session
<1> HIDE DEF k
<1>12. /\ Sessions[k] = LiveAs(rows[r.id].attrs)
       /\ Sessions' = [Sessions EXCEPT ![k] = LiveAs(next)]
  BY <1>5, <1>10, <1>11 DEF Sessions
<1> QED BY <1>1, <1>3, <1>5, <1>12, SMTT(30) DEF k

\* The live session that the contract sees for attributes a.
LEMMA LiveFields ==
    ASSUME NEW a
    PROVE  /\ LiveAs(a).stage = "live" /\ LiveAs(a).epoch = a.epoch /\ LiveAs(a).multi = a.multi
           /\ LiveAs(a) = Contract!Live(a.epoch, a.multi)
BY DEF LiveAs, Contract!Live

\* A reauthentication proves a second factor, or changes nothing.
LEMMA ReauthenticateRefines ==
    ASSUME IInv, NEW q \in Request, Reauthenticate(q), UNCHANGED scene
    PROVE  Contract!Next \/ UNCHANGED Contract!vars
<1> DEFINE r == req[q]
<1>1. PICK next \in Attrs :
        /\ Replace(q, next) /\ r.op # "login" /\ r.pc # "reissue"
        /\ next.lineage = r.attrs.lineage /\ next.epoch = r.attrs.epoch
        /\ next.multi = r.attrs.multi \/ next.multi = TRUE
  BY ReauthenticateFacts
<1> DEFINE k == next.lineage
           a == rows[r.id].attrs
<1>2. /\ k \in Lineage /\ Sessions[k] = LiveAs(a)
      /\ Sessions' = [Sessions EXCEPT ![k] = LiveAs(next)]
      /\ account' = account /\ kept' = kept /\ r.id \in DOMAIN rows
  BY <1>1, ReplaceFacts
<1>3. a.epoch = next.epoch /\ a.multi = r.attrs.multi
  BY <1>1, <1>2, OwnRow
<1> HIDE DEF a, k
<1>4. CASE Sessions' = Sessions
  BY <1>2, <1>4 DEF Contract!vars, Sessions
<1>5. CASE Sessions' # Sessions
  <2>1. next.multi = TRUE
    <3>1. CASE next.multi = r.attrs.multi
      <4>1. LiveAs(next) = LiveAs(a)
        BY <1>3, <3>1, SMTT(30) DEF LiveAs
      <4>2. Sessions' = Sessions
        BY <1>2, <4>1 DEF Sessions
      <4> QED BY <1>5, <4>2, SMTT(30)
    <3> QED BY <1>1, <3>1
  <2>2. LiveAs(next) = Contract!Live(Sessions[k].epoch, TRUE) /\ Sessions[k].stage = "live"
    <3>1. LiveAs(a).stage = "live" /\ LiveAs(a).epoch = a.epoch
      BY LiveFields
    <3>2. LiveAs(next) = Contract!Live(next.epoch, next.multi)
      BY LiveFields
    <3>3. Sessions[k].stage = "live" /\ Sessions[k].epoch = next.epoch
      BY <1>2, <1>3, <3>1, SMTT(30)
    <3> QED BY <2>1, <3>2, <3>3
  <2>3. Sessions' = [Sessions EXCEPT ![k] = Contract!Live(Sessions[k].epoch, TRUE)]
    BY <1>2, <2>2
  <2>4. Contract!Prove(k)
    BY <2>2, <2>3 DEF Contract!Prove, Sessions
  <2> QED BY <1>2, <1>5, <2>4, SMTT(30) DEF Contract!Next, Sessions
<1> QED BY <1>4, <1>5, SMTT(30)

\* A Reissue takes up the epoch that the session's own change made.
LEMMA ReissueRefines ==
    ASSUME IInv, NEW q \in Request, Reissue(q), UNCHANGED scene
    PROVE  Contract!Next
<1> DEFINE r == req[q]
           next == r.attrs
           k == next.lineage
           a == rows[r.id].attrs
<1>1. Replace(q, next) /\ next \in Attrs /\ r.op # "login" /\ r.pc = "reissue"
  BY ReissueFacts DEF Reissue
<1>2. /\ k \in Lineage /\ Sessions[k] = LiveAs(a)
      /\ Sessions' = [Sessions EXCEPT ![k] = LiveAs(next)]
      /\ account' = account /\ kept' = kept /\ r.id \in DOMAIN rows
  BY <1>1, ReplaceFacts, SMTT(30)
<1>3. a.epoch = next.epoch - 1 /\ (a.multi => next.multi)
  BY <1>1, <1>2, OwnRow
<1>4. /\ next.epoch \in Nat /\ next.multi \in BOOLEAN /\ kept[next.epoch - 1] = k
  <2>1. /\ next.epoch \in Nat /\ next.multi \in BOOLEAN
        /\ Matches(r, rows, issued, Len(admitted), account.epoch, kept)
    BY RequestFacts
  <2> QED BY <1>1, <2>1 DEF Matches
<1> HIDE DEF a, k, next
<1>5. a.epoch + 1 = next.epoch /\ a.epoch # next.epoch /\ kept[a.epoch] = k
  <2>1. a.epoch + 1 = next.epoch /\ a.epoch # next.epoch
    BY <1>3, <1>4, SMTT(30)
  <2> QED BY <1>3, <1>4, <2>1, SMTT(30)
<1>6. /\ Sessions[k].stage = "live" /\ Sessions[k].epoch = a.epoch /\ Sessions[k].multi = a.multi
      /\ LiveAs(next) = Contract!Live(Sessions[k].epoch + 1, next.multi)
      /\ LiveAs(next).epoch = next.epoch
  BY <1>2, <1>5, LiveFields
<1>7. Sessions' # Sessions
  <2>1. Sessions'[k] = LiveAs(next)
    BY <1>2 DEF Sessions
  <2> QED BY <1>2, <1>5, <1>6, <2>1
<1>8. Sessions' = [Sessions EXCEPT ![k] = Contract!Live(Sessions[k].epoch + 1, next.multi)]
  BY <1>2, <1>6
<1>9. Contract!Follow(k)
  <2>1. kept[Sessions[k].epoch] = k /\ (Sessions[k].multi => next.multi)
    BY <1>3, <1>5, <1>6
  <2> QED BY <1>4, <1>6, <1>8, <2>1 DEF Contract!Follow, Sessions
<1> QED BY <1>2, <1>7, <1>9 DEF Contract!Next, Sessions

-----------------------------------------------------------------------------

\* A change by an operator is a change of the contract, or a stutter.
LEMMA AccountStepRefines ==
    ASSUME IInv, AccountStep, UNCHANGED rows
    PROVE  Contract!Next \/ UNCHANGED Contract!vars
<1>0. account \in [epoch : Epoch, disabled : Nat, must : Nat]
  BY SMTT(30) DEF IInv, StateType
<1>1. CASE Disable
  <2>1. Bump(0) /\ account'.epoch = account.epoch + 1 /\ admitted' = admitted
    BY <1>0, <1>1 DEF Disable, NoLineage
  <2> QED BY <2>1, BumpRefines
<1>2. CASE ReplacePassword
  <2>1. PICK must \in BOOLEAN : SetPassword(0, must)
    BY <1>2 DEF ReplacePassword, NoLineage
  <2>2. Bump(0) /\ account'.epoch = account.epoch + 1 /\ admitted' = admitted
    BY <1>0, <1>2, <2>1 DEF ReplacePassword, SetPassword
  <2> QED BY <2>2, BumpRefines
<1>3. CASE Enable \/ SetMustChange
  <2>1. account'.epoch = account.epoch /\ kept' = kept /\ admitted' = admitted
    BY <1>0, <1>3 DEF Enable, SetMustChange
  <2> QED BY <2>1, SameRows
<1> QED BY <1>1, <1>2, <1>3, SMTT(30) DEF AccountStep

\* The change that a request applies is a change of the contract.
LEMMA ApplyChangeRefines ==
    ASSUME IInv, NEW q \in Request, ApplyChange(q), UNCHANGED rows
    PROVE  Contract!Next
<1> DEFINE r == [req[q] EXCEPT !.required = FALSE]
<1>0. account \in [epoch : Epoch, disabled : Nat, must : Nat]
  BY DEF IInv, StateType
<1>1. /\ req[q] \in RequestType /\ req[q].attrs.lineage \in Nat
      /\ Matches(req[q], rows, issued, Len(admitted), account.epoch, kept)
  BY RequestFacts
<1>2. r.op = req[q].op /\ r.attrs = req[q].attrs
  BY <1>1 DEF RequestType
<1>3. PICK k \in Nat : /\ k = 0 \/ k = req[q].attrs.lineage
                       /\ Bump(k) /\ account'.epoch = account.epoch + 1
                       /\ req[q].op \in {"password", "enrol", "remove"}
  <2>1. CASE r.op = "password" /\ SetPassword(r.attrs.lineage, FALSE)
    BY <1>0, <1>1, <1>2, <2>1 DEF SetPassword
  <2>2. CASE r.op = "enrol" /\ BumpEpoch(r.attrs.lineage)
    BY <1>0, <1>1, <1>2, <2>2, SMTT(30) DEF BumpEpoch
  <2>3. CASE r.op = "remove" /\ BumpEpoch(NoLineage)
    BY <1>0, <1>1, <1>2, <2>3 DEF BumpEpoch, NoLineage
  <2> QED BY <2>1, <2>2, <2>3 DEF ApplyChange
<1>4. k = 0 \/ k \in 1 .. Len(admitted)
  BY <1>1, <1>3 DEF Matches
<1>5. admitted' = admitted
  BY DEF ApplyChange
<1> QED BY <1>3, <1>4, <1>5, BumpRefines

\* The other steps of a request neither write rows nor change the account's epoch.
LEMMA RequestStepRefines ==
    ASSUME IInv, NEW q \in Request, RequestStep(q), UNCHANGED rows
    PROVE  Contract!Next \/ UNCHANGED Contract!vars
<1>1. CASE ApplyChange(q)
  BY <1>1, ApplyChangeRefines, SMTT(30)
<1>2. CASE WriteFactor(q)
  BY <1>2, SameRows DEF WriteFactor
<1>3. CASE BeginLogin(q) \/ Abandon(q) \/ ReadState(q) \/ ReadFactor(q) \/ Proceed(q)
  <2>1. \E r : Reads(q, r)
    BY <1>3 DEF BeginLogin, Abandon, ReadState, ReadFactor, Proceed
  <2>2. account' = account /\ kept' = kept /\ admitted' = admitted
    BY <2>1 DEF Reads, accountVars
  <2> QED BY <2>2, SameRows
<1> QED BY <1>1, <1>2, <1>3 DEF RequestStep

\* Every step of a request is a step of the contract, or a stutter.
LEMMA StepRefines ==
    ASSUME IInv, NEW q \in Request, Step(q), UNCHANGED scene
    PROVE  Contract!Next \/ UNCHANGED Contract!vars
<1>1. CASE BeginResume(q)
  <2>1. account' = account /\ kept' = kept /\ admitted' = admitted /\ rows' = rows
    BY <1>1 DEF BeginResume, Reads, accountVars
  <2> QED BY <2>1, SameRows
<1>2. CASE Touch(q)
  <2>1. account' = account /\ kept' = kept /\ admitted' = admitted
    BY <1>2 DEF Touch, Writes, accountVars
  <2> QED BY <1>2, <2>1, TouchInv, InPlaceRefines
<1>3. CASE Rotate(q)
  <2>1. account' = account /\ kept' = kept /\ admitted' = admitted
    BY <1>3 DEF Rotate, Writes, accountVars
  <2> QED BY <1>3, <2>1, RotateInv, InPlaceRefines
<1>4. CASE RevokeUnknown(q)
  <2>1. /\ rows' = Without({req[q].id})
        /\ account' = account /\ kept' = kept /\ admitted' = admitted
    BY <1>4 DEF RevokeUnknown, Writes, accountVars
  <2> QED BY <2>1, LeaveRefines
<1> QED BY <1>1, <1>2, <1>3, <1>4, StartRefines, ReauthenticateRefines, ReissueRefines DEF Step

\* So is every step.
LEMMA NextRefines == IInv /\ [Next]_vars => [Contract!Next]_(Contract!vars)
<1> SUFFICES ASSUME IInv, [Next]_vars PROVE Contract!Next \/ UNCHANGED Contract!vars
  BY SMTT(30)
<1>1. CASE UNCHANGED vars
  <2>1. account' = account /\ kept' = kept /\ admitted' = admitted /\ rows' = rows
    BY <1>1 DEF vars, sharedVars, accountVars
  <2> QED BY <2>1, SameRows
<1>2. CASE Next
  <2>1. CASE Tick /\ UNCHANGED rows
    <3>1. account' = account /\ kept' = kept /\ admitted' = admitted /\ rows' = rows
      BY <2>1 DEF Tick, accountVars
    <3> QED BY <3>1, SameRows
  <2>2. CASE Deliver \/ Revoke \/ Erase \/ ReapExpired
    <3>1. PICK S : rows' = Without(S)
      BY <2>2 DEF Deliver, Revoke, Erase, ReapExpired
    <3>2. account' = account /\ kept' = kept /\ admitted' = admitted
      BY <2>2 DEF Deliver, Revoke, Erase, ReapExpired, accountVars
    <3> QED BY <3>1, <3>2, LeaveRefines
  <2> QED BY <1>2, <2>1, <2>2, AccountStepRefines, RequestStepRefines, StepRefines DEF Next
<1> QED BY <1>1, <1>2

\* The empty store has no session.
LEMMA InitRefines == Init => Contract!Init
<1> SUFFICES ASSUME Init PROVE Contract!Init
  BY SMTT(30)
<1>1. account.epoch = 1 /\ kept = [e \in Epoch |-> NoLineage] /\ admitted = <<>>
  BY DEF Init, InitRequests
<1>2. \A l \in Lineage : Session(l) = None
  <2>1. \A l \in Lineage : l \notin 1 .. Len(admitted)
    BY <1>1, SMTT(30)
  <2> QED BY <2>1 DEF Session, None
<1> QED BY <1>1, <1>2 DEF Contract!Init, Contract!None, None

\* The stateful backend implements the contract of sessions, for every number of
\* requests in flight, sessions and epochs: a session is admitted once and ends
\* once, and Reissue follows only the session's own change.
THEOREM Refinement == Spec => KeepsContract
<1>1. Spec => Contract!Spec
  BY InitRefines, NextRefines, Invariance, PTL DEF Spec, Contract!Spec
<1> QED BY <1>1 DEF KeepsContract

===============================================================================
