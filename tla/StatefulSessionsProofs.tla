------------------------ MODULE StatefulSessionsProofs ------------------------
(***************************************************************************)
(* The stateful backend keeps one row for each session, for every number   *)
(* of requests, sessions and epochs: IInv is inductive, with a lemma for   *)
(* each step.                                                              *)
(***************************************************************************)
EXTENDS StatefulSessions, TLAPS

\* Zenon proves the steps that name no prover; the SMT solver those with arithmetic.
USE Zenon

\* The rows of t2 among the first n ids are rows of t1, of the same session.
Subtable(t1, t2, n) ==
    \A i \in DOMAIN t2 : i \in 1 .. n =>
        /\ i \in DOMAIN t1
        /\ t2[i].attrs.lineage = t1[i].attrs.lineage
        /\ t2[i].attrs.epoch = t1[i].attrs.epoch
        /\ t2[i].attrs.multi = t1[i].attrs.multi

\* The epoch before a later one is an epoch.
LEMMA Previous ==
    ASSUME NEW e \in Epoch, NEW f \in Nat, f >= 2, f <= e
    PROVE  f - 1 \in Epoch /\ f - 1 < e
BY TimeAssumption, SMTT(30) DEF Epoch

\* Whatever a request knew of its session it still knows after a step that takes
\* rows away, adds rows under new ids, admits lineages and bumps the epoch.
LEMMA MatchesKept ==
    ASSUME NEW r \in RequestType, NEW t1, NEW t2, NEW n1 \in Nat, NEW n2 \in Nat,
           NEW l1 \in Nat, NEW l2 \in Nat, NEW e1 \in Epoch, NEW e2 \in Epoch,
           NEW k1 \in [Epoch -> Nat], NEW k2 \in [Epoch -> Nat],
           Matches(r, t1, n1, l1, e1, k1), Subtable(t1, t2, n1),
           n1 <= n2, l1 <= l2, e1 <= e2,
           \A e \in Epoch : e < e1 => k2[e] = k1[e]
    PROVE  Matches(r, t2, n2, l2, e2, k2)
<1>1. /\ MaxEpoch \in Nat /\ e1 \in Nat /\ e2 \in Nat
      /\ r.id \in Nat /\ r.attrs.epoch \in Nat /\ r.attrs.lineage \in Nat
  <2>1. r.id \in Nat /\ r.attrs \in Attrs
    BY DEF RequestType
  <2>2. r.attrs.epoch \in Nat /\ r.attrs.lineage \in Nat
    BY <2>1 DEF Attrs
  <2>3. MaxEpoch \in Nat /\ e1 \in Nat /\ e2 \in Nat
    BY TimeAssumption, SMTT(30) DEF Epoch
  <2> QED BY <2>1, <2>2, <2>3
<1>2. CASE r.op = "login"
  BY <1>1, <1>2, SMTT(30) DEF Matches
<1>3. CASE r.op # "login"
  <2>1. r.id \in 1 .. n2 /\ r.attrs.lineage \in 1 .. l2 /\ r.attrs.epoch >= 1 /\ r.attrs.epoch <= e2
    BY <1>1, <1>3, SMTT(30) DEF Matches
  <2>2. ASSUME r.id \in DOMAIN t2
        PROVE  /\ r.id \in DOMAIN t1
               /\ t2[r.id].attrs.lineage = t1[r.id].attrs.lineage
               /\ t2[r.id].attrs.epoch = t1[r.id].attrs.epoch
               /\ t2[r.id].attrs.multi = t1[r.id].attrs.multi
    <3>1. r.id \in 1 .. n1
      BY <1>3 DEF Matches
    <3> QED BY <2>2, <3>1 DEF Subtable
  <2>3. ASSUME r.pc = "reissue"
        PROVE  r.attrs.epoch >= 2 /\ k2[r.attrs.epoch - 1] = r.attrs.lineage
    <3>1. r.attrs.epoch >= 2 /\ r.attrs.epoch <= e1 /\ k1[r.attrs.epoch - 1] = r.attrs.lineage
      BY <1>3, <2>3 DEF Matches
    <3>2. r.attrs.epoch - 1 \in Epoch /\ r.attrs.epoch - 1 < e1
      BY <1>1, <3>1, Previous
    <3> QED BY <3>1, <3>2
  <2>4. ASSUME r.op \in {"password", "enrol"} /\ r.pc \in {"state", "factor_write"}
        PROVE  \E e \in Epoch : r.attrs.epoch <= e /\ e < e2 /\ k2[e] = r.attrs.lineage
    <3>1. PICK e \in Epoch : r.attrs.epoch <= e /\ e < e1 /\ k1[e] = r.attrs.lineage
      BY <1>3, <2>4 DEF Matches
    <3>2. e < e2 /\ k2[e] = r.attrs.lineage
      BY <1>1, <3>1, SMTT(30) DEF Epoch
    <3> QED BY <3>1, <3>2
  <2> QED BY <1>3, <2>1, <2>2, <2>3, <2>4 DEF Matches
<1> QED BY <1>2, <1>3

-----------------------------------------------------------------------------
\* What the writes of the store do to the table of rows.

\* DeleteForSubject, Delete and the reaper: rows leave.
LEMMA RowsLeave ==
    ASSUME NEW t, NEW n \in Nat, NEW adm, NEW e1 \in Nat, NEW e2 \in Nat, NEW S,
           RowsOK(t, n, adm, e1), e1 <= e2
    PROVE  /\ RowsOK([i \in DOMAIN t \ S |-> t[i]], n, adm, e2)
           /\ Subtable(t, [i \in DOMAIN t \ S |-> t[i]], n)
<1> DEFINE u == [i \in DOMAIN t \ S |-> t[i]]
<1>1. DOMAIN u = DOMAIN t \ S /\ \A i \in DOMAIN u : u[i] = t[i]
  BY SMTT(30)
<1>2. u = [i \in DOMAIN u |-> u[i]]
  BY SMTT(30)
<1> HIDE DEF u
<1>3. \A i \in DOMAIN t : t[i].attrs.epoch \in 1 .. e2
  BY SMTT(30) DEF RowsOK
<1>4. RowsOK(u, n, adm, e2)
  BY <1>1, <1>2, <1>3, ZenonT(40) DEF RowsOK
<1>5. Subtable(t, u, n)
  BY <1>1 DEF Subtable
<1> QED BY <1>4, <1>5 DEF u

\* No write: the epoch alone may move on.
LEMMA RowsStay ==
    ASSUME NEW t, NEW n \in Nat, NEW adm, NEW e1 \in Nat, NEW e2 \in Nat,
           RowsOK(t, n, adm, e1), e1 <= e2
    PROVE  RowsOK(t, n, adm, e2) /\ Subtable(t, t, n)
<1>1. \A i \in DOMAIN t : t[i].attrs.epoch \in 1 .. e2
  BY SMTT(30) DEF RowsOK
<1> QED BY <1>1 DEF RowsOK, Subtable

\* Touch and Rotate: a row is written in place, of the same session.
LEMMA RowWritten ==
    ASSUME NEW t, NEW n \in Nat, NEW adm, NEW e \in Nat, NEW i \in DOMAIN t, NEW row \in Row,
           RowsOK(t, n, adm, e),
           row.attrs.lineage = t[i].attrs.lineage, row.attrs.epoch = t[i].attrs.epoch,
           row.attrs.multi = t[i].attrs.multi,
           row.idle <= adm[row.attrs.lineage].at + MaxLifetime
    PROVE  /\ RowsOK([t EXCEPT ![i] = row], n, adm, e)
           /\ Subtable(t, [t EXCEPT ![i] = row], n)
<1> DEFINE u == [t EXCEPT ![i] = row]
<1>0. t = [j \in DOMAIN t |-> t[j]]
  BY DEF RowsOK
<1>1. /\ DOMAIN u = DOMAIN t /\ u[i] = row
      /\ \A j \in DOMAIN t : j # i => u[j] = t[j]
  BY <1>0
<1>2. u = [j \in DOMAIN u |-> u[j]]
  BY SMTT(30)
<1> HIDE DEF u
<1>3. \A j \in DOMAIN t : u[j].attrs.lineage = t[j].attrs.lineage
                         /\ u[j].attrs.epoch = t[j].attrs.epoch
                         /\ u[j].attrs.multi = t[j].attrs.multi
  BY <1>1
<1>4. \A j \in DOMAIN u : u[j] \in Row /\ u[j].idle <= adm[u[j].attrs.lineage].at + MaxLifetime
  BY <1>1 DEF RowsOK
<1>5. RowsOK(u, n, adm, e)
  BY <1>1, <1>2, <1>3, <1>4, ZenonT(40) DEF RowsOK
<1>6. Subtable(t, u, n)
  BY <1>1, <1>3 DEF Subtable
<1> QED BY <1>5, <1>6 DEF u

\* Start and Replace: a row is inserted under a new id, for a lineage without one.
LEMMA RowInserted ==
    ASSUME NEW t, NEW n \in Nat, NEW adm, NEW adm2, NEW e \in Nat, NEW row \in Row,
           RowsOK(t, n, adm, e),
           Len(adm) \in Nat, Len(adm2) \in Nat, Len(adm) <= Len(adm2),
           \A l \in 1 .. Len(adm) : adm2[l] = adm[l],
           row.attrs.lineage \in 1 .. Len(adm2), row.attrs.epoch \in 1 .. e,
           row.idle <= adm2[row.attrs.lineage].at + MaxLifetime,
           \A i \in DOMAIN t : t[i].attrs.lineage # row.attrs.lineage
    PROVE  /\ RowsOK(With(t, n + 1, row), n + 1, adm2, e)
           /\ Subtable(t, With(t, n + 1, row), n)
<1> DEFINE u == With(t, n + 1, row)
<1>1. DOMAIN t \subseteq 1 .. n /\ n + 1 \notin DOMAIN t
  <2>1. DOMAIN t \subseteq 1 .. n
    BY DEF RowsOK
  <2> QED BY <2>1, SMTT(30)
<1>2. /\ DOMAIN u = DOMAIN t \cup {n + 1} /\ u[n + 1] = row
      /\ \A j \in DOMAIN t : u[j] = t[j]
  BY <1>1 DEF With
<1>3. u = [j \in DOMAIN u |-> u[j]]
  BY DEF With
<1> HIDE DEF u
<1>4. DOMAIN u \subseteq 1 .. n + 1
  BY <1>1, <1>2, SMTT(30)
<1>5. ASSUME NEW j \in DOMAIN t
      PROVE  /\ t[j].attrs.lineage \in 1 .. Len(adm2)
             /\ t[j].idle <= adm2[t[j].attrs.lineage].at + MaxLifetime
  <2>1. t[j].attrs.lineage \in 1 .. Len(adm) /\ t[j].idle <= adm[t[j].attrs.lineage].at + MaxLifetime
    BY DEF RowsOK
  <2>2. t[j].attrs.lineage \in 1 .. Len(adm2)
    BY <2>1, SMTT(30)
  <2>3. adm2[t[j].attrs.lineage] = adm[t[j].attrs.lineage]
    BY <2>1
  <2> QED BY <2>1, <2>2, <2>3
<1>6. \A j \in DOMAIN u : /\ u[j] \in Row
                          /\ u[j].attrs.lineage \in 1 .. Len(adm2)
                          /\ u[j].idle <= adm2[u[j].attrs.lineage].at + MaxLifetime
                          /\ u[j].attrs.epoch \in 1 .. e
  BY <1>2, <1>5 DEF RowsOK
<1>7. \A i, j \in DOMAIN u : u[i].attrs.lineage = u[j].attrs.lineage => i = j
  BY <1>2 DEF RowsOK
<1>8. RowsOK(u, n + 1, adm2, e)
  BY <1>3, <1>4, <1>6, <1>7 DEF RowsOK
<1>9. Subtable(t, u, n)
  <2>1. \A i \in DOMAIN u : i \in 1 .. n => i \in DOMAIN t
    BY <1>2, SMTT(30)
  <2> QED BY <1>2, <2>1 DEF Subtable
<1> QED BY <1>8, <1>9 DEF u

-----------------------------------------------------------------------------
\* The invariant from one state to the next.

\* The only requests to look at are the ones that a step changes.
LEMMA StepInv ==
    ASSUME IInv, StateType', RowsOK(rows, issued, admitted, account.epoch)',
           Subtable(rows, rows', issued), issued <= issued', Len(admitted) <= Len(admitted'),
           account.epoch <= account'.epoch,
           \A e \in Epoch : e < account.epoch => kept'[e] = kept[e],
           \A p \in Request :
               \/ req'[p] = req[p]
               \/ Matches(req'[p], rows', issued', Len(admitted'), account'.epoch, kept')
    PROVE  IInv'
<1>1. /\ issued \in Nat /\ issued' \in Nat /\ Len(admitted) \in Nat /\ Len(admitted') \in Nat
      /\ account.epoch \in Epoch /\ account'.epoch \in Epoch
      /\ kept \in [Epoch -> Nat] /\ kept' \in [Epoch -> Nat]
  <2> DEFINE Typed == [epoch : Epoch, disabled : Nat, must : Nat]
             Logins == [at : Nat, epoch : Nat]
  <2>1. /\ issued \in Nat /\ issued' \in Nat /\ account \in Typed /\ account' \in Typed
        /\ admitted \in Seq(Logins) /\ admitted' \in Seq(Logins)
        /\ kept \in [Epoch -> Nat] /\ kept' \in [Epoch -> Nat]
    BY DEF IInv, StateType
  <2>2. account.epoch \in Epoch /\ account'.epoch \in Epoch
    BY <2>1
  <2>3. \A s \in Seq(Logins) : Len(s) \in Nat
    BY SMTT(30)
  <2> QED BY <2>1, <2>2, <2>3
<1>2. ASSUME NEW p \in Request
      PROVE  Matches(req'[p], rows', issued', Len(admitted'), account'.epoch, kept')
  <2>1. req[p] \in RequestType
    BY DEF IInv, StateType
  <2>2. Matches(req[p], rows, issued, Len(admitted), account.epoch, kept)
    BY DEF IInv
  <2>3. Matches(req[p], rows', issued', Len(admitted'), account'.epoch, kept')
    BY <1>1, <2>1, <2>2, MatchesKept
  <2> QED BY <2>3
<1> QED BY <1>2 DEF IInv

\* What the invariant says of one request.
LEMMA RequestFacts ==
    ASSUME IInv, NEW q \in Request
    PROVE  /\ req[q] \in RequestType
           /\ req[q].attrs \in Attrs /\ req[q].at \in Nat /\ req[q].id \in Nat
           /\ req[q].attrs.epoch \in Nat /\ req[q].attrs.lineage \in Nat
           /\ req[q].attrs.multi \in BOOLEAN /\ req[q].attrs.must \in BOOLEAN
           /\ Matches(req[q], rows, issued, Len(admitted), account.epoch, kept)
<1>1. req[q] \in RequestType
  BY DEF IInv, StateType
<1>2. req[q].attrs \in Attrs /\ req[q].at \in Nat /\ req[q].id \in Nat
  BY <1>1 DEF RequestType
<1> QED BY <1>1, <1>2 DEF IInv, Attrs

\* The types of the account and of the counters, from the invariant.
LEMMA AccountFacts ==
    ASSUME IInv
    PROVE  /\ account.epoch \in Epoch /\ account.epoch \in Nat
           /\ account.disabled \in Nat /\ account.must \in Nat
           /\ issued \in Nat /\ Len(admitted) \in Nat /\ now \in Nat
           /\ RowsOK(rows, issued, admitted, account.epoch)
<1>1. /\ account \in [epoch : Epoch, disabled : Nat, must : Nat] /\ issued \in Nat /\ now \in Nat
      /\ admitted \in Seq([at : Nat, epoch : Nat]) /\ RowsOK(rows, issued, admitted, account.epoch)
  BY DEF IInv, StateType
<1>2. account.epoch \in Epoch /\ account.disabled \in Nat /\ account.must \in Nat
  BY <1>1
<1>3. account.epoch \in Nat
  BY <1>2, TimeAssumption, SMTT(30) DEF Epoch
<1>4. Len(admitted) \in Nat
  BY <1>1, SMTT(30)
<1> QED
  BY <1>1, <1>2, <1>3, <1>4

\* An idle request matches any table.
LEMMA IdleFits ==
    ASSUME NEW t, NEW n \in Nat, NEW l \in Nat, NEW e \in Nat, NEW k
    PROVE  Idle \in RequestType /\ Matches(Idle, t, n, l, e, k)
<1>1. (CHOOSE f \in Factor : TRUE) \in Factor
  BY TimeAssumption
<1> QED BY <1>1, SMTT(30) DEF Idle, RequestType, Matches, NoAttrs, Attrs, NoId, NoLineage, Pc, Op

\* The empty store satisfies the invariant.
LEMMA InitInv == Init => IInv
<1> SUFFICES ASSUME Init PROVE IInv
  BY SMTT(30)
<1>0. MaxEpoch \in Nat /\ 1 \in Epoch /\ MaxLogins \in Nat
  BY TimeAssumption, SMTT(30) DEF Epoch
<1>1. Idle \in RequestType /\ Matches(Idle, rows, issued, Len(admitted), 1, kept)
  BY IdleFits DEF Init, InitRequests
<1>2. StateType
  BY <1>0, <1>1, SMTT(30) DEF Init, InitRequests, StateType, NoLineage
<1>3. RowsOK(rows, issued, admitted, account.epoch)
  BY DEF Init, RowsOK
<1>4. \A q \in Request : Matches(req[q], rows, issued, Len(admitted), account.epoch, kept)
  <2>1. account.epoch = 1 /\ \A q \in Request : req[q] = Idle
    BY DEF Init, InitRequests
  <2> QED BY <1>1, <2>1
<1> QED BY <1>2, <1>3, <1>4 DEF IInv

\* A step that only reads.
LEMMA ReadsInv ==
    ASSUME IInv, NEW q \in Request, NEW r \in RequestType, Reads(q, r), UNCHANGED <<rows, scene>>,
           Matches(r, rows, issued, Len(admitted), account.epoch, kept)
    PROVE  IInv'
<1>1. /\ now' = now /\ account' = account /\ enrolled' = enrolled /\ kept' = kept /\ left' = left
      /\ admitted' = admitted /\ issued' = issued /\ rows' = rows /\ scene' = scene
      /\ req' = [req EXCEPT ![q] = r]
  BY DEF Reads, Goto, accountVars
<1>2. StateType'
  BY <1>1 DEF IInv, StateType
<1>3. RowsOK(rows, issued, admitted, account.epoch)' /\ Subtable(rows, rows', issued)
  BY <1>1, AccountFacts, RowsStay, SMTT(30)
<1>4. req'[q] = r /\ \A p \in Request : p # q => req'[p] = req[p]
  BY <1>1 DEF IInv, StateType
<1>5. \A p \in Request :
        \/ req'[p] = req[p]
        \/ Matches(req'[p], rows', issued', Len(admitted'), account'.epoch, kept')
  BY <1>1, <1>4
<1>6. /\ issued <= issued' /\ Len(admitted) <= Len(admitted') /\ account.epoch <= account'.epoch
      /\ \A e \in Epoch : e < account.epoch => kept'[e] = kept[e]
  BY <1>1, AccountFacts, SMTT(30)
<1> QED BY <1>2, <1>3, <1>5, <1>6, StepInv

-----------------------------------------------------------------------------
\* The steps that requests of every backend take.

\* A login begins, a request ends early, reads the account or a factor, or passes
\* the gate of its route: the rows stay as they are.
LEMMA BeginLoginInv ==
    ASSUME IInv, NEW q \in Request, BeginLogin(q), UNCHANGED <<rows, scene>>
    PROVE  IInv'
<1>1. PICK multi \in BOOLEAN :
        Reads(q, [Idle EXCEPT !.pc = "state", !.at = now,
                              !.attrs = [NoAttrs EXCEPT !.multi = multi]])
  BY DEF BeginLogin
<1> DEFINE r == [Idle EXCEPT !.pc = "state", !.at = now,
                             !.attrs = [NoAttrs EXCEPT !.multi = multi]]
<1>2. Idle \in RequestType
  BY AccountFacts, IdleFits
<1>3. r \in RequestType
  BY <1>2, AccountFacts DEF RequestType, Attrs, NoAttrs, NoLineage, Pc
<1>4. r.op = "login" /\ r.pc = "state" /\ r.attrs.epoch = 0
  BY DEF Idle, NoAttrs
<1>5. Reads(q, r)
  BY <1>1
<1> HIDE DEF r
<1>6. Matches(r, rows, issued, Len(admitted), account.epoch, kept)
  BY <1>4, AccountFacts, SMTT(30) DEF Matches
<1> QED BY <1>3, <1>5, <1>6, ReadsInv

LEMMA AbandonInv ==
    ASSUME IInv, NEW q \in Request, Abandon(q), UNCHANGED <<rows, scene>>
    PROVE  IInv'
<1>1. Idle \in RequestType /\ Matches(Idle, rows, issued, Len(admitted), account.epoch, kept)
  BY AccountFacts, IdleFits
<1> QED BY <1>1, ReadsInv DEF Abandon

\* A request that moves on with the same row and the same attributes still matches
\* the table, at any step before its own change.
LEMMA SameSession ==
    ASSUME NEW r \in RequestType, NEW s \in RequestType,
           NEW t, NEW n \in Nat, NEW l \in Nat, NEW e \in Epoch, NEW k \in [Epoch -> Nat],
           Matches(r, t, n, l, e, k), r.op # "login", r.pc # "reissue",
           s.op # "login", s.pc # "reissue", s.pc # "factor_write",
           s.op \in {"password", "enrol"} => s.pc # "state",
           s.id = r.id, s.attrs.lineage = r.attrs.lineage, s.attrs.epoch = r.attrs.epoch,
           s.attrs.multi = r.attrs.multi
    PROVE  Matches(s, t, n, l, e, k)
BY DEF Matches

LEMMA ReadStateInv ==
    ASSUME IInv, NEW q \in Request, ReadState(q), UNCHANGED <<rows, scene>>
    PROVE  IInv'
<1> DEFINE r == req[q]
<1>1. /\ r \in RequestType /\ r.attrs \in Attrs /\ r.attrs.epoch \in Nat /\ r.pc = "state"
      /\ r.attrs.lineage \in Nat
      /\ r.attrs.multi \in BOOLEAN /\ r.attrs.must \in BOOLEAN
      /\ Matches(r, rows, issued, Len(admitted), account.epoch, kept)
  BY RequestFacts DEF ReadState
<1>2. CASE /\ r.op = "login"
           /\ Reads(q, [r EXCEPT !.pc = "factors", !.unread = Factor, !.attrs = AdmitAttrs(r.attrs)])
  <2> DEFINE s == [r EXCEPT !.pc = "factors", !.unread = Factor, !.attrs = AdmitAttrs(r.attrs)]
  <2>1. s \in RequestType /\ s.op = "login" /\ s.pc = "factors" /\ s.attrs.epoch = account.epoch
    BY <1>1, <1>2, AccountFacts DEF RequestType, AdmitAttrs, Attrs, MustChange, Pc
  <2> HIDE DEF s
  <2>2. account.epoch >= 1 /\ account.epoch \in Nat
    BY AccountFacts, TimeAssumption, SMTT(30) DEF Epoch
  <2>3. Matches(s, rows, issued, Len(admitted), account.epoch, kept)
    BY <2>1, <2>2, SMTT(30) DEF Matches
  <2> QED BY <1>2, <2>1, <2>3, ReadsInv DEF s
<1>3. CASE /\ r.op \in {"resume", "reauth"}
           /\ Reads(q, [r EXCEPT !.pc = "factors", !.unread = Factor, !.attrs = RenewAttrs(r.attrs)])
  <2> DEFINE s == [r EXCEPT !.pc = "factors", !.unread = Factor, !.attrs = RenewAttrs(r.attrs)]
  <2>1. /\ s \in RequestType /\ s.op = r.op /\ s.pc = "factors" /\ s.id = r.id
        /\ s.attrs.lineage = r.attrs.lineage /\ s.attrs.epoch = r.attrs.epoch
        /\ s.attrs.multi = r.attrs.multi
    BY <1>1, <1>3, AccountFacts DEF RequestType, RenewAttrs, Attrs, MustChange, Pc
  <2> HIDE DEF s
  <2>2. kept \in [Epoch -> Nat] /\ account.epoch \in Epoch /\ issued \in Nat /\ Len(admitted) \in Nat
    BY AccountFacts DEF IInv, StateType
  <2>3. Matches(s, rows, issued, Len(admitted), account.epoch, kept)
    BY <1>1, <1>3, <2>1, <2>2, SameSession
  <2> QED BY <1>3, <2>1, <2>3, ReadsInv DEF s
<1>4. CASE /\ r.op \in {"password", "enrol"}
           /\ Bumped(r.attrs)
           /\ Reads(q, [r EXCEPT !.pc = "reissue",
                            !.attrs = IF r.op = "enrol" THEN FactorEnrolledAttrs(r.attrs)
                                      ELSE PasswordChangedAttrs(r.attrs)])
  <2> DEFINE a == IF r.op = "enrol" THEN FactorEnrolledAttrs(r.attrs) ELSE PasswordChangedAttrs(r.attrs)
             s == [r EXCEPT !.pc = "reissue", !.attrs = a]
  <2>1. /\ a \in Attrs /\ a.lineage = r.attrs.lineage /\ a.epoch = account.epoch
        /\ r.attrs.multi => a.multi
    BY <1>1, AccountFacts DEF FactorEnrolledAttrs, PasswordChangedAttrs, Attrs, MustChange
  <2> HIDE DEF a
  <2>2. s \in RequestType /\ s.op = r.op /\ s.pc = "reissue" /\ s.id = r.id /\ s.attrs = a
    BY <1>1, <2>1 DEF RequestType, Pc
  <2> HIDE DEF s
  <2>3. PICK e \in Epoch : r.attrs.epoch <= e /\ e < account.epoch /\ kept[e] = r.attrs.lineage
    BY <1>1, <1>4 DEF Matches
  <2>4. account.epoch = r.attrs.epoch + 1 /\ e \in Nat /\ r.attrs.epoch >= 1
    BY <1>1, <1>4, TimeAssumption, SMTT(30) DEF Bumped, Epoch, Matches
  <2>5. /\ account.epoch - 1 = r.attrs.epoch /\ e = r.attrs.epoch /\ account.epoch >= 2
        /\ account.epoch <= account.epoch
    BY <1>1, <2>3, <2>4, SMTT(30)
  <2>6. kept[account.epoch - 1] = r.attrs.lineage
    BY <2>3, <2>5
  <2>7. ASSUME r.id \in DOMAIN rows
        PROVE  /\ rows[r.id].attrs.lineage = r.attrs.lineage
               /\ rows[r.id].attrs.epoch = account.epoch - 1
               /\ rows[r.id].attrs.multi => a.multi
    BY <1>1, <1>4, <2>1, <2>5, <2>7 DEF Matches
  <2>8. r.id \in 1 .. issued /\ r.attrs.lineage \in 1 .. Len(admitted) /\ account.epoch >= 1
    <3>1. r.id \in 1 .. issued /\ r.attrs.lineage \in 1 .. Len(admitted)
      BY <1>1, <1>4 DEF Matches
    <3> QED BY <3>1, <2>5, AccountFacts, SMTT(30)
  <2>9. Matches(s, rows, issued, Len(admitted), account.epoch, kept)
    BY <1>4, <2>1, <2>2, <2>5, <2>6, <2>7, <2>8 DEF Matches
  <2> QED BY <1>4, <2>2, <2>9, ReadsInv DEF s, a
<1> QED BY <1>2, <1>3, <1>4 DEF ReadState

LEMMA ReadFactorInv ==
    ASSUME IInv, NEW q \in Request, ReadFactor(q), UNCHANGED <<rows, scene>>
    PROVE  IInv'
<1> DEFINE r == req[q]
<1>1. PICK f \in r.unread : Reads(q, [r EXCEPT !.unread = r.unread \ {f},
                                               !.required = r.required \/ enrolled[f] # 0])
  BY DEF ReadFactor
<1> DEFINE s == [r EXCEPT !.unread = r.unread \ {f}, !.required = r.required \/ enrolled[f] # 0]
<1>2. /\ r \in RequestType /\ r.pc = "factors"
      /\ Matches(r, rows, issued, Len(admitted), account.epoch, kept)
  BY RequestFacts DEF ReadFactor
<1>3. s \in RequestType /\ s.op = r.op /\ s.pc = r.pc /\ s.id = r.id /\ s.attrs = r.attrs
  BY <1>2 DEF RequestType
<1>4. Reads(q, s)
  BY <1>1
<1> HIDE DEF s
<1>5. Matches(s, rows, issued, Len(admitted), account.epoch, kept)
  BY <1>2, <1>3 DEF Matches
<1> QED BY <1>3, <1>4, <1>5, ReadsInv

LEMMA ProceedInv ==
    ASSUME IInv, NEW q \in Request, Proceed(q), UNCHANGED <<rows, scene>>
    PROVE  IInv'
<1> DEFINE r == req[q]
<1>1. /\ r \in RequestType /\ r.pc = "answered"
      /\ Matches(r, rows, issued, Len(admitted), account.epoch, kept)
  BY RequestFacts DEF Proceed
<1>2. r.op # "login"
  BY <1>1 DEF Matches
<1>3. kept \in [Epoch -> Nat] /\ account.epoch \in Epoch /\ issued \in Nat /\ Len(admitted) \in Nat
  BY AccountFacts DEF IInv, StateType
<1>4. CASE Reads(q, [r EXCEPT !.pc = "state", !.op = "reauth"])
  <2> DEFINE s == [r EXCEPT !.pc = "state", !.op = "reauth"]
  <2>1. s \in RequestType /\ s.op = "reauth" /\ s.pc = "state" /\ s.id = r.id /\ s.attrs = r.attrs
    BY <1>1 DEF RequestType, Pc, Op
  <2> HIDE DEF s
  <2>2. Matches(s, rows, issued, Len(admitted), account.epoch, kept)
    BY <1>1, <1>2, <1>3, <2>1, SameSession
  <2> QED BY <1>4, <2>1, <2>2, ReadsInv DEF s
<1>5. CASE \E op \in scene.ops \cap {"password", "enrol", "remove"}, f \in Factor :
             Reads(q, [r EXCEPT !.pc = "factors", !.op = op, !.factor = f, !.unread = Factor])
  <2>1. PICK op \in {"password", "enrol", "remove"}, f \in Factor :
             Reads(q, [r EXCEPT !.pc = "factors", !.op = op, !.factor = f, !.unread = Factor])
    BY <1>5
  <2> DEFINE s == [r EXCEPT !.pc = "factors", !.op = op, !.factor = f, !.unread = Factor]
  <2>2. s \in RequestType /\ s.op = op /\ s.pc = "factors" /\ s.id = r.id /\ s.attrs = r.attrs
    BY <1>1 DEF RequestType, Pc, Op
  <2> HIDE DEF s
  <2>3. Matches(s, rows, issued, Len(admitted), account.epoch, kept)
    BY <1>1, <1>2, <1>3, <2>2, SameSession
  <2> QED BY <2>1, <2>2, <2>3, ReadsInv DEF s
<1> QED BY <1>4, <1>5 DEF Proceed

-----------------------------------------------------------------------------
\* Changes of the account.

\* A step that leaves the rows alone.
LEMMA AccountInv ==
    ASSUME IInv, UNCHANGED <<rows, scene, admitted, issued>>, now' \in Nat,
           account' \in [epoch : Epoch, disabled : Nat, must : Nat],
           enrolled' \in [Factor -> Nat], kept' \in [Epoch -> Nat], left' \in [Epoch -> Nat],
           account.epoch <= account'.epoch,
           \A e \in Epoch : e < account.epoch => kept'[e] = kept[e],
           req' \in [Request -> RequestType],
           \A p \in Request :
               \/ req'[p] = req[p]
               \/ Matches(req'[p], rows, issued, Len(admitted), account'.epoch, kept')
    PROVE  IInv'
<1>1. StateType'
  BY DEF IInv, StateType
<1>2. account'.epoch \in Nat
  BY TimeAssumption, SMTT(30) DEF Epoch
<1>3. RowsOK(rows, issued, admitted, account.epoch)' /\ Subtable(rows, rows', issued)
  BY <1>2, AccountFacts, RowsStay
<1>4. issued <= issued' /\ Len(admitted) <= Len(admitted')
  BY AccountFacts, SMTT(30)
<1> QED BY <1>1, <1>3, <1>4, StepInv

\* A bump records the lineage it keeps, and nothing about earlier epochs.
LEMMA BumpFacts ==
    ASSUME IInv, NEW l \in Nat, Bump(l)
    PROVE  /\ kept' \in [Epoch -> Nat] /\ left' \in [Epoch -> Nat]
           /\ kept' = [kept EXCEPT ![account.epoch] = l]
           /\ kept'[account.epoch] = l
           /\ \A e \in Epoch : e < account.epoch => kept'[e] = kept[e]
           /\ account.epoch + 1 \in Epoch /\ account.epoch <= account.epoch + 1
           /\ account.epoch < account.epoch + 1
<1>1. /\ account.epoch \in Epoch /\ now \in Nat
      /\ kept \in [Epoch -> Nat] /\ left \in [Epoch -> Nat]
  BY DEF IInv, StateType
<1>2. scene.epochs \in 1 .. MaxEpoch
  BY ScenarioAssumption DEF IInv, StateType
<1>3. account.epoch + 1 \in Epoch /\ account.epoch <= account.epoch + 1
      /\ account.epoch < account.epoch + 1
  <2>1. account.epoch < scene.epochs
    BY DEF Bump
  <2>2. account.epoch \in Nat /\ account.epoch >= 1 /\ MaxEpoch \in Nat
    BY <1>1, TimeAssumption, SMTT(30) DEF Epoch
  <2> QED BY <1>2, <2>1, <2>2, SMTT(30) DEF Epoch
<1>4. \A e \in Epoch : e < account.epoch => e # account.epoch
  BY <1>1, TimeAssumption, SMTT(30) DEF Epoch
<1>5. left' = [left EXCEPT ![account.epoch] = now] /\ kept' = [kept EXCEPT ![account.epoch] = l]
  BY DEF Bump
<1> QED BY <1>1, <1>3, <1>4, <1>5

\* An operator changes the account.
LEMMA AccountStepInv ==
    ASSUME IInv, AccountStep, UNCHANGED <<rows, scene>>
    PROVE  IInv'
<1>1. /\ account \in [epoch : Epoch, disabled : Nat, must : Nat] /\ now \in Nat
      /\ enrolled \in [Factor -> Nat] /\ req \in [Request -> RequestType]
      /\ kept \in [Epoch -> Nat] /\ left \in [Epoch -> Nat] /\ account.epoch \in Nat
  BY AccountFacts DEF IInv, StateType
<1>2. CASE Disable
  <2>1. Bump(0) /\ UNCHANGED <<now, enrolled, req, admitted, issued>>
    BY <1>2 DEF Disable, NoLineage
  <2>2. account' \in [epoch : Epoch, disabled : Nat, must : Nat] /\ account'.epoch = account.epoch + 1
    BY <1>1, <1>2, <2>1, BumpFacts DEF Disable
  <2> QED BY <1>1, <2>1, <2>2, BumpFacts, AccountInv
<1>3. CASE Enable
  <2>1. account' \in [epoch : Epoch, disabled : Nat, must : Nat] /\ account'.epoch = account.epoch
    BY <1>1, <1>3 DEF Enable
  <2>2. account.epoch <= account'.epoch
    BY <1>1, <2>1, SMTT(30)
  <2> QED BY <1>1, <1>3, <2>1, <2>2, AccountInv DEF Enable
<1>4. CASE ReplacePassword
  <2>1. PICK must \in BOOLEAN : SetPassword(0, must)
    BY <1>4 DEF ReplacePassword, NoLineage
  <2>2. Bump(0) /\ UNCHANGED <<now, enrolled, req, admitted, issued>>
    BY <1>4, <2>1 DEF ReplacePassword, SetPassword
  <2>3. account' \in [epoch : Epoch, disabled : Nat, must : Nat] /\ account'.epoch = account.epoch + 1
    BY <1>1, <2>1, <2>2, BumpFacts DEF SetPassword
  <2> QED BY <1>1, <2>2, <2>3, BumpFacts, AccountInv
<1>5. CASE SetMustChange
  <2>1. account' \in [epoch : Epoch, disabled : Nat, must : Nat] /\ account'.epoch = account.epoch
    BY <1>1, <1>5 DEF SetMustChange
  <2>2. account.epoch <= account'.epoch
    BY <1>1, <2>1, SMTT(30)
  <2> QED BY <1>1, <1>5, <2>1, <2>2, AccountInv DEF SetMustChange
<1> QED BY <1>2, <1>3, <1>4, <1>5 DEF AccountStep

\* Time passes.
LEMMA TickInv ==
    ASSUME IInv, Tick, UNCHANGED <<rows, scene>>
    PROVE  IInv'
<1>1. /\ now' \in Nat /\ account' = account /\ enrolled' = enrolled /\ kept' = kept /\ left' = left
      /\ admitted' = admitted /\ issued' = issued /\ req' = req
  BY AccountFacts, SMTT(30) DEF Tick, accountVars
<1>2. /\ account \in [epoch : Epoch, disabled : Nat, must : Nat]
      /\ enrolled \in [Factor -> Nat] /\ req \in [Request -> RequestType]
      /\ kept \in [Epoch -> Nat] /\ left \in [Epoch -> Nat] /\ account.epoch <= account.epoch
  BY AccountFacts, SMTT(30) DEF IInv, StateType
<1> QED BY <1>1, <1>2, AccountInv

\* A request applies its change, which bumps the epoch and keeps its own session.
LEMMA ApplyChangeInv ==
    ASSUME IInv, NEW q \in Request, ApplyChange(q), UNCHANGED <<rows, scene>>
    PROVE  IInv'
<1> DEFINE o == req[q]
           r == [o EXCEPT !.required = FALSE]
           Typed == [epoch : Epoch, disabled : Nat, must : Nat]
<1>1. /\ account \in Typed /\ now \in Nat
      /\ enrolled \in [Factor -> Nat] /\ req \in [Request -> RequestType]
      /\ kept \in [Epoch -> Nat] /\ left \in [Epoch -> Nat] /\ account.epoch \in Nat
      /\ account.epoch \in Epoch /\ issued \in Nat /\ Len(admitted) \in Nat
  BY AccountFacts DEF IInv, StateType
<1>2. /\ o \in RequestType /\ o.attrs.lineage \in Nat /\ o.attrs.epoch \in Nat
      /\ Matches(o, rows, issued, Len(admitted), account.epoch, kept)
  BY RequestFacts
<1>3. r \in RequestType /\ r.op = o.op /\ r.id = o.id /\ r.attrs = o.attrs
  BY <1>2 DEF RequestType
<1>4. o.pc = "factors"
  BY DEF ApplyChange, Cleared
<1>5. UNCHANGED <<now, enrolled, admitted, issued>>
  BY DEF ApplyChange
<1>6. ASSUME NEW pc \in {"state", "factor_write"}, NEW l \in Nat, Bump(l),
             account' \in Typed, account'.epoch = account.epoch + 1,
             Goto(q, [r EXCEPT !.pc = pc]), r.op \in {"password", "enrol", "remove"},
             pc = "factor_write" => r.op \in {"enrol", "remove"},
             r.op \in {"password", "enrol"} => l = r.attrs.lineage
      PROVE  IInv'
  <2> DEFINE s == [r EXCEPT !.pc = pc]
  <2>1. s \in RequestType /\ s.op = o.op /\ s.id = o.id /\ s.attrs = o.attrs /\ s.pc = pc
    BY <1>3 DEF RequestType, Pc
  <2>2. req' = [req EXCEPT ![q] = s]
    BY <1>6 DEF Goto
  <2> HIDE DEF s
  <2>3. o.op # "login" /\ o.attrs.epoch <= account.epoch /\ s.attrs.epoch <= account'.epoch
    <3>1. o.op # "login" /\ o.attrs.epoch <= account.epoch /\ s.attrs.epoch = o.attrs.epoch
      BY <1>2, <1>3, <1>6, <2>1 DEF Matches
    <3>2. account'.epoch = account.epoch + 1 /\ account.epoch \in Nat /\ o.attrs.epoch \in Nat
      BY <1>1, <1>2, <1>6
    <3> QED BY <3>1, <3>2, SMTT(30)
  <2>4. ASSUME s.op \in {"password", "enrol"}
        PROVE  \E e \in Epoch : s.attrs.epoch <= e /\ e < account'.epoch /\ kept'[e] = s.attrs.lineage
    <3>1. kept'[account.epoch] = s.attrs.lineage
      BY <1>3, <1>6, <2>1, <2>4, BumpFacts
    <3>2. account.epoch < account'.epoch
      BY <1>1, <1>6, SMTT(30)
    <3> QED BY <1>1, <2>1, <2>3, <3>1, <3>2
  <2>5. Matches(s, rows, issued, Len(admitted), account'.epoch, kept')
    <3>1. s.pc # "reissue" /\ s.op # "login" /\ o.pc # "reissue"
      BY <1>4, <2>1, <2>3
    <3>2. /\ s.id \in 1 .. issued /\ s.attrs.lineage \in 1 .. Len(admitted) /\ s.attrs.epoch >= 1
          /\ s.id \in DOMAIN rows =>
               /\ rows[s.id].attrs.lineage = s.attrs.lineage
               /\ rows[s.id].attrs.epoch = s.attrs.epoch
               /\ rows[s.id].attrs.multi = s.attrs.multi
      BY <1>2, <2>1, <2>3, <3>1 DEF Matches
    <3>3. s.pc = "factor_write" => s.op \in {"enrol", "remove"}
      BY <1>3, <1>6, <2>1
    <3> QED BY <2>3, <2>4, <3>1, <3>2, <3>3 DEF Matches
  <2>6. req' \in [Request -> RequestType] /\ req'[q] = s /\ \A p \in Request : p # q => req'[p] = req[p]
    BY <1>1, <2>1, <2>2
  <2>7. \A p \in Request :
          \/ req'[p] = req[p]
          \/ Matches(req'[p], rows, issued, Len(admitted), account'.epoch, kept')
    BY <2>5, <2>6
  <2> QED BY <1>1, <1>5, <1>6, <2>6, <2>7, BumpFacts, AccountInv
<1>7. CASE /\ r.op = "password" /\ SetPassword(r.attrs.lineage, FALSE)
           /\ Goto(q, [r EXCEPT !.pc = "state"])
  <2>1. Bump(r.attrs.lineage) /\ r.attrs.lineage \in Nat
    BY <1>2, <1>3, <1>7 DEF SetPassword
  <2>2. account' \in Typed /\ account'.epoch = account.epoch + 1
    BY <1>1, <1>7, <2>1, BumpFacts DEF SetPassword
  <2> HIDE DEF r, Typed
  <2> QED BY <1>6, <1>7, <2>1, <2>2
<1>8. CASE /\ r.op = "enrol" /\ BumpEpoch(r.attrs.lineage)
           /\ Goto(q, [r EXCEPT !.pc = "factor_write"])
  <2>1. Bump(r.attrs.lineage) /\ r.attrs.lineage \in Nat
    BY <1>2, <1>3, <1>8 DEF BumpEpoch
  <2>2. account' \in Typed /\ account'.epoch = account.epoch + 1
    BY <1>1, <1>8, <2>1, BumpFacts DEF BumpEpoch
  <2> HIDE DEF r, Typed
  <2> QED BY <1>6, <1>8, <2>1, <2>2
<1>9. CASE /\ r.op = "remove" /\ BumpEpoch(NoLineage)
           /\ Goto(q, [r EXCEPT !.pc = "factor_write"])
  <2>1. Bump(0)
    BY <1>9 DEF BumpEpoch, NoLineage
  <2>2. account' \in Typed /\ account'.epoch = account.epoch + 1
    BY <1>1, <1>9, <2>1, BumpFacts DEF BumpEpoch
  <2> HIDE DEF r, Typed
  <2> QED BY <1>6, <1>9, <2>1, <2>2
<1> QED BY <1>7, <1>8, <1>9 DEF ApplyChange

\* A request writes or removes the factor itself.
LEMMA WriteFactorInv ==
    ASSUME IInv, NEW q \in Request, WriteFactor(q), UNCHANGED <<rows, scene>>
    PROVE  IInv'
<1> DEFINE r == req[q]
<1>1. /\ account \in [epoch : Epoch, disabled : Nat, must : Nat] /\ now \in Nat
      /\ enrolled \in [Factor -> Nat] /\ req \in [Request -> RequestType]
      /\ kept \in [Epoch -> Nat] /\ left \in [Epoch -> Nat] /\ account.epoch <= account.epoch
      /\ account.epoch \in Nat /\ issued \in Nat /\ Len(admitted) \in Nat
  BY AccountFacts, SMTT(30) DEF IInv, StateType
<1>2. /\ r \in RequestType /\ r.factor \in Factor /\ r.pc = "factor_write"
      /\ Matches(r, rows, issued, Len(admitted), account.epoch, kept)
  BY RequestFacts DEF WriteFactor, RequestType
<1>3. UNCHANGED <<now, account, admitted, kept, left, issued>>
  BY DEF WriteFactor
<1>4. enrolled' \in [Factor -> Nat]
  BY <1>1, <1>2, SMTT(30) DEF WriteFactor
<1>5. ASSUME NEW s \in RequestType, Goto(q, s),
             Matches(s, rows, issued, Len(admitted), account.epoch, kept)
      PROVE  IInv'
  <2>1. req' \in [Request -> RequestType] /\ req'[q] = s /\ \A p \in Request : p # q => req'[p] = req[p]
    BY <1>1, <1>5 DEF Goto
  <2>2. \A p \in Request :
          \/ req'[p] = req[p]
          \/ Matches(req'[p], rows, issued, Len(admitted), account.epoch, kept)
    BY <1>5, <2>1
  <2> QED BY <1>1, <1>3, <1>4, <2>1, <2>2, AccountInv
<1>6. CASE r.op = "enrol" /\ Goto(q, [r EXCEPT !.pc = "state"])
  <2> DEFINE s == [r EXCEPT !.pc = "state"]
  <2>1. s \in RequestType /\ s.op = r.op /\ s.id = r.id /\ s.attrs = r.attrs /\ s.pc = "state"
    BY <1>2 DEF RequestType, Pc
  <2> HIDE DEF s
  <2>2. Matches(s, rows, issued, Len(admitted), account.epoch, kept)
    BY <1>2, <1>6, <2>1 DEF Matches
  <2> QED BY <1>5, <1>6, <2>1, <2>2 DEF s
<1>7. CASE Goto(q, Idle)
  BY <1>1, <1>5, <1>7, IdleFits
<1> QED BY <1>6, <1>7 DEF WriteFactor

-----------------------------------------------------------------------------

\* The idle expiry of a row is an instant no later than the end of its session.
LEMMA IdleUntilFacts ==
    ASSUME NEW t \in Nat, NEW end \in Nat
    PROVE  IdleUntil(t, end) \in Nat /\ IdleUntil(t, end) <= end
BY TimeAssumption, SMTT(30) DEF IdleUntil

\* The end of an admitted session.
LEMMA EndFacts ==
    ASSUME IInv, NEW l \in 1 .. Len(admitted)
    PROVE  End(l) \in Nat /\ End(l) = admitted[l].at + MaxLifetime
<1>1. admitted[l] \in [at : Nat, epoch : Nat]
  <2> DEFINE R == [at : Nat, epoch : Nat]
  <2>1. admitted \in Seq(R)
    BY DEF IInv, StateType
  <2> HIDE DEF R
  <2>2. admitted[l] \in R
    BY <2>1, SMTT(30)
  <2> QED BY <2>2 DEF R
<1> QED BY <1>1, TimeAssumption, SMTT(30) DEF End

\* A row of the new record is a row.
LEMMA NewRowFacts ==
    ASSUME NEW a \in Attrs, NEW t \in Nat, NEW end \in Nat
    PROVE  /\ NewRow(a, t, end) \in Row /\ NewRow(a, t, end).attrs = a
           /\ NewRow(a, t, end).idle <= end
<1>1. NewRow(a, t, end).idle = IdleUntil(t, end)
  BY DEF NewRow
<1> QED BY <1>1, IdleUntilFacts DEF NewRow, Row

\* A step of request q that writes rows and goes on as r.
LEMMA WritesInv ==
    ASSUME IInv, NEW q \in Request, NEW r \in RequestType, Writes(q, r), UNCHANGED scene,
           RowsOK(rows, issued, admitted, account.epoch)', Subtable(rows, rows', issued),
           issued' \in Nat, issued <= issued', admitted' \in Seq([at : Nat, epoch : Nat]),
           Len(admitted') <= MaxLogins, Len(admitted) <= Len(admitted'),
           Matches(r, rows', issued', Len(admitted'), account.epoch, kept)
    PROVE  IInv'
<1>1. /\ now' = now /\ account' = account /\ enrolled' = enrolled /\ kept' = kept /\ left' = left
      /\ req' = [req EXCEPT ![q] = r]
  BY DEF Writes, Goto, accountVars
<1>2. StateType'
  BY <1>1 DEF IInv, StateType
<1>3. req'[q] = r /\ \A p \in Request : p # q => req'[p] = req[p]
  BY <1>1 DEF IInv, StateType
<1>4. \A p \in Request :
        \/ req'[p] = req[p]
        \/ Matches(req'[p], rows', issued', Len(admitted'), account'.epoch, kept')
  BY <1>1, <1>3
<1>5. /\ account.epoch <= account'.epoch
      /\ \A e \in Epoch : e < account.epoch => kept'[e] = kept[e]
  BY <1>1, AccountFacts, SMTT(30)
<1> QED BY <1>2, <1>4, <1>5, StepInv

\* A step that takes rows away, of a request that ends with it or of none.
LEMMA LeaveInv ==
    ASSUME IInv, NEW S, rows' = Without(S), UNCHANGED <<scene, now, accountVars, admitted, issued>>,
           \/ req' = req
           \/ \E q \in Request : Goto(q, Idle)
    PROVE  IInv'
<1>1. RowsOK(rows', issued, admitted, account.epoch) /\ Subtable(rows, rows', issued)
  <2>1. /\ account.epoch \in Nat /\ account.epoch <= account.epoch /\ issued \in Nat
        /\ RowsOK(rows, issued, admitted, account.epoch)
    BY AccountFacts, SMTT(30)
  <2>2. rows' = [i \in DOMAIN rows \ S |-> rows[i]]
    BY DEF Without
  <2>3. /\ RowsOK([i \in DOMAIN rows \ S |-> rows[i]], issued, admitted, account.epoch)
        /\ Subtable(rows, [i \in DOMAIN rows \ S |-> rows[i]], issued)
    BY <2>1, RowsLeave
  <2> QED BY <2>2, <2>3
<1>2. /\ account' = account /\ enrolled' = enrolled /\ kept' = kept /\ left' = left
      /\ account.epoch \in Nat /\ issued \in Nat /\ Len(admitted) \in Nat
  BY AccountFacts DEF accountVars
<1>3. Idle \in RequestType /\ Matches(Idle, rows', issued, Len(admitted), account.epoch, kept)
  BY <1>2, IdleFits
<1>4. CASE req' = req
  <2>1. StateType'
    BY <1>2, <1>4 DEF IInv, StateType
  <2>2. /\ issued <= issued' /\ Len(admitted) <= Len(admitted') /\ account.epoch <= account'.epoch
        /\ \A e \in Epoch : e < account.epoch => kept'[e] = kept[e]
    BY <1>2, SMTT(30)
  <2> QED BY <1>1, <1>2, <1>4, <2>1, <2>2, StepInv
<1>5. CASE \E q \in Request : Goto(q, Idle)
  <2>1. PICK q \in Request : Goto(q, Idle)
    BY <1>5
  <2>2. Writes(q, Idle)
    BY <2>1 DEF Writes
  <2>3. /\ admitted \in Seq([at : Nat, epoch : Nat]) /\ Len(admitted) <= MaxLogins
        /\ issued <= issued' /\ Len(admitted) <= Len(admitted')
    BY <1>2, SMTT(30) DEF IInv, StateType
  <2> QED BY <1>1, <1>2, <1>3, <2>2, <2>3, WritesInv
<1> QED BY <1>4, <1>5

\* A request presents a row.
LEMMA BeginResumeInv ==
    ASSUME IInv, NEW q \in Request, BeginResume(q), UNCHANGED scene
    PROVE  IInv'
<1>1. PICK i \in DOMAIN rows :
        Reads(q, [Idle EXCEPT !.op = "resume", !.at = now, !.id = i, !.attrs = rows[i].attrs,
                      !.pc = IF now - rows[i].checked >= RecheckEvery THEN "state" ELSE "touch"])
  BY DEF BeginResume
<1> DEFINE pc == IF now - rows[i].checked >= RecheckEvery THEN "state" ELSE "touch"
           r == [Idle EXCEPT !.op = "resume", !.at = now, !.id = i, !.attrs = rows[i].attrs, !.pc = pc]
<1>2. /\ i \in 1 .. issued /\ rows[i] \in Row /\ rows[i].attrs.lineage \in 1 .. Len(admitted)
      /\ rows[i].attrs.epoch \in 1 .. account.epoch
  BY AccountFacts DEF RowsOK
<1>3. /\ Idle \in RequestType /\ now \in Nat /\ account.epoch \in Nat /\ issued \in Nat
      /\ pc \in {"state", "touch"}
  BY AccountFacts, IdleFits
<1> HIDE DEF pc
<1>4. i \in Nat /\ rows[i].attrs \in Attrs
  BY <1>2, <1>3, SMTT(30) DEF Row
<1>5. r \in RequestType /\ r.op = "resume" /\ r.id = i /\ r.attrs = rows[i].attrs /\ r.pc = pc
  BY <1>3, <1>4 DEF RequestType, Pc, Op
<1>6. Reads(q, r) /\ UNCHANGED rows
  BY <1>1 DEF pc, BeginResume
<1> HIDE DEF r
<1>7. rows[i].attrs.epoch <= account.epoch /\ rows[i].attrs.epoch >= 1
  BY <1>2, <1>3, SMTT(30)
<1>8. Matches(r, rows, issued, Len(admitted), account.epoch, kept)
  BY <1>2, <1>3, <1>5, <1>7 DEF Matches
<1> QED BY <1>5, <1>6, <1>8, ReadsInv

\* The row that a request resumes is still of the session it read.
LEMMA OwnRow ==
    ASSUME IInv, NEW q \in Request, req[q].id \in DOMAIN rows, req[q].op # "login"
    PROVE  /\ rows[req[q].id] \in Row
           /\ req[q].attrs.lineage \in 1 .. Len(admitted)
           /\ rows[req[q].id].attrs.lineage = req[q].attrs.lineage
           /\ req[q].pc # "reissue" => /\ rows[req[q].id].attrs.epoch = req[q].attrs.epoch
                                       /\ rows[req[q].id].attrs.multi = req[q].attrs.multi
           /\ req[q].pc = "reissue" => /\ rows[req[q].id].attrs.epoch = req[q].attrs.epoch - 1
                                       /\ rows[req[q].id].attrs.multi => req[q].attrs.multi
<1>1. Matches(req[q], rows, issued, Len(admitted), account.epoch, kept)
  BY RequestFacts
<1>2. rows[req[q].id] \in Row
  BY AccountFacts DEF RowsOK
<1> QED BY <1>1, <1>2 DEF Matches

\* A step of request q that writes its own row in place.
LEMMA InPlaceInv ==
    ASSUME IInv, NEW q \in Request, NEW row \in Row, NEW s \in RequestType,
           req[q].id \in DOMAIN rows, req[q].op # "login", req[q].pc # "reissue",
           row.attrs.lineage = req[q].attrs.lineage, row.attrs.epoch = req[q].attrs.epoch,
           row.attrs.multi = req[q].attrs.multi, row.idle <= End(req[q].attrs.lineage),
           rows' = [rows EXCEPT ![req[q].id] = row],
           Writes(q, s), UNCHANGED <<admitted, issued, scene>>,
           s.pc = "answered", s.op = req[q].op, s.id = req[q].id, s.attrs = req[q].attrs
    PROVE  IInv' /\ Subtable(rows, rows', issued) /\ DOMAIN rows' = DOMAIN rows
<1> DEFINE r == req[q]
<1>1. /\ r \in RequestType /\ r.attrs.lineage \in 1 .. Len(admitted)
      /\ Matches(r, rows, issued, Len(admitted), account.epoch, kept)
  BY RequestFacts, OwnRow
<1>2. /\ account.epoch \in Nat /\ account.epoch \in Epoch /\ issued \in Nat /\ Len(admitted) \in Nat
      /\ RowsOK(rows, issued, admitted, account.epoch)
      /\ issued <= issued /\ Len(admitted) <= Len(admitted) /\ account.epoch <= account.epoch
      /\ kept \in [Epoch -> Nat]
      /\ admitted \in Seq([at : Nat, epoch : Nat]) /\ Len(admitted) <= MaxLogins
  BY AccountFacts, SMTT(30) DEF IInv, StateType
<1>3. row.idle <= admitted[row.attrs.lineage].at + MaxLifetime
  BY <1>1, EndFacts
<1>4. /\ row.attrs.lineage = rows[r.id].attrs.lineage /\ row.attrs.epoch = rows[r.id].attrs.epoch
      /\ row.attrs.multi = rows[r.id].attrs.multi
  BY OwnRow
<1>5. /\ RowsOK(rows', issued, admitted, account.epoch)
      /\ Subtable(rows, rows', issued)
  <2>1. /\ RowsOK([rows EXCEPT ![r.id] = row], issued, admitted, account.epoch)
        /\ Subtable(rows, [rows EXCEPT ![r.id] = row], issued)
    BY <1>2, <1>3, <1>4, RowWritten
  <2> QED BY <2>1
<1>6. Matches(r, rows', issued, Len(admitted), account.epoch, kept)
  BY <1>1, <1>2, <1>5, MatchesKept
<1>7. Matches(s, rows', issued, Len(admitted), account.epoch, kept)
  BY <1>1, <1>2, <1>6, SameSession
<1>8. DOMAIN rows' = DOMAIN rows
  BY SMTT(30)
<1>9. account' = account
  BY DEF Writes, accountVars
<1>10. IInv'
  BY <1>2, <1>5, <1>7, <1>9, WritesInv
<1> QED BY <1>5, <1>8, <1>10

\* The row that Touch leaves.
LEMMA TouchInv ==
    ASSUME IInv, NEW q \in Request, Touch(q), UNCHANGED scene
    PROVE  IInv' /\ Subtable(rows, rows', issued) /\ DOMAIN rows' = DOMAIN rows
<1> DEFINE r == req[q]
           s == [r EXCEPT !.pc = "answered"]
           until == IdleUntil(r.at, End(r.attrs.lineage))
           row == IF until > rows[r.id].idle THEN [rows[r.id] EXCEPT !.idle = until] ELSE rows[r.id]
<1>1. /\ r \in RequestType /\ r.at \in Nat
      /\ Matches(r, rows, issued, Len(admitted), account.epoch, kept)
  BY RequestFacts
<1>2. r.pc = "touch" /\ r.id \in DOMAIN rows
  BY DEF Touch, Live
<1>3. r.op # "login"
  BY <1>1, <1>2 DEF Matches
<1>4. /\ rows[r.id] \in Row /\ r.attrs.lineage \in 1 .. Len(admitted)
      /\ rows[r.id].attrs.lineage = r.attrs.lineage
      /\ rows[r.id].attrs.epoch = r.attrs.epoch /\ rows[r.id].attrs.multi = r.attrs.multi
  BY <1>2, <1>3, OwnRow
<1>5. End(r.attrs.lineage) \in Nat /\ until \in Nat /\ until <= End(r.attrs.lineage)
  BY <1>1, <1>4, EndFacts, IdleUntilFacts
<1>6. rows[r.id].idle <= End(r.attrs.lineage)
  <2>1. rows[r.id].idle <= admitted[rows[r.id].attrs.lineage].at + MaxLifetime
    BY <1>2, AccountFacts DEF RowsOK
  <2> QED BY <1>4, <2>1, EndFacts
<1> HIDE DEF until
<1>7. row \in Row /\ row.attrs = rows[r.id].attrs /\ row.idle <= End(r.attrs.lineage)
  BY <1>4, <1>5, <1>6 DEF Row
<1>8. rows' = [rows EXCEPT ![r.id] = row]
  <2>1. CASE until > rows[r.id].idle
    BY <2>1 DEF Touch, until
  <2>2. CASE ~(until > rows[r.id].idle)
    <3>1. rows' = rows
      BY <2>2 DEF Touch, until
    <3>2. rows = [i \in DOMAIN rows |-> rows[i]]
      BY AccountFacts DEF RowsOK
    <3> QED BY <1>2, <2>2, <3>1, <3>2
  <2> QED BY <2>1, <2>2
<1>9. s \in RequestType /\ s.pc = "answered" /\ s.op = r.op /\ s.id = r.id /\ s.attrs = r.attrs
  BY <1>1 DEF RequestType, Pc
<1>10. Writes(q, s) /\ UNCHANGED <<admitted, issued>>
  BY DEF Touch
<1> HIDE DEF s, row
<1> QED BY <1>2, <1>3, <1>4, <1>7, <1>8, <1>9, <1>10, InPlaceInv

\* A renewal changes its row in place and removes none.
LEMMA RotateInv ==
    ASSUME IInv, NEW q \in Request, Rotate(q), UNCHANGED scene
    PROVE  IInv' /\ Subtable(rows, rows', issued) /\ DOMAIN rows' = DOMAIN rows
<1> DEFINE r == req[q]
           s == [r EXCEPT !.pc = "answered", !.required = FALSE]
           row == NewRow(r.attrs, r.at, End(r.attrs.lineage))
<1>1. r \in RequestType /\ r.at \in Nat /\ r.attrs \in Attrs
  BY RequestFacts
<1>2. r.pc = "factors" /\ r.op = "resume" /\ r.id \in DOMAIN rows
  BY DEF Rotate, Live, Cleared
<1>3. r.attrs.lineage \in 1 .. Len(admitted)
  BY <1>2, OwnRow
<1>4. row \in Row /\ row.attrs = r.attrs /\ row.idle <= End(r.attrs.lineage)
  BY <1>1, <1>3, EndFacts, NewRowFacts
<1>5. s \in RequestType /\ s.pc = "answered" /\ s.op = r.op /\ s.id = r.id /\ s.attrs = r.attrs
  BY <1>1 DEF RequestType, Pc
<1>6. Writes(q, s) /\ UNCHANGED <<admitted, issued>> /\ rows' = [rows EXCEPT ![r.id] = row]
  BY DEF Rotate
<1> HIDE DEF s, row
<1> QED BY <1>2, <1>4, <1>5, <1>6, InPlaceInv

\* The attributes of another lineage.
LEMMA AttrsOfLineage ==
    ASSUME NEW b \in Attrs, NEW k \in Nat
    PROVE  /\ [b EXCEPT !.lineage = k] \in Attrs
           /\ [b EXCEPT !.lineage = k].lineage = k /\ [b EXCEPT !.lineage = k].epoch = b.epoch
BY DEF Attrs

\* What Start does: a row of the next lineage, under a new id.
LEMMA StartInv ==
    ASSUME IInv, NEW q \in Request, Start(q), UNCHANGED scene
    PROVE  /\ IInv'
           /\ Len(admitted') = Len(admitted) + 1 /\ Len(admitted') <= MaxLogins
           /\ \E row \in Row : /\ rows' = With(rows, issued + 1, row)
                               /\ row.attrs.lineage = Len(admitted) + 1
                               /\ row.attrs.epoch \in 1 .. account.epoch
<1> DEFINE r == req[q]
           l == Len(admitted) + 1
           a == [r.attrs EXCEPT !.lineage = l]
<1>1. PICK t \in r.at .. now :
        /\ now < t + MaxLifetime
        /\ admitted' = Append(admitted, [at |-> t, epoch |-> a.epoch])
        /\ rows' = With(rows, issued + 1, NewRow(a, now, t + MaxLifetime))
  BY DEF Start
<1>2. /\ r.pc = "factors" /\ r.op = "login" /\ l <= scene.logins
      /\ issued' = issued + 1 /\ Writes(q, Idle)
  BY DEF Start, Cleared
<1>3. /\ r \in RequestType /\ r.at \in Nat /\ r.attrs \in Attrs /\ r.attrs.epoch \in Nat
      /\ Matches(r, rows, issued, Len(admitted), account.epoch, kept)
  BY RequestFacts
<1>4. /\ account.epoch \in Nat /\ issued \in Nat /\ Len(admitted) \in Nat /\ now \in Nat
      /\ admitted \in Seq([at : Nat, epoch : Nat])
      /\ RowsOK(rows, issued, admitted, account.epoch)
  BY AccountFacts DEF IInv, StateType
<1>5. t \in Nat /\ t + MaxLifetime \in Nat
  <2>1. r.at \in Nat /\ now \in Nat
    BY <1>3, <1>4
  <2> QED BY <1>1, <2>1, TimeAssumption, SMTT(30)
<1>6. a \in Attrs /\ a.lineage = l /\ a.epoch = r.attrs.epoch
  <2>1. l \in Nat
    BY <1>4, SMTT(30)
  <2> HIDE DEF l
  <2> QED BY <1>3, <2>1, AttrsOfLineage
<1>7. r.attrs.epoch \in 1 .. account.epoch
  BY <1>2, <1>3, <1>4, SMTT(30) DEF Matches
<1> DEFINE row == NewRow(a, now, t + MaxLifetime)
<1>8. row \in Row /\ row.attrs = a /\ row.idle <= t + MaxLifetime
  BY <1>4, <1>5, <1>6, NewRowFacts
<1>9. /\ admitted' \in Seq([at : Nat, epoch : Nat]) /\ Len(admitted') = l
      /\ admitted'[l].at = t /\ \A k \in 1 .. Len(admitted) : admitted'[k] = admitted[k]
  <2> DEFINE R == [at : Nat, epoch : Nat]
             x == [at |-> t, epoch |-> a.epoch]
  <2>1. x \in R /\ x.at = t
    BY <1>3, <1>5, <1>6
  <2>2. admitted \in Seq(R) /\ admitted' = Append(admitted, x)
    BY <1>1, <1>4
  <2> HIDE DEF R, x
  <2>3. admitted' \in Seq(R) /\ Len(admitted') = l /\ admitted'[l] = x
        /\ \A k \in 1 .. Len(admitted) : admitted'[k] = admitted[k]
    BY <2>1, <2>2, SMTT(30)
  <2> QED BY <2>1, <2>3 DEF R
<1>10. l \in Nat /\ l <= MaxLogins /\ Len(admitted) <= Len(admitted') /\ l \in 1 .. Len(admitted')
  <2>1. scene.logins \in 0 .. MaxLogins
    BY ScenarioAssumption DEF IInv, StateType
  <2> QED BY <1>2, <1>4, <1>9, <2>1, TimeAssumption, SMTT(30)
<1>11. \A i \in DOMAIN rows : rows[i].attrs.lineage # l
  <2>1. \A i \in DOMAIN rows : rows[i].attrs.lineage \in 1 .. Len(admitted)
    BY <1>4 DEF RowsOK
  <2> QED BY <1>4, <2>1, SMTT(30)
<1> HIDE DEF row, a
<1>12. rows' = With(rows, issued + 1, row)
  BY <1>1 DEF row
<1>13. Len(admitted') \in Nat /\ row.idle <= admitted'[row.attrs.lineage].at + MaxLifetime
  BY <1>6, <1>8, <1>9, <1>10
<1>14. /\ RowsOK(rows', issued', admitted', account.epoch)
       /\ Subtable(rows, rows', issued)
  <2>1. row.attrs.lineage \in 1 .. Len(admitted') /\ row.attrs.epoch \in 1 .. account.epoch
    BY <1>6, <1>7, <1>8, <1>10
  <2>2. \A i \in DOMAIN rows : rows[i].attrs.lineage # row.attrs.lineage
    BY <1>6, <1>8, <1>11
  <2>3. /\ RowsOK(With(rows, issued + 1, row), issued + 1, admitted', account.epoch)
        /\ Subtable(rows, With(rows, issued + 1, row), issued)
    BY <1>4, <1>8, <1>9, <1>10, <1>13, <2>1, <2>2, RowInserted
  <2> QED BY <1>2, <1>12, <2>3
<1>15. /\ Idle \in RequestType /\ issued' \in Nat /\ issued <= issued' /\ account' = account
       /\ Matches(Idle, rows', issued', Len(admitted'), account.epoch, kept)
  <2>1. account' = account /\ issued' = issued + 1 /\ issued \in Nat /\ account.epoch \in Nat
    BY <1>2, <1>4 DEF Writes, accountVars
  <2>2. issued' \in Nat /\ issued <= issued'
    BY <2>1, SMTT(30)
  <2>3. Len(admitted') \in Nat
    BY <1>4, <1>13
  <2> QED BY <2>1, <2>2, <2>3, IdleFits
<1>16. IInv'
  BY <1>2, <1>9, <1>10, <1>14, <1>15, WritesInv
<1> QED BY <1>6, <1>7, <1>8, <1>9, <1>10, <1>12, <1>16

\* What Replace does: the row of the request's session makes way for one of the
\* same lineage, under a new id.
LEMMA ReplaceInv ==
    ASSUME IInv, NEW q \in Request, NEW next \in Attrs, Replace(q, next), UNCHANGED scene,
           req[q].op # "login", next.lineage = req[q].attrs.lineage,
           next.epoch = req[q].attrs.epoch
    PROVE  /\ IInv' /\ req[q].id \in DOMAIN rows
           /\ \E row \in Row : /\ rows' = With(Without({req[q].id}), issued + 1, row)
                               /\ row.attrs = next
           /\ RowsOK(Without({req[q].id}), issued, admitted, account.epoch)
           /\ \A i \in DOMAIN Without({req[q].id}) :
                Without({req[q].id})[i].attrs.lineage # next.lineage
<1> DEFINE r == req[q]
           t == Without({r.id})
           row == NewRow(next, now, End(next.lineage))
<1>1. /\ r.id \in DOMAIN rows /\ rows' = With(t, issued + 1, row) /\ issued' = issued + 1
      /\ Writes(q, Idle) /\ admitted' = admitted
  BY DEF Replace, Replaceable, Live
<1>2. /\ account.epoch \in Nat /\ issued \in Nat /\ Len(admitted) \in Nat /\ now \in Nat
      /\ admitted \in Seq([at : Nat, epoch : Nat]) /\ Len(admitted) <= MaxLogins
      /\ RowsOK(rows, issued, admitted, account.epoch)
      /\ account.epoch <= account.epoch /\ Len(admitted) <= Len(admitted)
  <2>1. /\ account.epoch \in Nat /\ issued \in Nat /\ Len(admitted) \in Nat /\ now \in Nat
        /\ admitted \in Seq([at : Nat, epoch : Nat]) /\ Len(admitted) <= MaxLogins
        /\ RowsOK(rows, issued, admitted, account.epoch)
    BY AccountFacts DEF IInv, StateType
  <2>2. account.epoch <= account.epoch /\ Len(admitted) <= Len(admitted)
    BY <2>1, SMTT(30)
  <2> QED BY <2>1, <2>2
<1>3. /\ r.attrs.epoch \in 1 .. account.epoch /\ r.attrs.lineage \in 1 .. Len(admitted)
      /\ rows[r.id].attrs.lineage = r.attrs.lineage
  <2>1. /\ Matches(r, rows, issued, Len(admitted), account.epoch, kept) /\ r.attrs.epoch \in Nat
    BY RequestFacts
  <2>2. r.attrs.epoch <= account.epoch /\ r.attrs.epoch >= 1
    BY <2>1 DEF Matches
  <2>3. r.attrs.lineage \in 1 .. Len(admitted) /\ rows[r.id].attrs.lineage = r.attrs.lineage
    BY <1>1, OwnRow
  <2>4. account.epoch \in Nat /\ r.attrs.epoch \in Nat
    BY <1>2, <2>1
  <2>5. r.attrs.epoch \in 1 .. account.epoch
    BY <2>2, <2>4, SMTT(30)
  <2> QED BY <2>3, <2>5
<1>4. row \in Row /\ row.attrs = next /\ row.idle <= admitted[row.attrs.lineage].at + MaxLifetime
  <2>1. /\ End(next.lineage) \in Nat
        /\ End(next.lineage) = admitted[next.lineage].at + MaxLifetime
    BY <1>3, EndFacts
  <2>2. row \in Row /\ row.attrs = next /\ row.idle <= End(next.lineage)
    BY <1>2, <2>1, NewRowFacts
  <2> HIDE DEF row
  <2> QED BY <2>1, <2>2
<1>5. /\ RowsOK(t, issued, admitted, account.epoch) /\ Subtable(rows, t, issued)
  <2>1. /\ RowsOK([i \in DOMAIN rows \ {r.id} |-> rows[i]], issued, admitted, account.epoch)
        /\ Subtable(rows, [i \in DOMAIN rows \ {r.id} |-> rows[i]], issued)
    BY <1>2, RowsLeave
  <2> QED BY <2>1 DEF Without
<1>6. /\ DOMAIN t = DOMAIN rows \ {r.id} /\ \A i \in DOMAIN t : t[i] = rows[i]
  BY DEF Without
<1> HIDE DEF row, t
<1>7. \A i \in DOMAIN t : t[i].attrs.lineage # next.lineage
  <2>1. \A i, j \in DOMAIN rows : rows[i].attrs.lineage = rows[j].attrs.lineage => i = j
    BY <1>2 DEF RowsOK
  <2>2. ASSUME NEW i \in DOMAIN t, t[i].attrs.lineage = next.lineage
        PROVE  FALSE
    <3>1. i \in DOMAIN rows /\ i # r.id /\ rows[i].attrs.lineage = next.lineage
      BY <1>6, <2>2
    <3>2. rows[r.id].attrs.lineage = next.lineage /\ r.id \in DOMAIN rows
      BY <1>1, <1>3
    <3> QED BY <2>1, <3>1, <3>2
  <2> QED BY <2>2
<1>8. /\ RowsOK(With(t, issued + 1, row), issued + 1, admitted, account.epoch)
      /\ Subtable(t, With(t, issued + 1, row), issued)
  <2>1. /\ row.attrs.lineage \in 1 .. Len(admitted) /\ row.attrs.epoch \in 1 .. account.epoch
        /\ \A i \in DOMAIN t : t[i].attrs.lineage # row.attrs.lineage
        /\ \A k \in 1 .. Len(admitted) : admitted[k] = admitted[k]
    BY <1>3, <1>4, <1>7
  <2> QED BY <1>2, <1>4, <1>5, <2>1, RowInserted
<1>9. RowsOK(rows', issued', admitted', account.epoch) /\ Subtable(rows, rows', issued)
  <2>1. Subtable(rows, With(t, issued + 1, row), issued)
    BY <1>5, <1>8, SMTT(30) DEF Subtable
  <2> QED BY <1>1, <1>8, <2>1
<1>10. /\ Idle \in RequestType /\ issued' \in Nat /\ issued <= issued' /\ account' = account
       /\ Matches(Idle, rows', issued', Len(admitted'), account.epoch, kept)
  <2>1. /\ account' = account /\ issued' = issued + 1 /\ admitted' = admitted
        /\ issued \in Nat /\ Len(admitted) \in Nat /\ account.epoch \in Nat
    BY <1>1, <1>2 DEF Writes, accountVars
  <2>2. issued' \in Nat /\ issued <= issued' /\ Len(admitted') \in Nat
    BY <2>1, SMTT(30)
  <2> QED BY <2>1, <2>2, IdleFits
<1>11. IInv'
  BY <1>1, <1>2, <1>9, <1>10, WritesInv
<1> QED BY <1>1, <1>4, <1>5, <1>7, <1>11 DEF t

\* A request revokes the row that a failed answer left in doubt.
LEMMA RevokeUnknownInv ==
    ASSUME IInv, NEW q \in Request, RevokeUnknown(q), UNCHANGED scene
    PROVE  IInv'
<1>1. /\ rows' = Without({req[q].id}) /\ Goto(q, Idle)
      /\ UNCHANGED <<scene, now, accountVars, admitted, issued>>
  BY DEF RevokeUnknown, Writes
<1> QED BY <1>1, LeaveInv

\* A reauthentication changes at most the factors of the session.
LEMMA ReauthenticateFacts ==
    ASSUME IInv, NEW q \in Request, Reauthenticate(q), UNCHANGED scene
    PROVE  \E next \in Attrs :
             /\ Replace(q, next) /\ req[q].op # "login" /\ req[q].pc # "reissue"
             /\ next.lineage = req[q].attrs.lineage /\ next.epoch = req[q].attrs.epoch
             /\ next.multi = req[q].attrs.multi \/ next.multi = TRUE
<1>1. PICK multi \in BOOLEAN :
        /\ Cleared(q, "reauth", multi)
        /\ Replace(q, [req[q].attrs EXCEPT !.multi = req[q].attrs.multi \/ multi])
  BY DEF Reauthenticate
<1> DEFINE next == [req[q].attrs EXCEPT !.multi = req[q].attrs.multi \/ multi]
<1>2. req[q].attrs \in Attrs /\ req[q].attrs.multi \in BOOLEAN
  BY RequestFacts
<1>3. /\ next \in Attrs /\ next.lineage = req[q].attrs.lineage /\ next.epoch = req[q].attrs.epoch
      /\ next.multi = (req[q].attrs.multi \/ multi)
  BY <1>2 DEF Attrs
<1>4. req[q].op # "login" /\ req[q].pc # "reissue"
  BY <1>1 DEF Cleared
<1> HIDE DEF next
<1>5. next.multi = req[q].attrs.multi \/ next.multi = TRUE
  BY <1>2, <1>3
<1> QED BY <1>1, <1>3, <1>4, <1>5 DEF next

\* Reissue is Replace with the attributes that the change gave the request.
LEMMA ReissueFacts ==
    ASSUME IInv, NEW q \in Request, Reissue(q)
    PROVE  Replace(q, req[q].attrs) /\ req[q].attrs \in Attrs /\ req[q].op # "login"
<1>1. req[q].attrs \in Attrs /\ Matches(req[q], rows, issued, Len(admitted), account.epoch, kept)
  BY RequestFacts
<1>2. req[q].pc = "reissue" /\ Replace(q, req[q].attrs)
  BY DEF Reissue
<1> QED BY <1>1, <1>2 DEF Matches

\* Every step keeps the invariant.
LEMMA NextInv == IInv /\ [Next]_vars => IInv'
<1> SUFFICES ASSUME IInv, [Next]_vars PROVE IInv'
  BY SMTT(30)
<1>1. CASE UNCHANGED vars
  <2>1. UNCHANGED <<scene, now, account, enrolled, kept, left, req, admitted, issued, rows>>
    BY <1>1, SMTT(30) DEF vars, sharedVars, accountVars
  <2>2. StateType'
    BY <2>1 DEF IInv, StateType
  <2> QED BY <2>1, <2>2 DEF IInv
<1>2. CASE Next
  <2>0. UNCHANGED scene
    BY <1>2 DEF Next
  <2>1. CASE Tick /\ UNCHANGED rows
    BY <2>0, <2>1, TickInv
  <2>2. CASE AccountStep /\ UNCHANGED rows
    BY <2>0, <2>2, AccountStepInv
  <2>3. ASSUME NEW q \in Request, RequestStep(q), UNCHANGED rows
        PROVE  IInv'
    BY <2>0, <2>3, BeginLoginInv, AbandonInv, ReadStateInv, ReadFactorInv, ProceedInv, ApplyChangeInv,
       WriteFactorInv DEF RequestStep
  <2>4. CASE Deliver \/ Revoke \/ Erase \/ ReapExpired
    <3>1. PICK S : rows' = Without(S)
      BY <2>4 DEF Deliver, Revoke, Erase, ReapExpired
    <3>2. UNCHANGED <<scene, now, accountVars, admitted, issued>> /\ req' = req
      BY <2>0, <2>4 DEF Deliver, Revoke, Erase, ReapExpired
    <3> QED BY <3>1, <3>2, LeaveInv
  <2>5. ASSUME NEW q \in Request, Step(q)
        PROVE  IInv'
    <3>1. CASE Reauthenticate(q)
      BY <2>0, <3>1, ReauthenticateFacts, ReplaceInv
    <3>2. CASE Reissue(q)
      BY <2>0, <3>2, ReissueFacts, ReplaceInv
    <3> QED BY <2>0, <2>5, <3>1, <3>2, BeginResumeInv, TouchInv, StartInv, RotateInv, RevokeUnknownInv
            DEF Step
  <2> QED BY <1>2, <2>1, <2>2, <2>3, <2>4, <2>5 DEF Next
<1> QED BY <1>1, <1>2

\* The inductive invariant: every row is of an admitted session, one each, and every
\* request in flight still matches the row it read (load, renew, Reissue).
THEOREM Invariance == Spec => []IInv
BY InitInv, NextInv, PTL DEF Spec

\* What the invariant implies.
LEMMA Consequences == IInv => TypeOK /\ OneRowPerLineage
<1> SUFFICES ASSUME IInv PROVE TypeOK /\ OneRowPerLineage
  BY SMTT(30)
<1>1. RowsOK(rows, issued, admitted, account.epoch)
  BY AccountFacts
<1>2. OneRowPerLineage
  BY <1>1 DEF RowsOK, OneRowPerLineage
<1>3. ASSUME NEW i \in DOMAIN rows
      PROVE  rows[i] \in Row /\ rows[i].idle <= End(rows[i].attrs.lineage)
  <2>1. /\ rows[i] \in Row /\ rows[i].attrs.lineage \in 1 .. Len(admitted)
        /\ rows[i].idle <= admitted[rows[i].attrs.lineage].at + MaxLifetime
    BY <1>1 DEF RowsOK
  <2> QED BY <2>1, EndFacts
<1> QED BY <1>2, <1>3 DEF TypeOK, IInv

\* Type correctness, for any number of requests, sessions and epochs; in
\* particular the idle expiry of a row never passes the end of its session.
THEOREM TypeCorrect == Spec => []TypeOK
BY Invariance, Consequences, PTL

\* Whatever requests race, a session is at most one row.
THEOREM OneRow == Spec => []OneRowPerLineage
BY Invariance, Consequences, PTL

=============================================================================
