------------------------- MODULE TokenFamiliesProofs --------------------------
(***************************************************************************)
(* Proofs about TokenFamilies: each step preserves IInv, for every set of  *)
(* tenants, subjects, families, tokens and lifetimes.                      *)
(***************************************************************************)
EXTENDS TokenFamilies, TLAPS

\* Zenon proves the steps that name no prover; the SMT solver those with arithmetic.
USE Zenon

-----------------------------------------------------------------------------
\* Revocation.

\* The latest family expiry of the rows held for fk.
LEMMA LatestFacts ==
    ASSUME Ledger, IndexExact, NEW fk \in FamilyKey, NEW e \in Latest(fk)
    PROVE  e \in Nat \ {0} /\ \A h \in families[fk] : tokens[h].row.end <= e
<1>1. PICK g \in families[fk] : e = tokens[g].row.end
  BY DEF Latest
<1>2. tokens[g].row.end \in 1 .. MaxTime + MaxLife
  BY DEF IndexExact, Ledger, RowsIssued
<1>3. \A h \in families[fk] : tokens[h].row.end <= e
  BY DEF Latest
<1> QED BY <1>1, <1>2, <1>3, SMTT(30)

\* What revoke() does to the feed: positions stay distinct and store-issued, old
\* entries stay, and each family that had a live row gets its entry.
LEMMA RevokeAllFeed ==
    ASSUME TypeOK, IndexExact, Ledger, NEW S \in SUBSET FamilyKey, RevokeAll(S)
    PROVE  /\ feed' \subseteq FeedEntry
           /\ seq' \in Nat
           /\ \A e \in feed' : e.seq \in 1 .. seq'
           /\ \A d, e \in feed' : d.seq = e.seq => d = e
           /\ feed \subseteq feed'
           /\ ended' \in [FamilyKey -> Nat]
           /\ \A fk \in FamilyKey :
                 IF fk \in Appended(S)
                 THEN /\ ended'[fk] # 0
                      /\ \E e \in feed' : e.fk = fk /\ e.expires = ended'[fk]
                      /\ \A h \in families[fk] : tokens[h].row.end <= ended'[fk]
                 ELSE ended'[fk] = ended[fk]
<1> DEFINE A == Appended(S)
<1>0. PICK c, o, ExpiresAt :
        /\ c \in 0 .. Cardinality(A) /\ o \in Orders(c, A) /\ \A fk \in A : ExpiresAt[fk] \in Latest(fk)
        /\ feed' = feed \cup {[seq |-> seq + i, fk |-> o[i], expires |-> ExpiresAt[o[i]]] : i \in 1 .. c}
        /\ seq' = seq + c
        /\ ended' = [fk \in FamilyKey |-> IF fk \in A THEN ExpiresAt[fk] ELSE ended[fk]]
  BY SMTT(30) DEF RevokeAll
<1>1. A \subseteq FamilyKey /\ c \in Nat
  BY <1>0, SMTT(30) DEF Appended
<1>2. feed' = feed \cup {[seq |-> seq + i, fk |-> o[i], expires |-> ExpiresAt[o[i]]] : i \in 1 .. c}
  BY <1>0
<1>3. \A fk \in A : /\ ExpiresAt[fk] \in Nat \ {0}
                    /\ \A h \in families[fk] : tokens[h].row.end <= ExpiresAt[fk]
  BY <1>0, <1>1, LatestFacts
<1>4. o \in [1 .. c -> A] /\ \A x \in A : \E i \in DOMAIN o : o[i] = x
  BY <1>0 DEF Orders
<1> HIDE DEF A
<1>5. DOMAIN o = 1 .. c /\ \A i \in 1 .. c : o[i] \in A
  BY <1>4
<1>6. seq \in Nat /\ feed \subseteq FeedEntry /\ (\A e \in feed : e.seq \in 1 .. seq)
      /\ (\A d, e \in feed : d.seq = e.seq => d = e) /\ ended \in [FamilyKey -> Nat]
  BY DEF TypeOK
<1> DEFINE entry(i) == [seq |-> seq + i, fk |-> o[i], expires |-> ExpiresAt[o[i]]]
<1>7. \A i \in 1 .. c : entry(i) \in FeedEntry
  BY <1>1, <1>3, <1>5, <1>6, SMTT(30) DEF FeedEntry
<1>8. \A e \in feed' : e \in feed \/ \E i \in 1 .. c : e = entry(i)
  BY <1>2
<1>9. feed' \subseteq FeedEntry
  BY <1>6, <1>7, <1>8
<1>a. seq' = seq + c
  BY <1>0
<1>10. seq' \in Nat
  BY <1>1, <1>6, <1>a, SMTT(30)
<1>11. ASSUME NEW e \in feed' PROVE e.seq \in 1 .. seq'
  <2>1. CASE e \in feed
    <3>1. e.seq \in 1 .. seq
      BY <1>6, <2>1
    <3> QED BY <1>1, <1>6, <1>a, <3>1, SMTT(30)
  <2>2. CASE e \notin feed
    <3>1. PICK i \in 1 .. c : e = entry(i)
      BY <1>8, <1>11, <2>2
    <3>2. e.seq = seq + i
      BY <3>1
    <3> QED BY <1>1, <1>6, <1>a, <3>2, SMTT(30)
  <2> QED BY <2>1, <2>2
<1>12. \A d, e \in feed' : d.seq = e.seq => d = e
  <2> SUFFICES ASSUME NEW d \in feed', NEW e \in feed', d.seq = e.seq PROVE d = e
    BY SMTT(30)
  <2>1. CASE d \in feed /\ e \in feed
    BY <2>1, <1>6
  <2>2. CASE d \in feed /\ e \notin feed
    BY <2>2, <1>1, <1>6, <1>8, SMTT(30)
  <2>3. CASE d \notin feed /\ e \in feed
    BY <2>3, <1>1, <1>6, <1>8, SMTT(30)
  <2>4. CASE d \notin feed /\ e \notin feed
    <3>1. PICK i \in 1 .. c : d = entry(i)
      BY <2>4, <1>8
    <3>2. PICK j \in 1 .. c : e = entry(j)
      BY <2>4, <1>8
    <3>3. i = j
      BY <3>1, <3>2, <1>1, <1>6, SMTT(30)
    <3> QED BY <3>1, <3>2, <3>3
  <2> QED BY <2>1, <2>2, <2>3, <2>4
<1>13. ended' = [fk \in FamilyKey |-> IF fk \in A THEN ExpiresAt[fk] ELSE ended[fk]]
  BY <1>0
<1>14. ended' \in [FamilyKey -> Nat] /\ \A fk \in FamilyKey : fk \notin A => ended'[fk] = ended[fk]
  BY <1>3, <1>6, <1>13
<1>15. ASSUME NEW fk \in FamilyKey, fk \in A
       PROVE  /\ ended'[fk] = ExpiresAt[fk]
              /\ \E e \in feed' : e.fk = fk /\ e.expires = ended'[fk]
  <2>1. ended'[fk] = ExpiresAt[fk]
    BY <1>13, <1>15
  <2>2. PICK i \in 1 .. c : o[i] = fk
    BY <1>4, <1>5, <1>15
  <2>3. entry(i) \in feed'
    BY <1>2
  <2>4. entry(i).fk = fk /\ entry(i).expires = ExpiresAt[fk]
    BY <2>2
  <2> QED BY <2>1, <2>3, <2>4
<1>16. feed \subseteq feed'
  BY <1>2
<1> QED
  BY <1>3, <1>9, <1>10, <1>11, <1>12, <1>14, <1>15, <1>16 DEF A

-----------------------------------------------------------------------------
\* One lemma per kind of step: each preserves the inductive invariant.

\* The clock, the reads and the refusals: no row, index or feed entry changes.
LEMMA IdleStep ==
    ASSUME IInv, now' \in 1 .. MaxTime, now' >= now, reply' \in Outcome,
           UNCHANGED <<tokens, families, feed, seq, history>>
    PROVE  IInv'
<1> USE DEF history
<1>1. TypeOK'
  BY DEF IInv, TypeOK
<1>2. IndexExact' /\ FamilyUniform' /\ SingleHead'
  BY SMTT(30) DEF IInv, IndexExact, FamilyUniform, SingleHead, KeyOf
<1>3. Ledger' /\ NoFork'
  BY DEF IInv, Ledger, RowsIssued, ExchangedConsumed, EndedIssued, NoFork
<1>4. OneLiveFamilyPerLineage' /\ RevokedForGood'
  BY SMTT(30) DEF IInv, OneLiveFamilyPerLineage, RevokedForGood
<1>5. FeedComplete'
  <2>1. now \in Nat /\ now' \in Nat /\ ended \in [FamilyKey -> Nat]
    BY SMTT(30) DEF IInv, TypeOK
  <2>2. \A fk \in FamilyKey : now' < ended[fk] => now < ended[fk]
    BY <2>1, SMTT(30)
  <2> QED BY <2>2 DEF IInv, FeedComplete, KeyOf
<1> QED
  BY <1>1, <1>2, <1>3, <1>4, <1>5 DEF IInv

\* revoke() on the families of S.
LEMMA RevokeStep ==
    ASSUME IInv, NEW S \in SUBSET FamilyKey, RevokeAll(S),
           tokens' = RevokeRows(tokens, S), reply' \in Outcome,
           UNCHANGED <<now, families, admitted, issued>>
    PROVE  IInv'
<1>1. TypeOK /\ IndexExact /\ FamilyUniform /\ Ledger /\ NoFork /\ SingleHead
      /\ OneLiveFamilyPerLineage /\ RevokedForGood /\ FeedComplete
  BY DEF IInv
<1>2. DOMAIN tokens' = DOMAIN tokens
  BY DEF RevokeRows
<1>3. \A h \in DOMAIN tokens :
         /\ tokens'[h].row = tokens[h].row
         /\ tokens'[h].consumedAt = tokens[h].consumedAt
         /\ tokens'[h] \in Refresh
         /\ tokens'[h].revoked = (tokens[h].revoked \/ \E fk \in S : h \in families[fk])
  <2> SUFFICES ASSUME NEW h \in DOMAIN tokens
               PROVE  /\ tokens'[h].row = tokens[h].row
                      /\ tokens'[h].consumedAt = tokens[h].consumedAt
                      /\ tokens'[h] \in Refresh
                      /\ tokens'[h].revoked =
                            (tokens[h].revoked \/ \E fk \in S : h \in families[fk])
    BY SMTT(30)
  <2>1. tokens[h] \in Refresh
    BY <1>1 DEF TypeOK
  <2>2. CASE \E fk \in S : h \in families[fk]
    <3>1. tokens'[h] = [tokens[h] EXCEPT !.revoked = TRUE]
      BY <2>2 DEF RevokeRows
    <3> QED BY <2>1, <2>2, <3>1 DEF Refresh
  <2>3. CASE ~\E fk \in S : h \in families[fk]
    <3>1. tokens'[h] = tokens[h]
      BY <2>3 DEF RevokeRows
    <3> QED BY <2>1, <2>3, <3>1 DEF Refresh
  <2> QED BY <2>2, <2>3
<1>4. \A h \in DOMAIN tokens : KeyOf(tokens'[h].row) = KeyOf(tokens[h].row)
  BY <1>3 DEF KeyOf
<1>5. \A h \in DOMAIN tokens : KeyOf(tokens[h].row) \in FamilyKey
  BY <1>1, TenancyAssumption DEF TypeOK, Refresh, RefreshRecord, KeyOf, FamilyKey
<1>6. \A fk \in FamilyKey : \A h \in families[fk] :
         h \in DOMAIN tokens /\ KeyOf(tokens[h].row) = fk
  BY <1>1 DEF IndexExact
<1>7. \A h \in DOMAIN tokens :
         tokens'[h].revoked = (tokens[h].revoked \/ KeyOf(tokens[h].row) \in S)
  <2>1. \A h \in DOMAIN tokens : (\E fk \in S : h \in families[fk]) <=> KeyOf(tokens[h].row) \in S
    BY <1>1, <1>5, <1>6 DEF IndexExact
  <2>2. \A h \in DOMAIN tokens : tokens[h].revoked \in BOOLEAN
    BY <1>1 DEF TypeOK, Refresh
  <2> QED BY <1>3, <2>1, <2>2
<1>a. \A h \in DOMAIN tokens : tokens[h].revoked => tokens'[h].revoked
  BY <1>7
<1>8. TypeOK'
  <2>1. tokens' \in [DOMAIN tokens' -> Refresh]
    <3>1. tokens' = [h \in DOMAIN tokens' |-> tokens'[h]]
      BY <1>2 DEF RevokeRows
    <3> QED BY <1>2, <1>3, <3>1
  <2> QED BY <1>1, <1>2, <2>1, RevokeAllFeed DEF TypeOK
<1>9. IndexExact'
  BY <1>1, <1>2, <1>4 DEF IndexExact
<1>10. FamilyUniform'
  <2> SUFFICES ASSUME NEW fk \in FamilyKey, NEW g \in families[fk], NEW h \in families[fk]
               PROVE  /\ tokens'[g].row.subject = tokens'[h].row.subject
                      /\ tokens'[g].row.lineage = tokens'[h].row.lineage
                      /\ tokens'[g].revoked = tokens'[h].revoked
    BY SMTT(30) DEF FamilyUniform
  <2>1. g \in DOMAIN tokens /\ h \in DOMAIN tokens /\ KeyOf(tokens[g].row) = KeyOf(tokens[h].row)
    BY <1>6
  <2>2. tokens[g].revoked = tokens[h].revoked
    BY <1>1 DEF FamilyUniform
  <2>3. tokens'[g].revoked = tokens'[h].revoked
    BY <1>7, <2>1, <2>2
  <2> QED BY <1>1, <1>3, <2>1, <2>3, SMTT(30) DEF FamilyUniform
<1>11. Ledger'
  <2>1. \A fk \in FamilyKey :
           ended'[fk] # 0 => \E h \in DOMAIN issued : issued[h].family = fk[2]
    <3> SUFFICES ASSUME NEW fk \in FamilyKey, ended'[fk] # 0
                 PROVE  \E h \in DOMAIN issued : issued[h].family = fk[2]
      BY SMTT(30)
    <3>1. CASE fk \in Appended(S)
      <4>1. PICK h \in families[fk] : ~tokens[h].revoked
        BY <3>1 DEF Appended
      <4>2. h \in DOMAIN tokens /\ KeyOf(tokens[h].row) = fk
        BY <1>6
      <4> QED BY <1>1, <4>2 DEF Ledger, RowsIssued, KeyOf
    <3>2. CASE fk \notin Appended(S)
      BY <1>1, <3>2, RevokeAllFeed DEF Ledger, EndedIssued
    <3> QED BY <3>1, <3>2
  <2> QED BY <1>1, <1>2, <1>3, <2>1, SMTT(30) DEF Ledger, RowsIssued, ExchangedConsumed, EndedIssued
<1>12. NoFork'
  BY <1>1 DEF NoFork
<1>13. SingleHead'
  BY <1>1, <1>3, <1>6, SMTT(30) DEF SingleHead
<1>14. OneLiveFamilyPerLineage'
  BY <1>1, <1>2, <1>3, <1>a, SMTT(30) DEF OneLiveFamilyPerLineage
<1>15. RevokedForGood'
  <2> SUFFICES ASSUME NEW fk \in FamilyKey, ended'[fk] # 0, NEW h \in families[fk]
               PROVE  tokens'[h].revoked
    BY DEF RevokedForGood
  <2>1. h \in DOMAIN tokens /\ KeyOf(tokens[h].row) = fk
    BY <1>6
  <2>2. CASE fk \in Appended(S)
    BY <1>7, <2>1, <2>2 DEF Appended
  <2>3. CASE fk \notin Appended(S)
    <3>1. ended[fk] # 0
      BY <1>1, <2>3, RevokeAllFeed
    <3> QED BY <1>1, <1>a, <2>1, <3>1 DEF RevokedForGood
  <2> QED BY <2>2, <2>3
<1>16. FeedComplete'
  <2>1. \A fk \in FamilyKey :
           now < ended'[fk] => \E e \in feed' : e.fk = fk /\ e.expires = ended'[fk]
    BY <1>1, RevokeAllFeed, SMTT(30) DEF FeedComplete
  <2>2. ASSUME NEW h \in DOMAIN tokens, tokens'[h].revoked
        PROVE  tokens[h].row.end <= ended'[KeyOf(tokens[h].row)]
    <3> DEFINE fk == KeyOf(tokens[h].row)
    <3>1. fk \in FamilyKey /\ h \in families[fk]
      BY <1>1, <1>5 DEF IndexExact
    <3>2. CASE fk \in Appended(S)
      BY <1>1, <3>1, <3>2, RevokeAllFeed
    <3>3. CASE fk \notin Appended(S)
      <4>1. tokens[h].revoked
        BY <1>7, <2>2, <3>1, <3>3 DEF Appended
      <4> QED BY <1>1, <3>1, <3>3, <4>1, RevokeAllFeed DEF FeedComplete
    <3> QED BY <3>2, <3>3
  <2> QED BY <1>2, <1>3, <1>4, <2>1, <2>2 DEF FeedComplete
<1> QED
  BY <1>8, <1>9, <1>10, <1>11, <1>12, <1>13, <1>14, <1>15, <1>16 DEF IInv

\* Rows dropped by an erasure or by the reaper.  What happened to the feed is a
\* hypothesis: a family whose ledger entry changed has lost all its rows.
LEMMA DropStep ==
    ASSUME IInv, NEW D, tokens' = DropTokens(tokens, D), families' = DropIndex(families, D),
           UNCHANGED <<now, admitted, issued>>, reply' \in Outcome,
           feed' \subseteq FeedEntry, seq' \in Nat, ended' \in [FamilyKey -> Nat],
           \A e \in feed' : e.seq \in 1 .. seq',
           \A d, e \in feed' : d.seq = e.seq => d = e,
           \A fk \in FamilyKey :
              ended'[fk] # 0 => \E h \in DOMAIN issued : issued[h].family = fk[2],
           \A fk \in FamilyKey : ended'[fk] # ended[fk] => families'[fk] = {},
           \A fk \in FamilyKey :
              now < ended'[fk] => \E e \in feed' : e.fk = fk /\ e.expires = ended'[fk]
    PROVE  IInv'
<1>1. TypeOK /\ IndexExact /\ FamilyUniform /\ Ledger /\ NoFork /\ SingleHead
      /\ OneLiveFamilyPerLineage /\ RevokedForGood /\ FeedComplete
  BY DEF IInv
<1>2. DOMAIN tokens' = DOMAIN tokens \ D /\ \A h \in DOMAIN tokens' : tokens'[h] = tokens[h]
  BY DEF DropTokens
<1>3. \A fk \in FamilyKey : families'[fk] = families[fk] \ D
  BY DEF DropIndex
<1>4. \A h \in DOMAIN tokens : KeyOf(tokens[h].row) \in FamilyKey
  BY <1>1, TenancyAssumption DEF TypeOK, Refresh, RefreshRecord, KeyOf, FamilyKey
<1>5. TypeOK'
  <2>1. tokens' \in [DOMAIN tokens' -> Refresh]
    BY <1>1, <1>2 DEF TypeOK, DropTokens
  <2>2. families' \in [FamilyKey -> SUBSET Hash]
    BY <1>1 DEF TypeOK, DropIndex
  <2> QED BY <1>1, <1>2, <2>1, <2>2 DEF TypeOK
<1>6. IndexExact'
  BY <1>1, <1>2, <1>3, <1>4, SMTT(30) DEF IndexExact, KeyOf
<1>7. FamilyUniform' /\ SingleHead'
  BY <1>1, <1>2, <1>3, SMTT(30) DEF FamilyUniform, SingleHead, IndexExact
<1>8. Ledger' /\ NoFork' /\ OneLiveFamilyPerLineage'
  BY <1>1, <1>2, SMTT(30) DEF Ledger, RowsIssued, ExchangedConsumed, EndedIssued, NoFork, OneLiveFamilyPerLineage
<1>9. RevokedForGood'
  BY <1>1, <1>2, <1>3, SMTT(30) DEF RevokedForGood, IndexExact
<1>10. FeedComplete'
  <2> SUFFICES ASSUME NEW h \in DOMAIN tokens', tokens'[h].revoked
               PROVE  tokens'[h].row.end <= ended'[KeyOf(tokens'[h].row)]
    BY DEF FeedComplete, KeyOf
  <2>1. h \in DOMAIN tokens /\ h \notin D /\ tokens'[h] = tokens[h]
    BY <1>2
  <2>2. ended'[KeyOf(tokens[h].row)] = ended[KeyOf(tokens[h].row)]
    BY <1>1, <1>3, <1>4, <2>1, SMTT(30) DEF IndexExact
  <2> QED BY <1>1, <2>1, <2>2, SMTT(30) DEF FeedComplete
<1> QED
  BY <1>5, <1>6, <1>7, <1>8, <1>9, <1>10 DEF IInv

\* DeleteForSubject and EraseTenant.
LEMMA EraseStep ==
    ASSUME IInv, NEW S \in SUBSET FamilyKey, EraseFamilies(S)
    PROVE  IInv'
<1> DEFINE D == UNION {families[fk] : fk \in S}
<1>1. TypeOK /\ IndexExact /\ Ledger /\ FeedComplete
  BY DEF IInv
<1>2. /\ RevokeAll(S)
      /\ tokens' = DropTokens(tokens, D)
      /\ families' = DropIndex(families, D)
      /\ reply' = "ok"
      /\ UNCHANGED <<now, admitted, issued>>
  BY DEF EraseFamilies
<1>3. \A fk \in FamilyKey :
         ended'[fk] # 0 => \E h \in DOMAIN issued : issued[h].family = fk[2]
  <2> SUFFICES ASSUME NEW fk \in FamilyKey, ended'[fk] # 0
               PROVE  \E h \in DOMAIN issued : issued[h].family = fk[2]
    BY SMTT(30)
  <2>1. CASE fk \in Appended(S)
    <3>1. PICK h \in families[fk] : ~tokens[h].revoked
      BY <2>1 DEF Appended
    <3>2. h \in DOMAIN tokens /\ KeyOf(tokens[h].row) = fk
      BY <1>1 DEF IndexExact
    <3> QED BY <1>1, <3>2 DEF Ledger, RowsIssued, KeyOf
  <2>2. CASE fk \notin Appended(S)
    BY <1>1, <1>2, <2>2, RevokeAllFeed DEF Ledger, EndedIssued
  <2> QED BY <2>1, <2>2
<1>4. \A fk \in FamilyKey : ended'[fk] # ended[fk] => families'[fk] = {}
  <2>1. \A fk \in FamilyKey : ended'[fk] # ended[fk] => fk \in S
    BY <1>1, <1>2, RevokeAllFeed DEF Appended
  <2>2. \A fk \in S : families[fk] \ D = {}
    BY SMTT(30)
  <2> QED BY <1>2, <2>1, <2>2 DEF DropIndex
<1>5. \A fk \in FamilyKey :
         now < ended'[fk] => \E e \in feed' : e.fk = fk /\ e.expires = ended'[fk]
  BY <1>1, <1>2, RevokeAllFeed, SMTT(30) DEF FeedComplete
<1>6. reply' \in Outcome
  BY <1>2 DEF Outcome
<1> HIDE DEF D
<1> QED
  BY <1>1, <1>2, <1>3, <1>4, <1>5, <1>6, RevokeAllFeed, DropStep

\* ReapExpired drops a feed entry only at the expiry it carries.
LEMMA ReapStep ==
    ASSUME IInv, NEW t \in Recent, ReapExpired(t)
    PROVE  IInv'
<1> DEFINE D == {h \in DOMAIN tokens : t >= tokens[h].row.idle \/ t >= tokens[h].row.end}
<1>1. TypeOK /\ Ledger /\ FeedComplete
  BY DEF IInv
<1>2. /\ tokens' = DropTokens(tokens, D)
      /\ families' = DropIndex(families, D)
      /\ feed' = {e \in feed : t < e.expires}
      /\ reply' = "ok"
      /\ UNCHANGED <<now, seq, admitted, issued, ended>>
  BY DEF ReapExpired, history
<1>3. t \in Nat /\ now \in Nat /\ t <= now /\ ended \in [FamilyKey -> Nat]
  BY <1>1, SMTT(30) DEF Recent, TypeOK
<1>4. \A fk \in FamilyKey :
         now < ended'[fk] => \E e \in feed' : e.fk = fk /\ e.expires = ended'[fk]
  <2> SUFFICES ASSUME NEW fk \in FamilyKey, now < ended[fk]
               PROVE  \E e \in feed' : e.fk = fk /\ e.expires = ended[fk]
    BY <1>2
  <2>1. PICK e \in feed : e.fk = fk /\ e.expires = ended[fk]
    BY <1>1 DEF FeedComplete
  <2>2. t < e.expires
    BY <1>3, <2>1, SMTT(30)
  <2> QED BY <1>2, <2>1, <2>2
<1>5. feed' \subseteq FeedEntry /\ seq' \in Nat /\ ended' \in [FamilyKey -> Nat]
      /\ (\A e \in feed' : e.seq \in 1 .. seq') /\ (\A d, e \in feed' : d.seq = e.seq => d = e)
  BY <1>1, <1>2 DEF TypeOK
<1>6. \A fk \in FamilyKey :
         ended'[fk] # 0 => \E h \in DOMAIN issued : issued[h].family = fk[2]
  BY <1>1, <1>2 DEF Ledger, EndedIssued
<1>7. reply' \in Outcome
  BY <1>2 DEF Outcome
<1> HIDE DEF D
<1> QED
  BY <1>2, <1>4, <1>5, <1>6, <1>7, DropStep

-----------------------------------------------------------------------------
\* Steps that insert a row.

\* What the callers put in a record.
RecordOf(row, f, l, fp) ==
    /\ row \in RefreshRecord
    /\ row.family = f /\ row.lineage = l /\ row.subject = Owner[l] /\ row.fp = fp
    /\ row.end \in 1 .. MaxTime + MaxLife /\ row.idle <= row.end
    /\ KeyOf(row) = <<TenantOf[Owner[l]], f>>
    /\ KeyOf(row) \in FamilyKey

\* NewRefreshRecord makes a record of its family, lineage and fingerprint.
LEMMA RecordFacts ==
    ASSUME NEW f \in Family, NEW l \in Lineage, NEW fp \in Fingerprint,
           NEW created \in 1 .. MaxTime, NEW at \in Nat, NEW life \in Lifetimes,
           NEW row, row = NewRefreshRecord(f, l, fp, created, at, life)
    PROVE  RecordOf(row, f, l, fp)
<1>1. Owner[l] \in Subject /\ TenantOf[Owner[l]] \in Tenant
  BY TenancyAssumption
<1>2. life \in 1 .. MaxLife /\ MaxLife \in Nat /\ MaxTime \in Nat /\ IdleTTL \in Nat
  BY TimesAssumption
<1>3. created + life \in Nat /\ created + life \in 1 .. MaxTime + MaxLife /\ at + IdleTTL \in Nat
  BY <1>2, SMTT(30)
<1> QED
  BY <1>1, <1>3, SMTT(30) DEF RecordOf, NewRefreshRecord, RefreshRecord, KeyOf, FamilyKey

\* So does every record that a renewal of an admitted lineage may store.
LEMMA NextRecordFacts ==
    ASSUME TypeOK, NEW f \in Family, NEW l \in Lineage, NEW fp \in Fingerprint,
           admitted[l] # 0, NEW next \in NextRecords(f, l, fp)
    PROVE  RecordOf(next, f, l, fp)
<1>1. admitted[l] \in 1 .. MaxTime
  BY TimesAssumption, SMTT(30) DEF TypeOK
<1>2. PICK p \in Recent \X Lifetimes :
         next = NewRefreshRecord(f, l, fp, admitted[l], p[1], p[2])
  BY DEF NextRecords
<1>3. p[1] \in Nat /\ p[2] \in Lifetimes
  BY SMTT(30) DEF Recent
<1> QED
  BY <1>1, <1>2, <1>3, RecordFacts

\* What toks and fams are after insert() of token n with record row.
Inserted(toks, fams, n, row) ==
    /\ DOMAIN toks = DOMAIN tokens \cup {n}
    /\ toks \in [DOMAIN tokens \cup {n} -> Refresh]
    /\ \A x \in DOMAIN tokens : x # n /\ toks[x] = tokens[x]
    /\ toks[n].row = row /\ toks[n].consumedAt = 0 /\ toks[n].revoked = FALSE
    /\ fams \in [FamilyKey -> SUBSET Hash]
    /\ fams[KeyOf(row)] = families[KeyOf(row)] \cup {n}
    /\ \A fk \in FamilyKey : fk # KeyOf(row) => fams[fk] = families[fk]
    /\ \A fk \in FamilyKey : n \notin families[fk]

\* insert adds one unconsumed, unrevoked row to the table and to the family index.
LEMMA InsertFacts ==
    ASSUME IInv, NEW n \in Hash, n \notin DOMAIN tokens, NEW row \in RefreshRecord,
           KeyOf(row) \in FamilyKey
    PROVE  Inserted(Insert(tokens, n, row), Index(families, n, row), n, row)
<1>1. TypeOK /\ IndexExact
  BY DEF IInv
<1> DEFINE new == [row |-> row, consumedAt |-> 0, consumedBy |-> NoClient, revoked |-> FALSE]
           toks == Insert(tokens, n, row)
           fams == Index(families, n, row)
<1>2. new \in Refresh
  BY DEF Refresh, Fingerprint
<1>3. toks = [x \in DOMAIN tokens \cup {n} |-> IF x = n THEN new ELSE tokens[x]]
  BY DEF Insert
<1>4. new.row = row /\ new.consumedAt = 0 /\ new.revoked = FALSE
  BY SMTT(30)
<1>5. \A fk \in FamilyKey : n \notin families[fk]
  BY <1>1 DEF IndexExact
<1>6. families \in [FamilyKey -> SUBSET Hash]
  BY <1>1 DEF TypeOK
<1>7. fams = [families EXCEPT ![KeyOf(row)] = @ \cup {n}]
  BY DEF Index
<1> HIDE DEF new, toks, fams
<1>8. DOMAIN toks = DOMAIN tokens \cup {n} /\ toks[n] = new
      /\ (\A x \in DOMAIN tokens : x # n /\ toks[x] = tokens[x])
  BY <1>3
<1>9. toks \in [DOMAIN tokens \cup {n} -> Refresh]
  BY <1>1, <1>2, <1>3 DEF TypeOK
<1>10. fams \in [FamilyKey -> SUBSET Hash] /\ fams[KeyOf(row)] = families[KeyOf(row)] \cup {n}
       /\ (\A fk \in FamilyKey : fk # KeyOf(row) => fams[fk] = families[fk])
  BY <1>6, <1>7
<1>11. toks[n].row = row /\ toks[n].consumedAt = 0 /\ toks[n].revoked = FALSE
  BY <1>4, <1>8
<1> QED
  BY <1>5, <1>8, <1>9, <1>10, <1>11 DEF toks, fams, Inserted

\* The ledger after a token n was issued in exchange for from.
LEMMA IssueFacts ==
    ASSUME TypeOK, NEW n \in Hash, NEW row \in RefreshRecord, NEW from \in Hash \cup {Root},
           FreshHash(n), Issue(n, row, from)
    PROVE  /\ DOMAIN issued' = DOMAIN issued \cup {n}
           /\ DOMAIN issued' \subseteq Hash
           /\ issued' \in [DOMAIN issued' -> [family : Family, from : Hash \cup {Root}]]
           /\ \A x \in DOMAIN issued : x # n /\ issued'[x] = issued[x]
           /\ issued'[n].family = row.family /\ issued'[n].from = from
<1> DEFINE new == [family |-> row.family, from |-> from]
<1>1. new \in [family : Family, from : Hash \cup {Root}]
  BY DEF RefreshRecord
<1>2. new.family = row.family /\ new.from = from
  BY SMTT(30)
<1>3. issued' = [x \in DOMAIN issued \cup {n} |-> IF x = n THEN new ELSE issued[x]]
  BY DEF Issue
<1> HIDE DEF new
<1> QED
  BY <1>1, <1>2, <1>3 DEF TypeOK, FreshHash

\* A login: the lineage, the family and the token are all new.
LEMMA CreateStep ==
    ASSUME IInv, NEW h \in Hash, NEW f \in Family, NEW l \in Lineage, NEW at \in Recent,
           NEW life \in Lifetimes, Create(h, f, l, at, life)
    PROVE  IInv'
<1> DEFINE row == NewRefreshRecord(f, l, NoClient, at, at, life)
<1>1. TypeOK /\ IndexExact /\ FamilyUniform /\ Ledger /\ NoFork /\ SingleHead
      /\ OneLiveFamilyPerLineage /\ RevokedForGood /\ FeedComplete
  BY DEF IInv
<1>2. /\ admitted[l] = 0
      /\ FreshHash(h)
      /\ FreshFamily(f)
      /\ families[KeyOf(row)] = {}
      /\ h \notin DOMAIN tokens
      /\ tokens' = Insert(tokens, h, row)
      /\ families' = Index(families, h, row)
      /\ admitted' = [admitted EXCEPT ![l] = at]
      /\ Issue(h, row, Root)
      /\ reply' = "ok"
      /\ UNCHANGED <<now, feed, seq, ended>>
  BY DEF Create
<1>3. at \in 1 .. MaxTime /\ at \in Nat
  BY <1>1, TimesAssumption, SMTT(30) DEF Recent, TypeOK
<1>4. NoClient \in Fingerprint
  BY DEF Fingerprint
<1>5. /\ row \in RefreshRecord
      /\ row.family = f /\ row.lineage = l /\ row.subject = Owner[l]
      /\ row.end \in 1 .. MaxTime + MaxLife /\ row.idle <= row.end
      /\ KeyOf(row) = <<TenantOf[Owner[l]], f>>
      /\ KeyOf(row) \in FamilyKey
  BY <1>3, <1>4, RecordFacts, SMTT(30) DEF RecordOf
<1> HIDE DEF row
<1>6. /\ DOMAIN tokens' = DOMAIN tokens \cup {h}
      /\ tokens' \in [DOMAIN tokens' -> Refresh]
      /\ \A x \in DOMAIN tokens : x # h /\ tokens'[x] = tokens[x]
      /\ tokens'[h].row = row /\ tokens'[h].consumedAt = 0 /\ tokens'[h].revoked = FALSE
      /\ families' \in [FamilyKey -> SUBSET Hash]
      /\ families'[KeyOf(row)] = {h}
      /\ \A fk \in FamilyKey : fk # KeyOf(row) => families'[fk] = families[fk]
  <2>1. Inserted(Insert(tokens, h, row), Index(families, h, row), h, row)
    BY <1>2, <1>5, InsertFacts
  <2>2. Inserted(tokens', families', h, row)
    BY <1>2, <2>1
  <2> QED BY <1>2, <2>2 DEF Inserted
<1>7. /\ DOMAIN issued' = DOMAIN issued \cup {h}
      /\ DOMAIN issued' \subseteq Hash
      /\ issued' \in [DOMAIN issued' -> [family : Family, from : Hash \cup {Root}]]
      /\ \A x \in DOMAIN issued : x # h /\ issued'[x] = issued[x]
      /\ issued'[h].family = f /\ issued'[h].from = Root
  BY <1>1, <1>2, <1>5, IssueFacts
<1>8. \A x \in DOMAIN tokens : tokens[x].row.lineage \in Lineage
  BY <1>1 DEF TypeOK, Refresh, RefreshRecord
<1>9. admitted' \in [Lineage -> 0 .. MaxTime] /\ admitted'[l] # 0
      /\ \A k \in Lineage : admitted[k] # 0 => admitted'[k] # 0
  BY <1>1, <1>2, <1>3, TimesAssumption, SMTT(30) DEF TypeOK
<1>10. \A x \in DOMAIN tokens : tokens[x].row.lineage # l
  BY <1>1, <1>2 DEF Ledger, RowsIssued
<1>11. TypeOK'
  BY <1>1, <1>2, <1>6, <1>7, <1>9 DEF TypeOK, Outcome
<1>12. IndexExact'
  <2>1. \A x \in DOMAIN tokens : KeyOf(tokens[x].row) \in FamilyKey
    BY <1>1, TenancyAssumption DEF TypeOK, Refresh, RefreshRecord, KeyOf, FamilyKey
  <2> QED BY <1>1, <1>2, <1>5, <1>6, <2>1, SMTT(30) DEF IndexExact
<1>13. FamilyUniform' /\ SingleHead'
  BY <1>1, <1>6, SMTT(30) DEF FamilyUniform, SingleHead, IndexExact
<1>14. Ledger'
  <2>1. \A x \in DOMAIN tokens' :
           /\ x \in DOMAIN issued'
           /\ issued'[x].family = tokens'[x].row.family
           /\ tokens'[x].row.subject = Owner[tokens'[x].row.lineage]
           /\ admitted'[tokens'[x].row.lineage] # 0
           /\ tokens'[x].row.end \in 1 .. MaxTime + MaxLife
           /\ tokens'[x].row.idle <= tokens'[x].row.end
    BY <1>1, <1>5, <1>6, <1>7, <1>8, <1>9, SMTT(30) DEF Ledger, RowsIssued
  <2>2. \A x \in DOMAIN issued' :
           issued'[x].from # Root =>
              /\ issued'[x].from \in DOMAIN issued'
              /\ issued'[x].from \in DOMAIN tokens' => tokens'[issued'[x].from].consumedAt # 0
    BY <1>1, <1>6, <1>7, SMTT(30) DEF Ledger, ExchangedConsumed
  <2>3. \A fk \in FamilyKey :
           ended'[fk] # 0 => \E x \in DOMAIN issued' : issued'[x].family = fk[2]
    BY <1>1, <1>2, <1>7, SMTT(30) DEF Ledger, EndedIssued
  <2> QED BY <2>1, <2>2, <2>3 DEF Ledger, RowsIssued, ExchangedConsumed, EndedIssued
<1>15. NoFork'
  BY <1>1, <1>7 DEF NoFork
<1>16. OneLiveFamilyPerLineage'
  BY <1>1, <1>5, <1>6, <1>10, SMTT(30) DEF OneLiveFamilyPerLineage
<1>17. RevokedForGood'
  <2>1. ended[KeyOf(row)] = 0
    BY <1>1, <1>2, <1>5 DEF Ledger, EndedIssued, FreshFamily
  <2> QED BY <1>1, <1>2, <1>6, <2>1, SMTT(30) DEF RevokedForGood, IndexExact
<1>18. FeedComplete'
  BY <1>1, <1>2, <1>6, SMTT(30) DEF FeedComplete, KeyOf
<1> QED
  BY <1>11, <1>12, <1>13, <1>14, <1>15, <1>16, <1>17, <1>18 DEF IInv

\* An accepted rotation: h is consumed and n continues its family.
LEMMA RotateStep ==
    ASSUME IInv, NEW h \in DOMAIN issued, NEW n \in Hash, NEW l \in Lineage, NEW f \in Family,
           NEW fp \in Client, NEW t \in Recent, admitted[l] # 0, FreshHash(n),
           NEW next \in NextRecords(f, l, fp), Rotate(h, n, next, t)
    PROVE  IInv'
<1>1. TypeOK /\ IndexExact /\ FamilyUniform /\ Ledger /\ NoFork /\ SingleHead
      /\ OneLiveFamilyPerLineage /\ RevokedForGood /\ FeedComplete
  BY DEF IInv
<1> DEFINE toks == Insert(tokens, n, next)
           spent == [toks[h] EXCEPT !.consumedAt = t, !.consumedBy = next.fp]
<1>2. /\ RotationOutcome(h, next, t) = "ok"
      /\ n \notin DOMAIN tokens
      /\ tokens' = [toks EXCEPT ![h] = spent]
      /\ families' = Index(families, n, next)
      /\ Issue(n, next, h)
      /\ reply' = "ok"
      /\ UNCHANGED <<now, feed, seq, admitted, ended>>
  BY DEF Rotate
<1>3. /\ h \in DOMAIN tokens
      /\ ~tokens[h].revoked
      /\ tokens[h].row.subject = next.subject
      /\ tokens[h].row.lineage = next.lineage
      /\ tokens[h].row.family = next.family
      /\ tokens[h].consumedAt = 0
  BY <1>2 DEF RotationOutcome, Found, Replayable, Continues
<1>4. /\ next \in RefreshRecord
      /\ next.family = f /\ next.lineage = l /\ next.subject = Owner[l] /\ next.fp = fp
      /\ next.end \in 1 .. MaxTime + MaxLife /\ next.idle <= next.end
      /\ KeyOf(next) \in FamilyKey
  <2>1. fp \in Fingerprint
    BY DEF Fingerprint
  <2>2. TypeOK
    BY <1>1, SMTT(30)
  <2>3. RecordOf(next, f, l, fp)
    BY <2>1, <2>2, NextRecordFacts
  <2> QED BY <2>3 DEF RecordOf
<1>5. /\ DOMAIN toks = DOMAIN tokens \cup {n}
      /\ toks \in [DOMAIN toks -> Refresh]
      /\ \A x \in DOMAIN tokens : x # n /\ toks[x] = tokens[x]
      /\ toks[n].row = next /\ toks[n].consumedAt = 0 /\ toks[n].revoked = FALSE
      /\ families' \in [FamilyKey -> SUBSET Hash]
      /\ families'[KeyOf(next)] = families[KeyOf(next)] \cup {n}
      /\ \A fk \in FamilyKey : fk # KeyOf(next) => families'[fk] = families[fk]
      /\ \A fk \in FamilyKey : n \notin families[fk]
  <2>1. Inserted(toks, Index(families, n, next), n, next)
    BY <1>2, <1>4, InsertFacts
  <2>2. Inserted(toks, families', n, next)
    BY <1>2, <2>1
  <2> HIDE DEF toks
  <2> QED BY <2>2 DEF Inserted
<1>6. t \in Nat \ {0}
  BY SMTT(30) DEF Recent
<1>7. toks[h] \in Refresh /\ toks[h] = tokens[h] /\ h # n
  BY <1>3, <1>5
<1> HIDE DEF toks
<1>8. spent \in Refresh /\ spent.row = tokens[h].row /\ spent.consumedAt = t
      /\ spent.revoked = tokens[h].revoked
  <2>1. t \in Nat /\ next.fp \in Fingerprint
    BY <1>4, <1>6 DEF Fingerprint
  <2> QED BY <1>7, <2>1 DEF Refresh
<1> HIDE DEF spent
<1>10. /\ DOMAIN tokens' = DOMAIN tokens \cup {n}
       /\ tokens' \in [DOMAIN tokens' -> Refresh]
       /\ \A x \in DOMAIN tokens : x # n /\ (x # h => tokens'[x] = tokens[x])
       /\ tokens'[h] = spent
       /\ tokens'[n].row = next /\ tokens'[n].consumedAt = 0 /\ tokens'[n].revoked = FALSE
  BY <1>2, <1>3, <1>5, <1>7, <1>8
<1>11. \A x \in DOMAIN tokens : tokens'[x].row = tokens[x].row /\ tokens'[x].revoked = tokens[x].revoked
  BY <1>8, <1>10
<1>12. \A x \in DOMAIN tokens : tokens'[x].consumedAt = 0 => tokens[x].consumedAt = 0 /\ x # h
  BY <1>6, <1>8, <1>10
<1>13. KeyOf(tokens[h].row) = KeyOf(next) /\ h \in families[KeyOf(next)]
  BY <1>1, <1>3 DEF KeyOf, IndexExact
<1>14. /\ DOMAIN issued' = DOMAIN issued \cup {n}
       /\ DOMAIN issued' \subseteq Hash
       /\ issued' \in [DOMAIN issued' -> [family : Family, from : Hash \cup {Root}]]
       /\ \A x \in DOMAIN issued : x # n /\ issued'[x] = issued[x]
       /\ issued'[n].family = f /\ issued'[n].from = h
  <2>1. h \in Hash
    BY <1>1 DEF TypeOK
  <2> QED BY <1>1, <1>2, <1>4, <2>1, IssueFacts
<1>15. TypeOK'
  BY <1>1, <1>2, <1>5, <1>10, <1>14 DEF TypeOK, Outcome
<1>16. IndexExact'
  <2>1. \A x \in DOMAIN tokens : KeyOf(tokens'[x].row) = KeyOf(tokens[x].row)
    BY <1>11 DEF KeyOf
  <2>2. \A x \in DOMAIN tokens : KeyOf(tokens[x].row) \in FamilyKey
    BY <1>1, TenancyAssumption DEF TypeOK, Refresh, RefreshRecord, KeyOf, FamilyKey
  <2> QED BY <1>1, <1>4, <1>5, <1>10, <2>1, <2>2, SMTT(30) DEF IndexExact
<1>17. FamilyUniform'
  <2> SUFFICES ASSUME NEW fk \in FamilyKey, NEW x \in families'[fk], NEW y \in families'[fk]
               PROVE  /\ tokens'[x].row.subject = tokens'[y].row.subject
                      /\ tokens'[x].row.lineage = tokens'[y].row.lineage
                      /\ tokens'[x].revoked = tokens'[y].revoked
    BY DEF FamilyUniform
  <2>1. CASE fk # KeyOf(next)
    BY <1>1, <1>5, <1>11, <2>1, SMTT(30) DEF FamilyUniform, IndexExact
  <2>2. CASE fk = KeyOf(next)
    <3>1. ASSUME NEW z \in families'[fk]
          PROVE  /\ tokens'[z].row.subject = next.subject
                 /\ tokens'[z].row.lineage = next.lineage
                 /\ tokens'[z].revoked = FALSE
      <4>1. CASE z = n
        BY <1>10, <4>1
      <4>2. CASE z # n
        <5>1. z \in families[fk] /\ z \in DOMAIN tokens /\ h \in families[fk]
          BY <1>1, <1>5, <1>13, <2>2, <4>2 DEF IndexExact
        <5>2. tokens[h].revoked = FALSE
          BY <1>1, <1>3, SMTT(30) DEF TypeOK, Refresh
        <5>3. /\ tokens[z].row.subject = tokens[h].row.subject
              /\ tokens[z].row.lineage = tokens[h].row.lineage
              /\ tokens[z].revoked = tokens[h].revoked
          BY <1>1, <5>1 DEF FamilyUniform
        <5> QED BY <1>3, <1>11, <5>1, <5>2, <5>3
      <4> QED BY <4>1, <4>2
    <3> QED BY <3>1
  <2> QED BY <2>1, <2>2
<1>18. Ledger'
  <2>1. \A x \in DOMAIN tokens' :
           /\ x \in DOMAIN issued'
           /\ issued'[x].family = tokens'[x].row.family
           /\ tokens'[x].row.subject = Owner[tokens'[x].row.lineage]
           /\ admitted'[tokens'[x].row.lineage] # 0
           /\ tokens'[x].row.end \in 1 .. MaxTime + MaxLife
           /\ tokens'[x].row.idle <= tokens'[x].row.end
    BY <1>1, <1>2, <1>4, <1>10, <1>11, <1>14, SMTT(30) DEF Ledger, RowsIssued
  <2>2. \A x \in DOMAIN issued' :
           issued'[x].from # Root =>
              /\ issued'[x].from \in DOMAIN issued'
              /\ issued'[x].from \in DOMAIN tokens' => tokens'[issued'[x].from].consumedAt # 0
    <3>1. tokens'[h].consumedAt # 0
      BY <1>6, <1>8, <1>10
    <3> QED BY <1>1, <1>10, <1>14, <3>1, SMTT(30) DEF Ledger, ExchangedConsumed
  <2>3. \A fk \in FamilyKey :
           ended'[fk] # 0 => \E x \in DOMAIN issued' : issued'[x].family = fk[2]
    BY <1>1, <1>2, <1>14, SMTT(30) DEF Ledger, EndedIssued
  <2> QED BY <2>1, <2>2, <2>3 DEF Ledger, RowsIssued, ExchangedConsumed, EndedIssued
<1>19. NoFork'
  <2>1. h # Root
    BY <1>1, IdsAssumption DEF TypeOK
  <2>2. \A x \in DOMAIN issued : issued[x].from # h
    BY <1>1, <1>3, <2>1 DEF Ledger, ExchangedConsumed
  <2> QED BY <1>1, <1>14, <2>2 DEF NoFork
<1>20. SingleHead'
  BY <1>1, <1>3, <1>5, <1>12, <1>13, SMTT(30) DEF SingleHead, IndexExact
<1>21. OneLiveFamilyPerLineage'
  BY <1>1, <1>3, <1>10, <1>11, SMTT(30) DEF OneLiveFamilyPerLineage
<1>22. RevokedForGood'
  <2>1. ended[KeyOf(next)] = 0
    BY <1>1, <1>3, <1>4, <1>13 DEF RevokedForGood
  <2> QED BY <1>1, <1>2, <1>5, <1>11, <2>1, SMTT(30) DEF RevokedForGood, IndexExact
<1>23. FeedComplete'
  BY <1>1, <1>2, <1>10, <1>11, SMTT(30) DEF FeedComplete, KeyOf
<1> QED
  BY <1>15, <1>16, <1>17, <1>18, <1>19, <1>20, <1>21, <1>22, <1>23 DEF IInv

\* An accepted Reissue: family fk is revoked and n starts the next one.
LEMMA ReissueStep ==
    ASSUME IInv, NEW h \in DOMAIN issued, NEW n \in Hash, NEW l \in Lineage, NEW f \in Family,
           NEW t \in Recent, admitted[l] # 0, FreshHash(n), FreshFamily(f),
           NEW next \in NextRecords(f, l, NoClient), NEW fk,
           fk = <<TenantOf[Owner[l]], issued[h].family>>, Supersede(fk, n, next, t)
    PROVE  IInv'
<1> DEFINE toks == Insert(tokens, n, next)
           key == KeyOf(next)
<1>1. TypeOK /\ IndexExact /\ FamilyUniform /\ Ledger /\ NoFork /\ SingleHead
      /\ OneLiveFamilyPerLineage /\ RevokedForGood /\ FeedComplete
  BY DEF IInv
<1>0. /\ Replaceable(fk, n, next, t)
      /\ RevokeAll({fk})
      /\ tokens' = RevokeRows(toks, {fk})
      /\ families' = Index(families, n, next)
      /\ Issue(n, next, Root)
      /\ reply' = "ok"
      /\ UNCHANGED <<now, admitted>>
  BY DEF Supersede
<1>a. now' = now /\ admitted' = admitted
  BY <1>0
<1>2. fk \in FamilyKey /\ {fk} \in SUBSET FamilyKey /\ fk[1] = TenantOf[Owner[l]]
  BY <1>1, TenancyAssumption DEF TypeOK, FamilyKey
<1>3. /\ next \in RefreshRecord
      /\ next.family = f /\ next.lineage = l /\ next.subject = Owner[l]
      /\ next.end \in 1 .. MaxTime + MaxLife /\ next.idle <= next.end
      /\ key = <<TenantOf[Owner[l]], f>>
      /\ key \in FamilyKey
  <2>1. NoClient \in Fingerprint
    BY DEF Fingerprint
  <2>2. TypeOK
    BY <1>1
  <2>3. RecordOf(next, f, l, NoClient)
    BY <2>1, <2>2, NextRecordFacts
  <2> QED BY <2>3 DEF RecordOf, key
<1>4. /\ n \notin DOMAIN tokens
      /\ families[fk] # {}
      /\ families[key] = {}
      /\ f # fk[2]
      /\ \A x \in families[fk] : tokens[x].row.lineage = l /\ ~tokens[x].revoked
  BY <1>0, <1>3 DEF Replaceable, Live, Revoked
<1>5. Appended({fk}) = {fk}
  BY <1>4 DEF Appended
<1> HIDE DEF key, toks
<1>6. /\ DOMAIN toks = DOMAIN tokens \cup {n}
      /\ toks \in [DOMAIN tokens \cup {n} -> Refresh]
      /\ \A x \in DOMAIN tokens : x # n /\ toks[x] = tokens[x]
      /\ toks[n].row = next /\ toks[n].consumedAt = 0 /\ toks[n].revoked = FALSE
      /\ families' \in [FamilyKey -> SUBSET Hash]
      /\ families'[key] = {n}
      /\ \A k \in FamilyKey : k # key => families'[k] = families[k]
      /\ \A k \in FamilyKey : n \notin families[k]
  <2>1. Inserted(toks, Index(families, n, next), n, next)
    BY <1>3, <1>4, InsertFacts DEF toks, key
  <2>2. Inserted(toks, families', n, next)
    BY <1>0, <2>1
  <2> QED BY <1>4, <2>2 DEF Inserted, key
<1>7. DOMAIN tokens' = DOMAIN tokens \cup {n}
  BY <1>0, <1>6 DEF RevokeRows
<1>8. \A x \in DOMAIN tokens : x \in families[fk] <=> KeyOf(tokens[x].row) = fk
  BY <1>1, <1>2 DEF IndexExact
<1>9. ASSUME NEW x \in DOMAIN tokens'
      PROVE  /\ tokens'[x] \in Refresh
             /\ tokens'[x].row = toks[x].row
             /\ tokens'[x].consumedAt = toks[x].consumedAt
             /\ x \notin families[fk] => tokens'[x] = toks[x]
             /\ x \in families[fk] => tokens'[x].revoked
  <2>1. toks[x] \in Refresh
    BY <1>6, <1>7
  <2>2. CASE x \in families[fk]
    <3>1. tokens'[x] = [toks[x] EXCEPT !.revoked = TRUE]
      BY <1>0, <1>6, <1>7, <2>2 DEF RevokeRows
    <3> QED BY <2>1, <2>2, <3>1 DEF Refresh
  <2>3. CASE x \notin families[fk]
    <3>1. tokens'[x] = toks[x]
      BY <1>0, <1>6, <1>7, <2>3 DEF RevokeRows
    <3> QED BY <2>1, <2>3, <3>1
  <2> QED BY <2>2, <2>3
<1>10. \A x \in DOMAIN tokens :
          /\ x \in DOMAIN tokens' /\ x # n
          /\ tokens'[x].row = tokens[x].row /\ tokens'[x].consumedAt = tokens[x].consumedAt
          /\ x \notin families[fk] => tokens'[x] = tokens[x]
          /\ x \in families[fk] => tokens'[x].revoked
  BY <1>6, <1>7, <1>9
<1>11. n \in DOMAIN tokens' /\ tokens'[n] = toks[n]
  BY <1>2, <1>6, <1>7, <1>9
<1>12. \A x \in DOMAIN tokens : KeyOf(tokens[x].row) \in FamilyKey
  BY <1>1, TenancyAssumption DEF TypeOK, Refresh, RefreshRecord, KeyOf, FamilyKey
<1>13. /\ DOMAIN issued' = DOMAIN issued \cup {n}
       /\ DOMAIN issued' \subseteq Hash
       /\ issued' \in [DOMAIN issued' -> [family : Family, from : Hash \cup {Root}]]
       /\ \A x \in DOMAIN issued : x # n /\ issued'[x] = issued[x]
       /\ issued'[n].family = f /\ issued'[n].from = Root
  BY <1>0, <1>1, <1>3, IssueFacts
<1>14. ended'[key] = 0 /\ key # fk
  <2>1. ended[key] = 0
    BY <1>1, <1>3 DEF Ledger, EndedIssued, FreshFamily
  <2>2. key # fk
    BY <1>3, <1>4
  <2> QED BY <1>0, <1>1, <1>2, <1>3, <1>5, <2>1, <2>2, RevokeAllFeed
<1>15. TypeOK'
  <2>1. tokens' \in [DOMAIN tokens' -> Refresh]
    <3>1. tokens' = [x \in DOMAIN tokens' |-> tokens'[x]]
      BY <1>0 DEF RevokeRows
    <3> QED BY <1>9, <3>1
  <2>2. reply' \in Outcome
    BY <1>0 DEF Outcome
  <2> QED BY <1>0, <1>1, <1>2, <1>6, <1>7, <1>13, <2>1, <2>2, RevokeAllFeed DEF TypeOK
<1>16. IndexExact'
  <2>1. \A x \in DOMAIN tokens : KeyOf(tokens'[x].row) = KeyOf(tokens[x].row)
    BY <1>10 DEF KeyOf
  <2>2. KeyOf(tokens'[n].row) = key
    BY <1>6, <1>11 DEF key
  <2>3. ASSUME NEW k \in FamilyKey, NEW x \in families'[k]
        PROVE  x \in DOMAIN tokens' /\ KeyOf(tokens'[x].row) = k
    <3>1. CASE k = key
      BY <1>6, <1>7, <2>2, <3>1
    <3>2. CASE k # key
      <4>1. x \in families[k]
        BY <1>6, <3>2
      <4>2. x \in DOMAIN tokens /\ KeyOf(tokens[x].row) = k
        BY <1>1, <4>1 DEF IndexExact
      <4> QED BY <1>7, <2>1, <4>2
    <3> QED BY <3>1, <3>2
  <2>4. ASSUME NEW x \in DOMAIN tokens'
        PROVE  x \in families'[KeyOf(tokens'[x].row)]
    <3>1. CASE x = n
      BY <1>6, <2>2, <3>1
    <3>2. CASE x # n
      <4>1. x \in DOMAIN tokens
        BY <1>7, <3>2
      <4>2. x \in families[KeyOf(tokens[x].row)]
        BY <1>1, <4>1 DEF IndexExact
      <4> QED BY <1>4, <1>6, <1>12, <2>1, <4>1, <4>2
    <3> QED BY <3>1, <3>2
  <2> QED BY <2>3, <2>4 DEF IndexExact, KeyOf
<1>17. FamilyUniform'
  <2> SUFFICES ASSUME NEW k \in FamilyKey, NEW x \in families'[k], NEW y \in families'[k]
               PROVE  /\ tokens'[x].row.subject = tokens'[y].row.subject
                      /\ tokens'[x].row.lineage = tokens'[y].row.lineage
                      /\ tokens'[x].revoked = tokens'[y].revoked
    BY DEF FamilyUniform
  <2>1. CASE k = key
    BY <1>6, <2>1
  <2>2. CASE k # key
    <3>1. x \in families[k] /\ y \in families[k] /\ x \in DOMAIN tokens /\ y \in DOMAIN tokens
          /\ KeyOf(tokens[x].row) = k /\ KeyOf(tokens[y].row) = k
      BY <1>1, <1>6, <2>2 DEF IndexExact
    <3>a. /\ tokens[x].row.subject = tokens[y].row.subject
          /\ tokens[x].row.lineage = tokens[y].row.lineage
          /\ tokens[x].revoked = tokens[y].revoked
      BY <1>1, <3>1 DEF FamilyUniform
    <3>b. tokens'[x].row = tokens[x].row /\ tokens'[y].row = tokens[y].row
      BY <1>10, <3>1
    <3>2. CASE k = fk
      <4>1. tokens'[x].revoked \in BOOLEAN /\ tokens'[y].revoked \in BOOLEAN
        BY <1>9, <1>10, <3>1 DEF Refresh
      <4>2. tokens'[x].revoked = tokens'[y].revoked
        BY <1>10, <3>1, <3>2, <4>1
      <4> QED BY <3>a, <3>b, <4>2
    <3>3. CASE k # fk
      <4>1. x \notin families[fk] /\ y \notin families[fk]
        BY <1>8, <3>1, <3>3
      <4>2. tokens'[x] = tokens[x] /\ tokens'[y] = tokens[y]
        BY <1>10, <3>1, <4>1
      <4> QED BY <3>a, <4>2
    <3> QED BY <3>2, <3>3
  <2> QED BY <2>1, <2>2
<1>18. Ledger'
  <2>1. \A x \in DOMAIN tokens' :
           /\ x \in DOMAIN issued'
           /\ issued'[x].family = tokens'[x].row.family
           /\ tokens'[x].row.subject = Owner[tokens'[x].row.lineage]
           /\ admitted'[tokens'[x].row.lineage] # 0
           /\ tokens'[x].row.end \in 1 .. MaxTime + MaxLife
           /\ tokens'[x].row.idle <= tokens'[x].row.end
    BY <1>1, <1>3, <1>6, <1>7, <1>10, <1>11, <1>13, <1>a, SMTT(30) DEF Ledger, RowsIssued
  <2>2. \A x \in DOMAIN issued' :
           issued'[x].from # Root =>
              /\ issued'[x].from \in DOMAIN issued'
              /\ issued'[x].from \in DOMAIN tokens' => tokens'[issued'[x].from].consumedAt # 0
    BY <1>1, <1>7, <1>10, <1>13, SMTT(30) DEF Ledger, ExchangedConsumed
  <2>3. \A k \in FamilyKey :
           ended'[k] # 0 => \E x \in DOMAIN issued' : issued'[x].family = k[2]
    <3>1. issued'[h].family = fk[2] /\ h \in DOMAIN issued'
      BY <1>13
    <3>2. \A k \in FamilyKey : k # fk => ended'[k] = ended[k]
      BY <1>0, <1>1, <1>2, <1>5, RevokeAllFeed
    <3> QED BY <1>1, <1>13, <3>1, <3>2, SMTT(30) DEF Ledger, EndedIssued
  <2> QED BY <2>1, <2>2, <2>3 DEF Ledger, RowsIssued, ExchangedConsumed, EndedIssued
<1>19. NoFork'
  BY <1>1, <1>13 DEF NoFork
<1>20. SingleHead'
  <2> SUFFICES ASSUME NEW k \in FamilyKey, NEW x \in families'[k], NEW y \in families'[k],
                      tokens'[x].consumedAt = 0, tokens'[y].consumedAt = 0
               PROVE  x = y
    BY DEF SingleHead
  <2>1. CASE k = key
    BY <1>6, <2>1
  <2>2. CASE k # key
    <3>1. x \in families[k] /\ y \in families[k]
      BY <1>6, <2>2
    <3>2. x \in DOMAIN tokens /\ y \in DOMAIN tokens
      BY <1>1, <3>1 DEF IndexExact
    <3>3. tokens[x].consumedAt = 0 /\ tokens[y].consumedAt = 0
      BY <1>10, <3>2
    <3> QED BY <1>1, <3>1, <3>3 DEF SingleHead
  <2> QED BY <2>1, <2>2
<1>21. OneLiveFamilyPerLineage'
  <2>1. ASSUME NEW y \in DOMAIN tokens, tokens[y].row.lineage = l
        PROVE  tokens'[y].revoked
    <3>1. CASE tokens[y].revoked
      BY <1>10, <3>1
    <3>2. CASE ~tokens[y].revoked
      <4>1. PICK z \in families[fk] : TRUE
        BY <1>4
      <4>2. z \in DOMAIN tokens /\ KeyOf(tokens[z].row) = fk
        BY <1>1, <1>2 DEF IndexExact
      <4>3. tokens[y].row.family = tokens[z].row.family
        BY <1>1, <1>4, <2>1, <3>2, <4>2 DEF OneLiveFamilyPerLineage
      <4>4. KeyOf(tokens[y].row) = fk
        BY <1>1, <1>2, <2>1, <4>2, <4>3, SMTT(30) DEF Ledger, RowsIssued, KeyOf
      <4> QED BY <1>8, <1>10, <4>4
    <3> QED BY <3>1, <3>2
  <2>2. \A x \in DOMAIN tokens : tokens[x].revoked => tokens'[x].revoked
    BY <1>10
  <2>3. tokens'[n].row.lineage = l
    BY <1>3, <1>6, <1>11
  <2>4. \A x \in DOMAIN tokens : tokens'[x].row = tokens[x].row
    BY <1>10
  <2> SUFFICES ASSUME NEW x \in DOMAIN tokens', NEW y \in DOMAIN tokens',
                      tokens'[x].row.lineage = tokens'[y].row.lineage,
                      ~tokens'[x].revoked, ~tokens'[y].revoked
               PROVE  tokens'[x].row.family = tokens'[y].row.family
    BY DEF OneLiveFamilyPerLineage
  <2>5. CASE x = n /\ y = n
    BY <2>5
  <2>6. CASE x = n /\ y # n
    BY <1>7, <2>1, <2>3, <2>4, <2>6
  <2>7. CASE x # n /\ y = n
    BY <1>7, <2>1, <2>3, <2>4, <2>7
  <2>8. CASE x # n /\ y # n
    <3>1. x \in DOMAIN tokens /\ y \in DOMAIN tokens
      BY <1>7, <2>8
    <3> QED BY <1>1, <2>2, <2>4, <3>1, SMTT(30) DEF OneLiveFamilyPerLineage
  <2> QED BY <2>5, <2>6, <2>7, <2>8
<1>22. RevokedForGood'
  <2> SUFFICES ASSUME NEW k \in FamilyKey, ended'[k] # 0, NEW x \in families'[k]
               PROVE  tokens'[x].revoked
    BY DEF RevokedForGood
  <2>1. k # key
    BY <1>14
  <2>2. x \in families[k] /\ x \in DOMAIN tokens
    BY <1>1, <1>6, <2>1 DEF IndexExact
  <2>3. CASE k = fk
    BY <1>10, <2>2, <2>3
  <2>4. CASE k # fk
    <3>1. tokens[x].revoked
      BY <1>0, <1>1, <1>2, <1>5, <2>2, <2>4, RevokeAllFeed DEF RevokedForGood
    <3> QED BY <1>10, <2>2, <3>1
  <2> QED BY <2>3, <2>4
<1>23. FeedComplete'
  <2>1. \A k \in FamilyKey :
           now < ended'[k] => \E e \in feed' : e.fk = k /\ e.expires = ended'[k]
    BY <1>0, <1>1, <1>2, RevokeAllFeed, ZenonT(40) DEF FeedComplete
  <2>2. ASSUME NEW x \in DOMAIN tokens, tokens'[x].revoked
        PROVE  tokens[x].row.end <= ended'[KeyOf(tokens[x].row)]
    <3>1. CASE x \in families[fk]
      BY <1>0, <1>1, <1>2, <1>5, <1>8, <3>1, RevokeAllFeed
    <3>2. CASE x \notin families[fk]
      <4>1. ended'[KeyOf(tokens[x].row)] = ended[KeyOf(tokens[x].row)]
        BY <1>0, <1>1, <1>2, <1>5, <1>8, <1>12, <3>2, RevokeAllFeed
      <4> QED BY <1>1, <1>10, <2>2, <3>2, <4>1 DEF FeedComplete
    <3> QED BY <3>1, <3>2
  <2>3. tokens'[n].revoked = FALSE
    BY <1>6, <1>11
  <2>4. \A x \in DOMAIN tokens' :
           tokens'[x].revoked => tokens'[x].row.end <= ended'[KeyOf(tokens'[x].row)]
    BY <1>7, <1>10, <2>2, <2>3 DEF KeyOf
  <2> QED BY <1>a, <2>1, <2>4 DEF FeedComplete, KeyOf
<1> QED
  BY <1>15, <1>16, <1>17, <1>18, <1>19, <1>20, <1>21, <1>22, <1>23 DEF IInv

-----------------------------------------------------------------------------
\* The theorems.

\* Every step keeps the invariant.
LEMMA NextPreserves == IInv /\ [Next]_vars => IInv'
<1> SUFFICES ASSUME IInv, [Next]_vars PROVE IInv'
  BY SMTT(30)
<1>0. TypeOK
  BY DEF IInv
<1>1. CASE UNCHANGED vars
  <2>1. now' \in 1 .. MaxTime /\ now' >= now /\ reply' \in Outcome
    BY <1>0, <1>1, SMTT(30) DEF vars, TypeOK
  <2> QED BY <1>1, <2>1, IdleStep DEF vars, history
<1>2. CASE Tick
  <2>1. now' \in 1 .. MaxTime /\ now' >= now /\ reply' \in Outcome
    BY <1>0, <1>2, TimesAssumption, SMTT(30) DEF Tick, TypeOK, Outcome
  <2> QED BY <1>2, <2>1, IdleStep DEF Tick
<1>3. CASE \E tn \in Tenant : Login(tn)
  BY <1>3, CreateStep DEF Login
<1>4. CASE \E tn \in Tenant : Rotation(tn)
  <2>1. PICK h \in DOMAIN issued, n \in Hash, l \in Lineage, f \in Family, fp \in Client,
             t \in Recent :
           /\ admitted[l] # 0
           /\ FreshHash(n)
           /\ \E next \in NextRecords(f, l, fp) : ConsumeForRotation(h, n, next, t)
    BY <1>4 DEF Rotation
  <2>2. PICK next \in NextRecords(f, l, fp) : ConsumeForRotation(h, n, next, t)
    BY <2>1
  <2>3. CASE Rotate(h, n, next, t)
    BY <2>1, <2>3, RotateStep
  <2>4. CASE Reuse(h, next, t)
    <3>1. h \in DOMAIN tokens
      BY <2>4 DEF Reuse, RotationOutcome, Found
    <3>2. {KeyOf(tokens[h].row)} \in SUBSET FamilyKey
      BY <1>0, <3>1, TenancyAssumption, SMTT(30) DEF TypeOK, Refresh, RefreshRecord, KeyOf, FamilyKey
    <3> QED BY <2>4, <3>2, RevokeStep DEF Reuse, Outcome
  <2>5. CASE RefuseRotation(h, next, t)
    <3>1. RotationOutcome(h, next, t) \in Outcome
      BY DEF RotationOutcome, Replayable, Outcome
    <3>2. now' \in 1 .. MaxTime /\ now' >= now /\ reply' \in Outcome
      BY <1>0, <2>5, <3>1, SMTT(30) DEF RefuseRotation, TypeOK
    <3> QED BY <2>5, <3>2, IdleStep DEF RefuseRotation
  <2> QED BY <2>2, <2>3, <2>4, <2>5 DEF ConsumeForRotation
<1>5. CASE \E tn \in Tenant : Replace(tn)
  <2>1. PICK h \in DOMAIN issued, n \in Hash, l \in Lineage, f \in Family, t \in Recent :
           /\ admitted[l] # 0
           /\ FreshHash(n)
           /\ FreshFamily(f)
           /\ \E next \in NextRecords(f, l, NoClient) :
                 Reissue(<<TenantOf[Owner[l]], issued[h].family>>, n, next, t)
    BY <1>5 DEF Replace
  <2> DEFINE fk == <<TenantOf[Owner[l]], issued[h].family>>
  <2>2. PICK next \in NextRecords(f, l, NoClient) : Reissue(fk, n, next, t)
    BY <2>1
  <2>3. CASE Supersede(fk, n, next, t)
    BY <2>1, <2>3, ReissueStep
  <2>4. CASE RefuseReissue(fk, n, next, t)
    <3>1. now' \in 1 .. MaxTime /\ now' >= now /\ reply' \in Outcome
      BY <1>0, <2>4, SMTT(30) DEF RefuseReissue, TypeOK, Outcome
    <3> QED BY <2>4, <3>1, IdleStep DEF RefuseReissue
  <2> QED BY <2>2, <2>3, <2>4 DEF Reissue
<1>6. CASE \E tn \in Tenant : Read(tn)
  <2>1. PICK tn \in Tenant, h \in DOMAIN issued, t \in Recent : Get(tn, h, t)
    BY <1>6 DEF Read
  <2>2. now' \in 1 .. MaxTime /\ now' >= now /\ reply' \in Outcome
    BY <1>0, <2>1, SMTT(30) DEF Get, Replayable, TypeOK, Outcome
  <2> QED BY <2>1, <2>2, IdleStep DEF Get
<1>7. CASE \E tn \in Tenant : Revocation(tn)
  <2>1. PICK S \in SUBSET FamilyKey : RevokeFamilies(S)
    <3>1. \A fk \in FamilyKey : {fk} \in SUBSET FamilyKey
      BY SMTT(30)
    <3>2. \A s \in Subject, except \in Lineage \cup {NoLineage} :
             {fk \in SubjectFamilies(s) : except = NoLineage \/ First(fk).lineage # except}
                \in SUBSET FamilyKey
      BY DEF SubjectFamilies
    <3>3. \A tn \in Tenant : \A f \in Family : <<tn, f>> \in FamilyKey
      BY DEF FamilyKey
    <3> QED BY <1>7, <3>1, <3>2, <3>3 DEF Revocation, RevokeFamily, RevokeForSubject, Accounts
  <2> QED BY <2>1, RevokeStep DEF RevokeFamilies, Outcome
<1>8. CASE \E tn \in Tenant : Erasure(tn)
  <2>1. PICK S \in SUBSET FamilyKey : EraseFamilies(S)
    <3>1. \A s \in Subject : SubjectFamilies(s) \in SUBSET FamilyKey
      BY DEF SubjectFamilies
    <3>2. \A tn \in Tenant : {fk \in FamilyKey : fk[1] = tn} \in SUBSET FamilyKey
      BY SMTT(30)
    <3> QED BY <1>8, <3>1, <3>2 DEF Erasure, DeleteForSubject, EraseTenant, Accounts
  <2> QED BY <2>1, EraseStep
<1>9. CASE Reap
  BY <1>9, ReapStep DEF Reap
<1> QED
  BY <1>1, <1>2, <1>3, <1>4, <1>5, <1>6, <1>7, <1>8, <1>9 DEF Next, Request

\* The empty store satisfies it.
LEMMA InitEstablishes == Init => IInv
<1> SUFFICES ASSUME Init PROVE IInv
  BY SMTT(30)
<1>1. DOMAIN tokens = {} /\ DOMAIN issued = {} /\ tokens \in [{} -> Refresh]
      /\ issued \in [{} -> [family : Family, from : Hash \cup {Root}]]
  BY DEF Init
<1>2. TypeOK
  BY <1>1, TimesAssumption, SMTT(30) DEF Init, TypeOK, Outcome
<1>3. IndexExact /\ FamilyUniform /\ SingleHead /\ NoFork /\ OneLiveFamilyPerLineage
  BY <1>1 DEF Init, IndexExact, FamilyUniform, SingleHead, NoFork, OneLiveFamilyPerLineage
<1>4. Ledger /\ RevokedForGood /\ FeedComplete
  BY <1>1, SMTT(30) DEF Init, Ledger, RowsIssued, ExchangedConsumed, EndedIssued, RevokedForGood, FeedComplete
<1> QED
  BY <1>2, <1>3, <1>4 DEF IInv

\* The inductive invariant holds in every reachable state.
THEOREM Inductive == Spec => []IInv
<1> QED
  BY InitEstablishes, NextPreserves, PTL DEF Spec

\* Every variable keeps its shape and feed positions are store-issued.
THEOREM TypeCorrect == Spec => []TypeOK
<1>1. IInv => TypeOK
  BY DEF IInv
<1> QED BY <1>1, Inductive, PTL

\* Store.families and Store.tokens always agree, and one row speaks for its
\* family.
THEOREM IndexCorrect == Spec => [](IndexExact /\ FamilyUniform)
<1>1. IInv => IndexExact /\ FamilyUniform
  BY DEF IInv
<1> QED BY <1>1, Inductive, PTL

\* No token is ever exchanged twice: ConsumeForRotation builds chains.
THEOREM RotationNeverForks == Spec => []NoFork
<1>1. IInv => NoFork
  BY DEF IInv
<1> QED BY <1>1, Inductive, PTL

\* A family has at most one token that can still be rotated.
THEOREM OneHeadPerFamily == Spec => []SingleHead
<1>1. IInv => SingleHead
  BY DEF IInv
<1> QED BY <1>1, Inductive, PTL

\* Racing Reissues leave at most one unrevoked family per session lineage.
THEOREM OneFamilyPerLineage == Spec => []OneLiveFamilyPerLineage
<1>1. IInv => OneLiveFamilyPerLineage
  BY DEF IInv
<1> QED BY <1>1, Inductive, PTL

\* A revoked family never holds a live row again.
THEOREM RevocationIsFinal == Spec => []RevokedForGood
<1>1. IInv => RevokedForGood
  BY DEF IInv
<1> QED BY <1>1, Inductive, PTL

\* The revocation feed keeps the entry of every ended family until its expiry.
THEOREM FeedIsComplete == Spec => []FeedComplete
<1>1. IInv => FeedComplete
  BY DEF IInv
<1> QED BY <1>1, Inductive, PTL

-----------------------------------------------------------------------------
\* Tenant isolation.

\* Revoking or erasing the families of one tenant spares the rows of the others.
LEMMA ScopedStep ==
    ASSUME IndexExact, NEW tn, NEW S \in SUBSET FamilyKey, \A fk \in S : fk[1] = tn, scope' = {tn},
           \A h \in DOMAIN tokens :
              (\A fk \in S : h \notin families[fk]) => h \in DOMAIN tokens' /\ tokens'[h] = tokens[h]
    PROVE  SparesOthers
<1>1. \A h \in DOMAIN tokens :
         TenantOf[tokens[h].row.subject] # tn => \A fk \in S : h \notin families[fk]
  BY SMTT(30) DEF IndexExact, KeyOf
<1> QED
  BY <1>1 DEF SparesOthers

\* A record built for lineage l is of the tenant of its owner.
LEMMA RecordTenant ==
    ASSUME NEW f, NEW l, NEW fp, NEW next \in NextRecords(f, l, fp)
    PROVE  next.subject = Owner[l]
<1>1. PICK at, life : next = NewRefreshRecord(f, l, fp, admitted[l], at, life)
  BY DEF NextRecords
<1> QED BY <1>1 DEF NewRefreshRecord

\* A request of tenant tn changes rows of tn only.
LEMMA RequestSpares == ASSUME IInv, NEW tn \in Tenant, Request(tn) PROVE SparesOthers
<1>0. TypeOK /\ IndexExact /\ scope' = {tn}
  BY DEF IInv, Request
<1>1. ASSUME tokens' = tokens PROVE SparesOthers
  BY <1>1 DEF SparesOthers
<1>2. CASE Read(tn)
  BY <1>1, <1>2 DEF Read, Get
<1>3. CASE Login(tn)
  <2>1. PICK n \in Hash, f \in Family, l \in Lineage, life \in Lifetimes, at \in Recent :
           Create(n, f, l, at, life)
    BY <1>3 DEF Login
  <2> DEFINE row == NewRefreshRecord(f, l, NoClient, at, at, life)
  <2>2. n \notin DOMAIN tokens /\ tokens' = Insert(tokens, n, row)
    BY <2>1 DEF Create
  <2> HIDE DEF row
  <2>3. \A h \in DOMAIN tokens : h \in DOMAIN tokens' /\ tokens'[h] = tokens[h]
    BY <2>2 DEF Insert
  <2> QED BY <2>3 DEF SparesOthers
<1>4. CASE Rotation(tn)
  <2>1. PICK h \in DOMAIN issued, n \in Hash, l \in Lineage, f \in Family, fp \in Client,
             t \in Recent :
           /\ TenantOf[Owner[l]] = tn
           /\ \E next \in NextRecords(f, l, fp) : ConsumeForRotation(h, n, next, t)
    BY <1>4 DEF Rotation
  <2>2. PICK next \in NextRecords(f, l, fp) : ConsumeForRotation(h, n, next, t)
    BY <2>1
  <2>3. TenantOf[next.subject] = tn
    BY <2>1, RecordTenant
  <2>4. CASE Rotate(h, n, next, t)
    <3>1. \A x \in DOMAIN tokens : x # h => x \in DOMAIN tokens' /\ tokens'[x] = tokens[x]
      BY <2>4 DEF Rotate, Insert
    <3>2. TenantOf[tokens[h].row.subject] = tn
      BY <2>3, <2>4 DEF Rotate, RotationOutcome, Found
    <3> QED BY <1>0, <3>1, <3>2 DEF SparesOthers
  <2>5. CASE Reuse(h, next, t)
    <3> DEFINE fk == KeyOf(tokens[h].row)
    <3>1. h \in DOMAIN tokens /\ TenantOf[tokens[h].row.subject] = tn
      BY <2>3, <2>5 DEF Reuse, RotationOutcome, Found
    <3>2. {fk} \in SUBSET FamilyKey
      BY <1>0, <3>1, TenancyAssumption, SMTT(30) DEF TypeOK, Refresh, RefreshRecord, KeyOf, FamilyKey
    <3>3. \A k \in {fk} : k[1] = tn
      BY <3>1, SMTT(30) DEF KeyOf
    <3>4. \A x \in DOMAIN tokens :
             x \notin families[fk] => x \in DOMAIN tokens' /\ tokens'[x] = tokens[x]
      BY <2>5 DEF Reuse, RevokeRows
    <3> HIDE DEF fk
    <3> QED BY <1>0, <3>2, <3>3, <3>4, ScopedStep
  <2>6. CASE RefuseRotation(h, next, t)
    BY <1>1, <2>6 DEF RefuseRotation
  <2> QED BY <2>2, <2>4, <2>5, <2>6 DEF ConsumeForRotation
<1>5. CASE Replace(tn)
  <2>1. PICK h \in DOMAIN issued, n \in Hash, l \in Lineage, f \in Family, t \in Recent :
           \E next \in NextRecords(f, l, NoClient) : Reissue(<<tn, issued[h].family>>, n, next, t)
    BY <1>5 DEF Replace
  <2> DEFINE fk == <<tn, issued[h].family>>
  <2>2. PICK next \in NextRecords(f, l, NoClient) : Reissue(fk, n, next, t)
    BY <2>1
  <2>3. {fk} \in SUBSET FamilyKey
    BY <1>0 DEF TypeOK, FamilyKey
  <2>4. \A k \in {fk} : k[1] = tn
    BY SMTT(30)
  <2> HIDE DEF fk
  <2>5. CASE Supersede(fk, n, next, t)
    <3>1. \A x \in DOMAIN tokens :
             x \notin families[fk] => x \in DOMAIN tokens' /\ tokens'[x] = tokens[x]
      BY <2>5 DEF Supersede, Replaceable, RevokeRows, Insert
    <3> QED BY <1>0, <2>3, <2>4, <3>1, ScopedStep
  <2>6. CASE RefuseReissue(fk, n, next, t)
    BY <1>1, <2>6 DEF RefuseReissue
  <2> QED BY <2>2, <2>5, <2>6 DEF Reissue
<1>6. ASSUME NEW S \in SUBSET FamilyKey, \A fk \in S : fk[1] = tn,
             RevokeFamilies(S) \/ EraseFamilies(S)
      PROVE  SparesOthers
  <2>1. \A x \in DOMAIN tokens :
           (\A fk \in S : x \notin families[fk]) => x \in DOMAIN tokens' /\ tokens'[x] = tokens[x]
    <3>1. CASE RevokeFamilies(S)
      BY <3>1 DEF RevokeFamilies, RevokeRows
    <3>2. CASE EraseFamilies(S)
      BY <3>2 DEF EraseFamilies, DropTokens
    <3> QED BY <1>6, <3>1, <3>2
  <2> QED BY <1>0, <1>6, <2>1, ScopedStep
<1>7. CASE Revocation(tn)
  <2>1. CASE \E f \in Family : RevokeFamily(<<tn, f>>)
    <3>1. PICK f \in Family : RevokeFamilies({<<tn, f>>})
      BY <2>1 DEF RevokeFamily
    <3>2. {<<tn, f>>} \in SUBSET FamilyKey /\ \A k \in {<<tn, f>>} : k[1] = tn
      BY SMTT(30) DEF FamilyKey
    <3> QED BY <1>6, <3>1, <3>2
  <2>2. CASE \E s \in Accounts(tn), except \in Lineage \cup {NoLineage} : RevokeForSubject(s, except)
    <3>1. PICK s \in Accounts(tn), except \in Lineage \cup {NoLineage} : RevokeForSubject(s, except)
      BY <2>2
    <3> DEFINE S == {fk \in SubjectFamilies(s) :
                       except = NoLineage \/ First(fk).lineage # except}
    <3>2. S \in SUBSET FamilyKey /\ \A k \in S : k[1] = tn
      BY DEF SubjectFamilies, Accounts
    <3>3. RevokeFamilies(S)
      BY <3>1 DEF RevokeForSubject
    <3> HIDE DEF S
    <3> QED BY <1>6, <3>2, <3>3
  <2> QED BY <1>7, <2>1, <2>2 DEF Revocation
<1>8. CASE Erasure(tn)
  <2>1. CASE \E s \in Accounts(tn) : DeleteForSubject(s)
    <3>1. PICK s \in Accounts(tn) : EraseFamilies(SubjectFamilies(s))
      BY <2>1 DEF DeleteForSubject
    <3>2. SubjectFamilies(s) \in SUBSET FamilyKey /\ \A k \in SubjectFamilies(s) : k[1] = tn
      BY DEF SubjectFamilies, Accounts
    <3> QED BY <1>6, <3>1, <3>2
  <2>2. CASE EraseTenant(tn)
    <3> DEFINE S == {fk \in FamilyKey : fk[1] = tn}
    <3>1. S \in SUBSET FamilyKey /\ \A k \in S : k[1] = tn
      BY SMTT(30)
    <3>2. EraseFamilies(S)
      BY <2>2 DEF EraseTenant
    <3> HIDE DEF S
    <3> QED BY <1>6, <3>1, <3>2
  <2> QED BY <1>8, <2>1, <2>2 DEF Erasure
<1> QED
  BY <1>2, <1>3, <1>4, <1>5, <1>7, <1>8 DEF Request

\* The reaper runs for all tenants, and time passes for none.
LEMMA NextSpares == IInv /\ [Next]_vars => [SparesOthers]_vars
<1> SUFFICES ASSUME IInv, Next PROVE SparesOthers
  OBVIOUS
<1>0. TypeOK
  BY DEF IInv
<1>1. CASE Tick
  BY <1>1 DEF Tick, SparesOthers
<1>2. CASE Reap
  <2>1. \A h \in DOMAIN tokens : TenantOf[tokens[h].row.subject] \in Tenant
    BY <1>0, TenancyAssumption, SMTT(30) DEF TypeOK, Refresh, RefreshRecord
  <2> QED BY <1>2, <2>1 DEF Reap, SparesOthers
<1>3. CASE \E tn \in Tenant : Request(tn)
  BY <1>3, RequestSpares
<1> QED
  BY <1>1, <1>2, <1>3 DEF Next

\* A request of one tenant consumes, revokes and erases no row of another,
\* whichever token or family it names.
THEOREM TenantsAreIsolated == Spec => TenantIsolation
<1> QED
  BY NextSpares, Inductive, PTL DEF Spec, TenantIsolation

-----------------------------------------------------------------------------
\* A lineage that ended stays ended.

\* The action of LineageEndsForGood.
StaysEnded ==
    \A l \in Lineage : admitted[l] # 0 /\ Surviving(l) = {} => Surviving(l)' = {}

\* A step keeps the records of the rows it keeps and unrevokes none.
RowsKept ==
    \A h \in DOMAIN tokens \cap DOMAIN tokens' :
        /\ tokens'[h].row = tokens[h].row
        /\ tokens[h].revoked => tokens'[h].revoked

\* Such a step that adds no row revives no lineage.
LEMMA ShrinkingStep ==
    ASSUME DOMAIN tokens' \subseteq DOMAIN tokens, RowsKept
    PROVE  StaysEnded
  BY DEF StaysEnded, Surviving, RowsKept

\* Neither does one that adds row n of lineage k, in a state where k still has a
\* live row or was not admitted.
LEMMA GrowingStep ==
    ASSUME NEW n, NEW k, DOMAIN tokens' = DOMAIN tokens \cup {n}, tokens'[n].row.lineage = k,
           RowsKept, admitted[k] = 0 \/ Surviving(k) # {}
    PROVE  StaysEnded
  BY SMTT(30) DEF StaysEnded, Surviving, RowsKept

\* revoke() keeps the records and only ever sets the revocation mark.
LEMMA RevokedRows ==
    ASSUME NEW toks, NEW S, toks \in [DOMAIN toks -> Refresh]
    PROVE  /\ DOMAIN RevokeRows(toks, S) = DOMAIN toks
           /\ \A h \in DOMAIN toks :
                 /\ RevokeRows(toks, S)[h].row = toks[h].row
                 /\ toks[h].revoked => RevokeRows(toks, S)[h].revoked
<1>1. DOMAIN RevokeRows(toks, S) = DOMAIN toks
  BY DEF RevokeRows
<1>2. ASSUME NEW h \in DOMAIN toks
      PROVE  /\ RevokeRows(toks, S)[h].row = toks[h].row
             /\ toks[h].revoked => RevokeRows(toks, S)[h].revoked
  <2>1. toks[h] \in Refresh
    BY SMTT(30)
  <2>2. CASE \E fk \in S : h \in families[fk]
    <3>1. RevokeRows(toks, S)[h] = [toks[h] EXCEPT !.revoked = TRUE]
      BY <2>2 DEF RevokeRows
    <3> QED BY <2>1, <3>1 DEF Refresh
  <2>3. CASE ~\E fk \in S : h \in families[fk]
    BY <2>3 DEF RevokeRows
  <2> QED BY <2>2, <2>3
<1> QED BY <1>1, <1>2

\* No step makes an ended lineage live again.
LEMMA NextStaysEnded == IInv /\ [Next]_vars => StaysEnded
<1> SUFFICES ASSUME IInv, [Next]_vars PROVE StaysEnded
  BY SMTT(30)
<1>0. TypeOK /\ IndexExact /\ Ledger
  BY DEF IInv
<1>1. ASSUME tokens' = tokens PROVE StaysEnded
  BY <1>1, ShrinkingStep, SMTT(30) DEF RowsKept
<1>a. ASSUME NEW S, tokens' = RevokeRows(tokens, S) PROVE StaysEnded
  <2>1. tokens \in [DOMAIN tokens -> Refresh]
    BY <1>0 DEF TypeOK
  <2>2. DOMAIN tokens' = DOMAIN tokens
    BY <1>a DEF RevokeRows
  <2>3. RowsKept
    BY <1>a, <2>1, RevokedRows, SMTT(30) DEF RowsKept
  <2> QED BY <2>2, <2>3, ShrinkingStep
<1>2. CASE UNCHANGED vars \/ Tick \/ \E tn \in Tenant : Read(tn)
  BY <1>1, <1>2 DEF vars, Tick, Read, Get
<1>3. CASE \E tn \in Tenant : Login(tn)
  <2>1. PICK h \in Hash, f \in Family, l \in Lineage, life \in Lifetimes, at \in Recent :
           Create(h, f, l, at, life)
    BY <1>3 DEF Login
  <2> DEFINE row == NewRefreshRecord(f, l, NoClient, at, at, life)
  <2>2. row.lineage = l
    BY DEF NewRefreshRecord
  <2>3. tokens' = Insert(tokens, h, row) /\ h \notin DOMAIN tokens /\ admitted[l] = 0
    BY <2>1 DEF Create
  <2> HIDE DEF row
  <2>4. DOMAIN tokens' = DOMAIN tokens \cup {h} /\ tokens'[h].row.lineage = l /\ RowsKept
    BY <2>2, <2>3 DEF Insert, RowsKept
  <2>5. admitted[l] = 0 \/ Surviving(l) # {}
    BY <2>3
  <2> QED BY <2>4, <2>5, GrowingStep
<1>4. CASE \E tn \in Tenant : Rotation(tn)
  <2>1. PICK h \in DOMAIN issued, n \in Hash, l \in Lineage, f \in Family, fp \in Client,
             t \in Recent :
           \E next \in NextRecords(f, l, fp) : ConsumeForRotation(h, n, next, t)
    BY <1>4 DEF Rotation
  <2>2. PICK next \in NextRecords(f, l, fp) : ConsumeForRotation(h, n, next, t)
    BY <2>1
  <2>3. CASE Rotate(h, n, next, t)
    <3>1. h \in DOMAIN tokens /\ ~tokens[h].revoked /\ tokens[h].row.lineage = next.lineage
      BY <2>3 DEF Rotate, RotationOutcome, Found, Replayable, Continues
    <3> DEFINE toks == Insert(tokens, n, next)
               spent == [toks[h] EXCEPT !.consumedAt = t, !.consumedBy = next.fp]
    <3>2. n \notin DOMAIN tokens /\ tokens' = [toks EXCEPT ![h] = spent]
      BY <2>3 DEF Rotate
    <3>3. DOMAIN toks = DOMAIN tokens \cup {n} /\ toks[n].row = next
          /\ \A x \in DOMAIN tokens : toks[x] = tokens[x]
      BY <3>2 DEF Insert
    <3>4. tokens[h] \in Refresh
      BY <1>0, <3>1 DEF TypeOK
    <3> HIDE DEF toks
    <3>5. spent.row = tokens[h].row /\ spent.revoked = tokens[h].revoked
      BY <3>1, <3>3, <3>4 DEF Refresh
    <3> HIDE DEF spent
    <3>6. DOMAIN tokens' = DOMAIN tokens \cup {n} /\ tokens'[n].row.lineage = next.lineage
      BY <3>1, <3>2, <3>3, <3>5
    <3>7. RowsKept
      BY <3>1, <3>2, <3>3, <3>5 DEF RowsKept
    <3>8. admitted[next.lineage] = 0 \/ Surviving(next.lineage) # {}
      BY <3>1 DEF Surviving
    <3> QED BY <3>6, <3>7, <3>8, GrowingStep
  <2>4. CASE Reuse(h, next, t)
    <3>1. tokens' = RevokeRows(tokens, {KeyOf(tokens[h].row)})
      BY <2>4 DEF Reuse
    <3> QED BY <1>a, <3>1
  <2>5. CASE RefuseRotation(h, next, t)
    BY <1>1, <2>5 DEF RefuseRotation
  <2> QED BY <2>2, <2>3, <2>4, <2>5 DEF ConsumeForRotation
<1>5. CASE \E tn \in Tenant : Replace(tn)
  <2>1. PICK h \in DOMAIN issued, n \in Hash, l \in Lineage, f \in Family, t \in Recent :
           /\ admitted[l] # 0
           /\ \E next \in NextRecords(f, l, NoClient) :
                 Reissue(<<TenantOf[Owner[l]], issued[h].family>>, n, next, t)
    BY <1>5 DEF Replace
  <2> DEFINE fk == <<TenantOf[Owner[l]], issued[h].family>>
  <2>2. PICK next \in NextRecords(f, l, NoClient) : Reissue(fk, n, next, t)
    BY <2>1
  <2>3. fk \in FamilyKey
    BY <1>0, TenancyAssumption DEF TypeOK, FamilyKey
  <2> HIDE DEF fk
  <2>4. CASE Supersede(fk, n, next, t)
    <3> DEFINE toks == Insert(tokens, n, next)
    <3>1. Replaceable(fk, n, next, t) /\ tokens' = RevokeRows(toks, {fk})
      BY <2>4 DEF Supersede
    <3>2. n \notin DOMAIN tokens
          /\ \E x \in families[fk] : tokens[x].row.lineage = next.lineage /\ ~tokens[x].revoked
      BY <3>1 DEF Replaceable, Live, Revoked
    <3>3. admitted[next.lineage] = 0 \/ Surviving(next.lineage) # {}
      BY <1>0, <2>3, <3>2 DEF IndexExact, Surviving
    <3>4. next \in RefreshRecord /\ KeyOf(next) \in FamilyKey
      BY <1>0, <2>1, NextRecordFacts DEF Fingerprint, RecordOf
    <3>5. Inserted(toks, Index(families, n, next), n, next)
      BY <3>2, <3>4, InsertFacts
    <3> HIDE DEF toks
    <3>6. /\ DOMAIN toks = DOMAIN tokens \cup {n}
          /\ toks \in [DOMAIN toks -> Refresh]
          /\ toks[n].row = next
          /\ \A x \in DOMAIN tokens : toks[x] = tokens[x]
      BY <3>5 DEF Inserted
    <3>7. DOMAIN tokens' = DOMAIN toks
          /\ \A x \in DOMAIN toks : /\ tokens'[x].row = toks[x].row
                                    /\ toks[x].revoked => tokens'[x].revoked
      BY <3>1, <3>6, RevokedRows, SMTT(30)
    <3>8. RowsKept /\ tokens'[n].row.lineage = next.lineage
      BY <3>6, <3>7, SMTT(30) DEF RowsKept
    <3> QED BY <3>3, <3>6, <3>7, <3>8, GrowingStep
  <2>5. CASE RefuseReissue(fk, n, next, t)
    BY <1>1, <2>5 DEF RefuseReissue
  <2> QED BY <2>2, <2>4, <2>5 DEF Reissue
<1>6. CASE \E tn \in Tenant : Revocation(tn)
  <2>1. PICK S : tokens' = RevokeRows(tokens, S)
    BY <1>6 DEF Revocation, RevokeFamily, RevokeForSubject, RevokeFamilies
  <2> QED BY <1>a, <2>1
<1>7. CASE Reap \/ \E tn \in Tenant : Erasure(tn)
  <2>1. PICK D : tokens' = DropTokens(tokens, D)
    BY <1>7 DEF Erasure, DeleteForSubject, EraseTenant, EraseFamilies, Reap, ReapExpired
  <2> QED BY <2>1, ShrinkingStep DEF DropTokens, RowsKept
<1> QED
  BY <1>2, <1>3, <1>4, <1>5, <1>6, <1>7 DEF Next, Request

\* Once every family of a session lineage is revoked, reaped or erased, no
\* rotation or reissue brings it back.
THEOREM EndedLineagesStayEnded == Spec => LineageEndsForGood
<1>1. IInv /\ [Next]_vars => [StaysEnded]_vars
  BY NextStaysEnded
<1> QED
  BY <1>1, Inductive, PTL DEF Spec, LineageEndsForGood, StaysEnded

=============================================================================
