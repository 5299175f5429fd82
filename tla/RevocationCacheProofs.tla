------------------------ MODULE RevocationCacheProofs ------------------------
(***************************************************************************)
(* Proofs about RevocationCache, for every set of keys and goroutines and  *)
(* every PollBound, retention, page size and feed.                         *)
(*                                                                         *)
(* The argument: the poll that made the cache fresh had read every change  *)
(* older than its own beginning (PageComplete, MarkVouches, PollVouches),  *)
(* and a value is cached only while every change it misses is still ahead  *)
(* of the cursor (FillsCurrent, NoLostChange).  So a trusted entry misses  *)
(* only changes made since lastPoll, less than PollBound ago.              *)
(***************************************************************************)
EXTENDS RevocationCache, TLAPS

\* Zenon proves the steps that name no prover; the SMT solver those with arithmetic.
USE Zenon

\* What the parts of a Void reader are: only current changes.
LEMMA VoidFacts ==
    ASSUME TypeOK
    PROVE  /\ Void \in [Reader -> Call]
           /\ \A r \in Reader :
                 /\ Void[r].pc = reader[r].pc /\ Void[r].key = reader[r].key
                 /\ Void[r].sealed = reader[r].sealed /\ Void[r].again = reader[r].again
                 /\ Void[r].val = reader[r].val /\ Void[r].at = reader[r].at
                 /\ Void[r].current = FALSE
<1>1. \A r \in Reader : reader[r] \in Call
  BY DEF TypeOK
<1>2. \A r \in Reader : [reader[r] EXCEPT !.current = FALSE] \in Call
  BY <1>1 DEF Call
<1> QED
  BY <1>1, <1>2 DEF Void, Call

\* The arithmetic the steps below need.
LEMMA TypeFacts ==
    ASSUME TypeOK
    PROVE  /\ now \in Nat /\ lastPoll \in Nat /\ PollBound \in Nat /\ Retention \in Nat
           /\ Len(log) \in Nat
           /\ \A p \in 1 .. Len(log) : log[p].key \in Key /\ log[p].at \in Nat
           /\ \A k \in Key : val[k] \in 0 .. Len(log) /\ own[k] \in 0 .. Len(log)
           /\ \A k \in DOMAIN entries : k \in Key /\ entries[k] \in 0 .. Len(log)
           /\ cursor \in 0 .. Len(log) /\ pruned \in 0 .. Len(log)
           /\ poll.began \in Nat /\ poll.next \in 0 .. Len(log)
           /\ \A r \in Reader :
                 /\ reader[r].key \in Key /\ reader[r].at \in Nat
                 /\ reader[r].val \in 0 .. Len(log) /\ reader[r].sealed \in 0 .. Len(log)
<1>1. log \in Seq(Logged) /\ MaxTime \in Nat
  BY BoundsAssumption DEF TypeOK
<1>2. Len(log) \in Nat /\ \A p \in 1 .. Len(log) : log[p] \in Logged
  BY <1>1, SMTT(30)
<1>3. \A p \in 1 .. Len(log) : log[p].key \in Key /\ log[p].at \in Nat
  BY <1>1, <1>2, SMTT(30) DEF Logged
<1>4. now \in Nat /\ lastPoll \in Nat /\ PollBound \in Nat /\ Retention \in Nat
  BY BoundsAssumption, SMTT(30) DEF TypeOK
<1>5. /\ \A k \in Key : val[k] \in 0 .. Len(log) /\ own[k] \in 0 .. Len(log)
      /\ \A k \in DOMAIN entries : k \in Key /\ entries[k] \in 0 .. Len(log)
      /\ cursor \in 0 .. Len(log) /\ pruned \in 0 .. Len(log)
  BY DEF TypeOK, Position
<1>6. poll.began \in Nat /\ poll.next \in 0 .. Len(log)
  BY DEF TypeOK, Position, Polling
<1>7. \A r \in Reader :
         /\ reader[r].key \in Key /\ reader[r].at \in Nat
         /\ reader[r].val \in 0 .. Len(log) /\ reader[r].sealed \in 0 .. Len(log)
  BY DEF TypeOK, Position, Call
<1> QED
  BY <1>2, <1>3, <1>4, <1>5, <1>6, <1>7

\* The part of it that the steps of a call use.
LEMMA CallFacts ==
    ASSUME TypeOK
    PROVE  /\ now \in Nat /\ now <= now /\ 0 <= now
           /\ cursor \in Position /\ 0 \in Position
           /\ \A r \in Reader : /\ reader[r] \in Call
                              /\ reader[r].key \in Key
                              /\ val[reader[r].key] \in Position
                              /\ 0 <= val[reader[r].key]
           /\ \A k \in DOMAIN entries : entries[k] \in Position
<1>1. now \in Nat /\ now <= now /\ 0 <= now
  <2>1. now \in Nat
    BY TypeFacts
  <2> QED BY <2>1, SMTT(30)
<1>2. Len(log) \in Nat /\ 0 \in Position
  <2>1. Len(log) \in Nat
    BY TypeFacts
  <2> QED BY <2>1, SMTT(30) DEF Position
<1>3. \A r \in Reader : reader[r] \in Call /\ reader[r].key \in Key
  <2>1. \A r \in Reader : reader[r].key \in Key
    BY TypeFacts
  <2> QED BY <2>1 DEF TypeOK
<1>4. \A k \in Key : val[k] \in Position
  BY DEF TypeOK
<1>5. \A p \in Position : 0 <= p
  BY <1>2, SMTT(30) DEF Position
<1>6. cursor \in Position /\ \A k \in DOMAIN entries : entries[k] \in Position
  BY DEF TypeOK
<1> QED
  BY <1>1, <1>2, <1>3, <1>4, <1>5, <1>6

\* A step that only moves the clock forward.
LEMMA TickStep ==
    ASSUME IInv, Tick
    PROVE  IInv'
<1>1. now' = now + 1 /\ now \in 1 .. MaxTime /\ now' \in 1 .. MaxTime
  BY BoundsAssumption, SMTT(30) DEF IInv, TypeOK, Tick
<1>2. UNCHANGED <<log, val, gone, pruned, cursor, lastPoll, entries, poll, reader, lapsed, own>>
  BY DEF Tick
<1>3. TypeOK'
  BY <1>1, <1>2 DEF IInv, TypeOK, Position, Polling, Call
<1>4. Fresh' => Fresh
  BY <1>1, <1>2, TypeFacts, SMTT(30) DEF Fresh, IInv
<1>5. PollVouches'
  BY <1>2, <1>4 DEF IInv, PollVouches, ReadUpTo
<1>6. InOrder'
  <2>1. pruned # 0 => pruned \in 1 .. Len(log)
    BY TypeFacts, SMTT(30) DEF IInv
  <2>2. InOrder /\ TypeOK
    BY DEF IInv
  <2>3. now' >= now /\ now' \in Nat /\ now \in Nat
    BY <1>1, <2>2, TypeFacts, SMTT(30)
  <2>4. /\ \A p \in 1 .. Len(log) : log[p].at <= now'
        /\ \A r \in Reader : reader[r].at <= now'
    BY <2>2, <2>3, TypeFacts, SMTT(30) DEF InOrder
  <2>5. lastPoll <= now' /\ poll.began <= now'
    BY <2>2, <2>3, TypeFacts, SMTT(30) DEF InOrder
  <2>6. pruned # 0 => now' - log[pruned].at >= Retention
    BY <2>1, <2>2, <2>3, TypeFacts, SMTT(30) DEF InOrder
  <2> QED BY <1>2, <2>2, <2>4, <2>5, <2>6 DEF InOrder
<1>7. ValExact' /\ PageComplete' /\ MarkVouches' /\ LapsedBehind' /\ OwnBehind'
  BY <1>2 DEF IInv, ValExact, Superseding, PageComplete, MarkVouches, ReadUpTo, LapsedBehind, OwnBehind
<1>8. FillsCurrent' /\ RecheckClean'
  BY <1>2 DEF IInv, FillsCurrent, InFlight, Superseding, RecheckClean
<1>9. BoundedStaleness' /\ NoLostChange' /\ OwnWritesSeen' /\ SealedEpochKnown'
  BY <1>2 DEF IInv, BoundedStaleness, Answered, Superseding, NoLostChange, OwnWritesSeen, SealedEpochKnown
<1> QED
  BY <1>3, <1>5, <1>6, <1>7, <1>8, <1>9 DEF IInv

\* A change of k, with its feed entry.
LEMMA AppendStep ==
    ASSUME IInv, NEW k \in Key,
           log' = Append(log, [key |-> k, at |-> now]),
           val' = [val EXCEPT ![k] = Len(log) + 1],
           gone' \in [Key -> 0 .. MaxTime],
           UNCHANGED <<now, pruned, cursor, lastPoll, entries, poll, reader, lapsed, own>>
    PROVE  IInv'
<1> DEFINE new == Len(log) + 1
<1>1. TypeOK
  BY DEF IInv
<1>2. /\ Len(log) \in Nat /\ Len(log') = new
      /\ \A p \in 1 .. Len(log) : log'[p] = log[p]
      /\ log'[new].key = k /\ log'[new].at = now
      /\ log' \in Seq(Logged)
  <2>1. log \in Seq(Logged) /\ [key |-> k, at |-> now] \in Logged
    BY <1>1 DEF TypeOK, Logged
  <2> QED BY <2>1, SMTT(30)
<1> HIDE DEF new
<1>3. new \in Nat /\ new = Len(log) + 1 /\ \A p \in 1 .. new : p = new \/ p \in 1 .. Len(log)
  BY <1>2, SMTT(30) DEF new
<1>4. val'[k] = new /\ \A x \in Key : x # k => val'[x] = val[x]
  BY <1>1 DEF TypeOK, new
<1>5. TypeOK'
  <2>1. \A x : x \in Position => x \in Position'
    BY <1>2, <1>3, SMTT(30) DEF Position
  <2>2. val' \in [Key -> Position']
    BY <1>1, <1>2, <1>3, <2>1, SMTT(30) DEF TypeOK, Position, new
  <2>3. own' \in [Key -> Position'] /\ lapsed' \subseteq Position'
    BY <1>1, <2>1 DEF TypeOK
  <2>4. pruned' \in Position' /\ cursor' \in Position' /\ entries' \in [DOMAIN entries' -> Position']
    BY <1>1, <2>1 DEF TypeOK
  <2>5. poll' \in Polling'
    BY <1>1, <2>1 DEF TypeOK, Polling
  <2>6. reader' \in [Reader -> Call']
    BY <1>1, <2>1 DEF TypeOK, Call
  <2> QED BY <1>1, <1>2, <2>2, <2>3, <2>4, <2>5, <2>6 DEF TypeOK
<1>6. ValExact'
  <2> SUFFICES ASSUME NEW x \in Key, NEW p \in 1 .. new, p > val'[x], log'[p].key = x
               PROVE  FALSE
    BY <1>2 DEF ValExact, Superseding
  <2>1. CASE x = k
    BY <1>3, <1>4, <2>1, SMTT(30)
  <2>2. CASE x # k
    <3>1. p \in 1 .. Len(log) /\ p > val[x] /\ log[p].key = x
      BY <1>2, <1>3, <1>4, <2>2
    <3> QED BY <3>1 DEF IInv, ValExact, Superseding
  <2> QED BY <2>1, <2>2
<1>7. InOrder'
  <2>1. pruned # 0 => pruned \in 1 .. Len(log)
    BY <1>1, TypeFacts, SMTT(30)
  <2>2. InOrder /\ now \in Nat
    BY <1>1, TypeFacts DEF IInv
  <2> QED BY <1>2, <1>3, <2>1, <2>2, SMTT(30) DEF InOrder
<1>8. ASSUME NEW c \in Nat, NEW t \in Nat, t <= now, ReadUpTo(c, t)
      PROVE  \A p \in (1 .. new) \ lapsed : log'[p].at < t => p <= c
  BY <1>1, <1>2, <1>3, <1>8, TypeFacts, SMTT(30) DEF ReadUpTo
<1>9. PollVouches'
  <2> SUFFICES ASSUME Fresh
               PROVE  \A p \in (1 .. new) \ lapsed : log'[p].at < lastPoll => p <= cursor
    BY <1>2 DEF PollVouches, ReadUpTo, Fresh
  <2>1. ReadUpTo(cursor, lastPoll) /\ lastPoll <= now /\ lastPoll \in Nat /\ cursor \in 0 .. Len(log)
    BY <1>1, TypeFacts DEF IInv, PollVouches, InOrder
  <2>2. cursor \in Nat
    BY <1>2, <2>1, SMTT(30)
  <2> QED BY <1>8, <2>1, <2>2
<1>10. MarkVouches'
  <2> SUFFICES ASSUME poll.pc = "mark"
               PROVE  \A p \in (1 .. new) \ lapsed : log'[p].at < poll.began => p <= cursor
    BY <1>2 DEF MarkVouches, ReadUpTo
  <2>1. ReadUpTo(cursor, poll.began) /\ poll.began <= now /\ poll.began \in Nat /\ cursor \in 0 .. Len(log)
    BY <1>1, TypeFacts DEF IInv, MarkVouches, InOrder
  <2>2. cursor \in Nat
    BY <1>2, <2>1, SMTT(30)
  <2> QED BY <1>8, <2>1, <2>2
<1>11. PageComplete'
  <2> SUFFICES ASSUME poll.pc = "apply"
               PROVE  /\ poll.next >= cursor
                      /\ \A p \in (1 .. new) \ lapsed :
                            p > cursor /\ p <= poll.next => log'[p].key \in poll.page
                      /\ poll.page = {} \/ poll.next = cursor =>
                            \A p \in (1 .. new) \ lapsed : log'[p].at < poll.began => p <= poll.next
    BY <1>2 DEF PageComplete, ReadUpTo
  <2>1. poll.page = {} \/ poll.next = cursor => ReadUpTo(poll.next, poll.began)
    BY DEF IInv, PageComplete
  <2>2. poll.next \in 0 .. Len(log) /\ poll.began \in Nat /\ poll.began <= now
    BY <1>1, TypeFacts DEF IInv, InOrder
  <2>3. poll.page = {} \/ poll.next = cursor =>
           \A p \in (1 .. new) \ lapsed : log'[p].at < poll.began => p <= poll.next
    <3>1. poll.next \in Nat
      BY <2>2, SMTT(30)
    <3>2. ReadUpTo(poll.next, poll.began) =>
             \A p \in (1 .. new) \ lapsed : log'[p].at < poll.began => p <= poll.next
      BY <1>8, <2>2, <3>1
    <3> QED BY <2>1, <3>2
  <2>4. \A p \in (1 .. new) \ lapsed : p > cursor /\ p <= poll.next => log'[p].key \in poll.page
    BY <1>2, <1>3, <2>2, SMTT(30) DEF IInv, PageComplete
  <2> QED BY <2>3, <2>4 DEF IInv, PageComplete
<1>12. LapsedBehind'
  BY DEF IInv, LapsedBehind
<1>13. FillsCurrent' /\ NoLostChange'
  BY <1>1, <1>2, <1>3, TypeFacts, SMTT(40) DEF IInv, FillsCurrent, NoLostChange, InFlight, Superseding
<1>14. OwnBehind'
  BY <1>1, <1>3, <1>4, TypeFacts, SMTT(40) DEF IInv, OwnBehind
<1>15. RecheckClean'
  <2>1. \A x \in Key : val'[x] >= val[x]
    <3>1. \A x \in Key : val[x] \in 0 .. Len(log)
      BY <1>1, TypeFacts
    <3> QED BY <1>2, <1>3, <1>4, <3>1, SMTT(30)
  <2>2. \A r \in Reader : reader[r].sealed <= val'[reader[r].key]
    <3> SUFFICES ASSUME NEW r \in Reader
                 PROVE  reader[r].sealed <= val'[reader[r].key]
      BY SMTT(30)
    <3>1. reader[r].sealed <= val[reader[r].key] /\ reader[r].key \in Key
      BY <1>1, TypeFacts DEF IInv, RecheckClean
    <3>2. val'[reader[r].key] \in Int /\ val[reader[r].key] \in Int /\ reader[r].sealed \in Int
      <4>1. val[reader[r].key] \in 0 .. Len(log) /\ reader[r].sealed \in 0 .. Len(log)
        BY <1>1, <3>1, TypeFacts
      <4>2. val'[reader[r].key] \in {new, val[reader[r].key]}
        BY <1>4, <3>1
      <4> QED BY <1>2, <1>3, <4>1, <4>2, SMTT(30)
    <3> QED BY <2>1, <3>1, <3>2, SMTT(30)
  <2> QED BY <2>2 DEF IInv, RecheckClean, InFlight
<1>16. BoundedStaleness'
  <2> SUFFICES ASSUME NEW r \in Reader, Answered(r), NEW p \in (1 .. new) \ lapsed,
                      p > reader[r].val, log'[p].key = reader[r].key
               PROVE  reader[r].at - log'[p].at < PollBound
    BY <1>2 DEF BoundedStaleness, Superseding, Answered
  <2>1. CASE p = new
    <3>1. reader[r].at \in Nat /\ now \in Nat /\ reader[r].at <= now
      BY <1>1, TypeFacts DEF IInv, InOrder
    <3>2. log'[p].at = now
      BY <1>2, <2>1
    <3>3. reader[r].at - now < PollBound
      BY <3>1, BoundsAssumption, SMTT(30)
    <3> QED BY <3>2, <3>3
  <2>2. CASE p \in 1 .. Len(log)
    <3>1. log'[p] = log[p]
      BY <1>2, <2>2
    <3>2. p \in Superseding(reader[r].key, reader[r].val) \ lapsed
      BY <2>2, <3>1 DEF Superseding
    <3>3. BoundedStaleness
      BY DEF IInv
    <3> QED BY <3>1, <3>2, <3>3 DEF BoundedStaleness
  <2> QED BY <1>3, <2>1, <2>2
<1>17. OwnWritesSeen' /\ SealedEpochKnown'
  BY DEF IInv, OwnWritesSeen, SealedEpochKnown, Answered
<1> QED
  BY <1>5, <1>6, <1>7, <1>9, <1>10, <1>11, <1>12, <1>13, <1>14, <1>15, <1>16, <1>17 DEF IInv

\* The erasure of a key that the feed does not announce, and pruning.
LEMMA QuietStoreStep ==
    ASSUME IInv, \/ \E k \in Key : EraseSilently(k)
                 \/ Prune
    PROVE  IInv'
<1>1. TypeOK
  BY DEF IInv
<1>2. UNCHANGED <<now, log, val, cursor, lastPoll, entries, poll, reader, lapsed, own>>
  BY DEF EraseSilently, Prune
<1>3. /\ gone' \in [Key -> 0 .. MaxTime]
      /\ pruned' \in 0 .. Len(log) /\ pruned' >= pruned
      /\ pruned' # 0 => now - log[pruned'].at >= Retention
  <2>1. CASE \E k \in Key : EraseSilently(k)
    BY <1>1, <2>1, TypeFacts, SMTT(30) DEF EraseSilently, TypeOK, IInv, InOrder
  <2>2. CASE Prune
    BY <1>1, <2>2, TypeFacts, SMTT(30) DEF Prune, Prunable, TypeOK
  <2> QED BY <2>1, <2>2
<1>4. TypeOK'
  BY <1>1, <1>2, <1>3 DEF TypeOK, Position, Polling, Call
<1>5. InOrder'
  BY <1>2, <1>3 DEF IInv, InOrder
<1>6. LapsedBehind'
  <2>1. lapsed' \subseteq 1 .. pruned'
    BY <1>1, <1>2, <1>3, TypeFacts, SMTT(30) DEF IInv, LapsedBehind
  <2> QED BY <1>2, <2>1 DEF IInv, LapsedBehind
<1>7. ValExact' /\ PollVouches' /\ PageComplete' /\ MarkVouches' /\ OwnBehind'
  BY <1>2 DEF IInv, ValExact, Superseding, PollVouches, Fresh, PageComplete, MarkVouches, ReadUpTo, OwnBehind
<1>8. FillsCurrent' /\ RecheckClean'
  BY <1>2 DEF IInv, FillsCurrent, InFlight, Superseding, RecheckClean
<1>9. BoundedStaleness' /\ NoLostChange' /\ OwnWritesSeen' /\ SealedEpochKnown'
  BY <1>2 DEF IInv, BoundedStaleness, Answered, Superseding, NoLostChange, OwnWritesSeen, SealedEpochKnown
<1> QED
  BY <1>4, <1>5, <1>6, <1>7, <1>8, <1>9 DEF IInv

\* A poll that begins, fails, or ends and marks the cache fresh.
LEMMA PollEdgeStep ==
    ASSUME IInv, PollBegin \/ PollFail \/ PollMark
    PROVE  IInv'
<1>1. TypeOK
  BY DEF IInv
<1>2. UNCHANGED <<now, log, val, gone, pruned, cursor, entries, reader, lapsed, own>>
  BY DEF PollBegin, PollFail, PollMark, store
<1>3. /\ poll' \in [pc : {"idle", "read"}, began : Nat, page : SUBSET Key,
                    next : Position, reset : BOOLEAN, pages : Nat]
      /\ poll'.began <= now
      /\ poll'.pc # "idle" => poll'.began # 0
  <2>1. 0 \in Position /\ now \in Nat /\ now # 0
    BY <1>1, TypeFacts, SMTT(30) DEF Position, TypeOK
  <2>2. CASE PollBegin
    <3>1. poll' = [pc |-> "read", began |-> now, page |-> {}, next |-> 0, reset |-> FALSE, pages |-> 0]
      BY <2>2 DEF PollBegin, Idle
    <3> QED BY <2>1, <3>1, SMTT(30)
  <2>3. CASE PollFail \/ PollMark
    <3>1. poll' = [pc |-> "idle", began |-> 0, page |-> {}, next |-> 0, reset |-> FALSE, pages |-> 0]
      BY <2>3 DEF PollFail, PollMark, Idle
    <3> QED BY <2>1, <3>1, SMTT(30)
  <2> QED BY <2>2, <2>3
<1>4. /\ lastPoll' \in 0 .. MaxTime /\ lastPoll' <= now
      /\ lastPoll' = lastPoll \/ ReadUpTo(cursor, lastPoll')
  <2>1. CASE PollMark
    BY <1>1, <2>1, TypeFacts, BoundsAssumption, SMTT(30) DEF PollMark, IInv, MarkVouches, InOrder, TypeOK
  <2>2. CASE PollBegin \/ PollFail
    BY <1>1, <2>2 DEF PollBegin, PollFail, IInv, InOrder, TypeOK
  <2> QED BY <2>1, <2>2
<1>5. poll' \in Polling /\ poll'.pc # "apply" /\ poll'.pc # "mark"
  BY <1>3 DEF Polling
<1>6. TypeOK'
  BY <1>1, <1>2, <1>4, <1>5 DEF TypeOK, Position, Polling, Call
<1>7. InOrder'
  BY <1>2, <1>3, <1>4 DEF IInv, InOrder
<1>8. PollVouches'
  <2>1. CASE lastPoll' = lastPoll
    BY <1>2, <2>1 DEF IInv, PollVouches, Fresh, ReadUpTo
  <2>2. CASE ReadUpTo(cursor, lastPoll')
    BY <1>2, <2>2 DEF PollVouches, ReadUpTo
  <2> QED BY <1>4, <2>1, <2>2
<1>9. PageComplete' /\ MarkVouches' /\ LapsedBehind'
  BY <1>2, <1>5 DEF IInv, PageComplete, MarkVouches, LapsedBehind
<1>10. ValExact' /\ OwnBehind' /\ FillsCurrent' /\ RecheckClean'
  BY <1>2 DEF IInv, ValExact, OwnBehind, FillsCurrent, InFlight, Superseding, RecheckClean
<1>11. BoundedStaleness' /\ NoLostChange' /\ OwnWritesSeen' /\ SealedEpochKnown'
  BY <1>2 DEF IInv, BoundedStaleness, Answered, Superseding, NoLostChange, OwnWritesSeen, SealedEpochKnown
<1> QED
  BY <1>6, <1>7, <1>8, <1>9, <1>10, <1>11 DEF IInv

\* The page of a poll: where it starts and ends.
LEMMA PageFacts ==
    ASSUME TypeOK
    PROVE  /\ PageStart \in 0 .. Len(log) /\ PageEnd \in 0 .. Len(log)
           /\ PageStart >= cursor /\ PageStart >= pruned /\ PageEnd >= cursor
           /\ PageEnd = cursor \/ PageEnd > PageStart
           /\ PageEnd = cursor => PageStart = Len(log)
<1>1. cursor \in 0 .. Len(log) /\ pruned \in 0 .. Len(log) /\ Len(log) \in Nat /\ Page \in Nat \ {0}
  BY TypeFacts, CacheAssumption
<1>2. /\ PageStart \in 0 .. Len(log) /\ PageStart >= cursor /\ PageStart >= pruned
  BY <1>1, SMTT(30) DEF PageStart
<1>3. CASE PageStart = Len(log)
  BY <1>1, <1>2, <1>3, SMTT(30) DEF PageEnd
<1>4. CASE PageStart # Len(log) /\ PageStart + Page <= Len(log)
  BY <1>1, <1>2, <1>4, SMTT(30) DEF PageEnd
<1>5. CASE PageStart # Len(log) /\ ~(PageStart + Page <= Len(log))
  BY <1>1, <1>2, <1>5, SMTT(30) DEF PageEnd
<1> QED
  BY <1>3, <1>4, <1>5

\* The feed answers with a page.
LEMMA PollReadStep ==
    ASSUME IInv, PollRead
    PROVE  IInv'
<1> DEFINE page == {log[p].key : p \in PageStart + 1 .. PageEnd}
<1>1. TypeOK
  BY DEF IInv
<1>2. UNCHANGED <<now, log, val, gone, pruned, cursor, lastPoll, entries, reader, own>>
  BY DEF PollRead, store
<1>3. /\ poll.pc = "read" /\ ~Gap
      /\ poll'.pc = "apply" /\ poll'.page = page /\ poll'.next = PageEnd
      /\ poll'.began = poll.began
      /\ poll' \in Polling
  <2>1. /\ poll' = [poll EXCEPT !.pc = "apply", !.page = page, !.next = PageEnd, !.pages = poll.pages + 1]
        /\ poll.pc = "read" /\ ~Gap
    BY DEF PollRead
  <2>2. page \in SUBSET Key /\ PageEnd \in Position
    BY <1>1, TypeFacts, PageFacts, SMTT(40) DEF Position
  <2>3. poll \in Polling
    BY <1>1 DEF TypeOK
  <2>4. poll.pages + 1 \in Nat
    BY <2>3, SMTT(30) DEF Polling
  <2> HIDE DEF page
  <2>5. /\ poll'.pc = "apply" /\ poll'.page = page /\ poll'.next = PageEnd
        /\ poll'.began = poll.began
    BY <2>1, <2>3 DEF Polling
  <2>6. poll' \in Polling
    BY <2>1, <2>2, <2>3, <2>4 DEF Polling
  <2> QED BY <2>1, <2>5, <2>6
<1>4. lapsed' = lapsed \cup (cursor + 1 .. pruned)
  BY DEF PollRead
<1>5. /\ lapsed \subseteq lapsed' /\ lapsed' \subseteq 1 .. pruned
      /\ lapsed' \subseteq Position
  <2>1. cursor \in Nat /\ pruned \in 0 .. Len(log) /\ Len(log) \in Nat
    BY <1>1, TypeFacts, SMTT(30)
  <2>2. lapsed \subseteq 1 .. pruned
    BY DEF IInv, LapsedBehind
  <2>3. cursor + 1 .. pruned \subseteq 1 .. pruned
    BY <2>1, SMTT(30)
  <2>4. 1 .. pruned \subseteq Position
    BY <2>1, SMTT(30) DEF Position
  <2> QED BY <1>4, <2>2, <2>3, <2>4
<1>6. TypeOK'
  BY <1>1, <1>2, <1>3, <1>5 DEF TypeOK, Position, Polling, Call
<1>7. InOrder'
  BY <1>1, <1>2, <1>3, TypeFacts DEF IInv, InOrder
<1>8. PollVouches' /\ MarkVouches'
  BY <1>2, <1>3, <1>5 DEF IInv, PollVouches, MarkVouches, ReadUpTo, Fresh
<1>9. PageComplete'
  <2>1. PageEnd >= cursor
    BY <1>1, PageFacts
  <2>2. ASSUME NEW p \in (1 .. Len(log)) \ lapsed', p > cursor, p <= PageEnd
        PROVE  log[p].key \in page
    <3>1. p > pruned
      BY <1>1, <1>4, <2>2, TypeFacts, SMTT(30)
    <3>2. p > PageStart
      BY <1>1, <2>2, <3>1, TypeFacts DEF PageStart
    <3> QED BY <1>1, <2>2, <3>2, PageFacts, SMTT(30)
  <2>3. ASSUME page = {} \/ PageEnd = cursor, NEW p \in (1 .. Len(log)) \ lapsed'
        PROVE  p <= PageEnd
    <3>1. PageEnd = cursor /\ PageStart = Len(log)
      <4>1. PageEnd > PageStart => PageEnd \in PageStart + 1 .. PageEnd
        BY <1>1, PageFacts, SMTT(30)
      <4>2. page = {} => ~(PageEnd > PageStart)
        BY <4>1
      <4> QED BY <1>1, <2>3, <4>2, PageFacts
    <3>2. ~(p > cursor /\ p <= pruned)
      BY <1>1, <1>4, <2>3, TypeFacts, SMTT(30)
    <3> QED BY <1>1, <3>1, <3>2, TypeFacts, SMTT(30) DEF PageStart
  <2> HIDE DEF page
  <2> QED BY <1>2, <1>3, <2>1, <2>2, <2>3 DEF PageComplete, ReadUpTo
<1>10. LapsedBehind'
  <2>1. ASSUME DetectsGap, cursor # 0
        PROVE  \A p \in lapsed' : p <= cursor /\ p <= PageEnd
    <3>1. cursor >= pruned
      BY <1>1, <1>3, <2>1, TypeFacts, SMTT(30) DEF Gap
    <3> QED BY <1>1, <1>5, <3>1, TypeFacts, PageFacts, SMTT(30)
  <2>2. ASSUME cursor = 0, PageEnd # 0
        PROVE  \A p \in lapsed' : p <= PageEnd
    BY <1>1, <1>5, <2>2, TypeFacts, PageFacts, SMTT(40)
  <2> QED BY <1>2, <1>3, <1>5, <2>1, <2>2 DEF LapsedBehind
<1>11. ValExact' /\ OwnBehind' /\ FillsCurrent' /\ RecheckClean'
  BY <1>2, <1>5 DEF IInv, ValExact, OwnBehind, FillsCurrent, InFlight, Superseding, RecheckClean
<1>12. BoundedStaleness' /\ NoLostChange' /\ OwnWritesSeen' /\ SealedEpochKnown'
  BY <1>2, <1>5 DEF IInv, BoundedStaleness, Answered, Superseding, NoLostChange, OwnWritesSeen, SealedEpochKnown
<1> QED
  BY <1>6, <1>7, <1>8, <1>9, <1>10, <1>11, <1>12 DEF IInv

\* Calls whose lookups became void keep what they were answered.
LEMMA VoidedCalls ==
    ASSUME IInv, reader' = Void, UNCHANGED <<now, log, val>>,
           lapsed' = lapsed,
           \A k \in DOMAIN entries' : k \in DOMAIN entries /\ entries'[k] = entries[k]
    PROVE  /\ reader' \in [Reader -> Call]'
           /\ FillsCurrent' /\ RecheckClean' /\ BoundedStaleness' /\ SealedEpochKnown'
           /\ \A r \in Reader : reader'[r].at <= now
<1>1. TypeOK
  BY DEF IInv
<1>2. /\ reader' \in [Reader -> Call]
      /\ \A r \in Reader :
            /\ reader'[r].pc = reader[r].pc /\ reader'[r].key = reader[r].key
            /\ reader'[r].sealed = reader[r].sealed /\ reader'[r].again = reader[r].again
            /\ reader'[r].val = reader[r].val /\ reader'[r].at = reader[r].at
            /\ reader'[r].current = FALSE
  BY <1>1, VoidFacts
<1>3. reader' \in [Reader -> Call]'
  BY <1>2 DEF Call, Position
<1>4. FillsCurrent'
  BY <1>2 DEF FillsCurrent, InFlight
<1>5. RecheckClean'
  BY <1>2, SMTT(30) DEF IInv, RecheckClean, InFlight
<1>6. BoundedStaleness'
  BY <1>2, SMTT(30) DEF IInv, BoundedStaleness, Answered, Superseding
<1>7. SealedEpochKnown'
  BY <1>2 DEF IInv, SealedEpochKnown, Answered
<1>8. \A r \in Reader : reader'[r].at <= now
  BY <1>2 DEF IInv, InOrder
<1> QED
  BY <1>3, <1>4, <1>5, <1>6, <1>7, <1>8

\* What the next page of a poll looks like.
LEMMA NextPageFacts ==
    ASSUME NEW p \in Polling
    PROVE  /\ NextPage(p) \in Polling
           /\ NextPage(p).pc \in {"idle", "read"}
           /\ NextPage(p).began = 0 \/ NextPage(p).began = p.began
           /\ NextPage(p).pc # "idle" => NextPage(p).began = p.began
<1>1. 0 \in Position
  BY SMTT(30) DEF Polling, Position
<1>2. CASE p.pages = MaxPages
  BY <1>1, <1>2 DEF NextPage, Idle, Polling
<1>3. CASE p.pages # MaxPages
  BY <1>3 DEF NextPage, Polling
<1> QED
  BY <1>2, <1>3

\* The feed reports a gap and the cache starts over.
LEMMA PollResetStep ==
    ASSUME IInv, PollReset
    PROVE  IInv'
<1>1. TypeOK
  BY DEF IInv
<1>2. /\ UNCHANGED <<now, log, val, gone, pruned, lastPoll, lapsed, own>>
      /\ reader' = Void
      /\ cursor' = 0
      /\ DOMAIN entries' = {}
      /\ poll.pc = "read" /\ Gap
  BY DEF PollReset, store, Without
<1>3. poll' \in Polling /\ poll'.pc \in {"idle", "read"} /\ poll'.began <= now
      /\ (poll'.pc # "idle" => poll'.began # 0)
  <2> DEFINE q == [poll EXCEPT !.reset = TRUE, !.pages = poll.pages + 1]
  <2>1. poll \in Polling
    BY <1>1 DEF TypeOK
  <2>2. q \in Polling /\ q.began = poll.began
    <3>1. poll.pages + 1 \in Nat
      BY <2>1, SMTT(30) DEF Polling
    <3>2. q \in Polling
      BY <2>1, <3>1 DEF Polling
    <3>3. q.began = poll.began
      BY <2>1 DEF Polling
    <3> QED BY <3>2, <3>3
  <2>3. poll' = NextPage(q)
    BY DEF PollReset
  <2> HIDE DEF q
  <2>4. poll.began <= now /\ poll.began # 0 /\ 0 <= now
    BY <1>1, <1>2, TypeFacts, SMTT(30) DEF IInv, InOrder
  <2> QED BY <2>2, <2>3, <2>4, NextPageFacts
<1>4. ~Fresh
  <2> SUFFICES ASSUME Fresh
               PROVE  FALSE
    BY SMTT(30)
  <2>1. pruned \in 1 .. Len(log) /\ pruned > cursor /\ cursor # 0 /\ DetectsGap
    BY <1>1, <1>2, TypeFacts, SMTT(30) DEF Gap
  <2>2. pruned \notin lapsed
    BY <1>1, <2>1, TypeFacts, SMTT(30) DEF IInv, LapsedBehind
  <2>3. ~(log[pruned].at < lastPoll)
    BY <1>1, <2>1, <2>2, TypeFacts, SMTT(30) DEF IInv, PollVouches, ReadUpTo
  <2>4. now - log[pruned].at >= Retention
    BY <2>1, SMTT(30) DEF IInv, InOrder
  <2>5. /\ now \in Nat /\ lastPoll \in Nat /\ PollBound \in Nat /\ Retention \in Nat
        /\ log[pruned].at \in Nat
    BY <1>1, <2>1, TypeFacts
  <2>6. now - lastPoll < PollBound /\ PollBound <= Retention
    BY BoundsAssumption DEF Fresh
  <2> QED BY <2>3, <2>4, <2>5, <2>6, SMTT(30)
<1>5. /\ reader' \in [Reader -> Call]'
      /\ FillsCurrent' /\ RecheckClean' /\ BoundedStaleness' /\ SealedEpochKnown'
      /\ \A r \in Reader : reader'[r].at <= now
  BY <1>2, VoidedCalls
<1>6. TypeOK'
  <2>1. 0 \in Position /\ Position' = Position /\ Polling' = Polling
    BY <1>1, <1>2, TypeFacts, SMTT(30) DEF Position, Polling
  <2>2. entries' \in [DOMAIN entries' -> Position']
    BY <1>2 DEF PollReset, Without
  <2> QED BY <1>1, <1>2, <1>3, <1>5, <2>1, <2>2 DEF TypeOK
<1>7. InOrder'
  BY <1>2, <1>3, <1>5 DEF IInv, InOrder
<1>8. PollVouches' /\ PageComplete' /\ MarkVouches'
  BY <1>2, <1>3, <1>4 DEF PollVouches, Fresh, PageComplete, MarkVouches
<1>9. LapsedBehind'
  BY <1>2, <1>3 DEF IInv, LapsedBehind
<1>10. ValExact' /\ OwnBehind' /\ NoLostChange' /\ OwnWritesSeen'
  BY <1>2 DEF IInv, ValExact, OwnBehind, Superseding, NoLostChange, OwnWritesSeen
<1> QED
  BY <1>5, <1>6, <1>7, <1>8, <1>9, <1>10 DEF IInv

\* What is left of the cache when some keys are dropped.
LEMMA WithoutFacts ==
    ASSUME TypeOK, NEW keys, entries' = Without(keys), log' = log
    PROVE  /\ \A k \in DOMAIN entries' : k \in DOMAIN entries /\ k \notin keys /\ entries'[k] = entries[k]
           /\ DOMAIN entries' \subseteq Key
           /\ entries' \in [DOMAIN entries' -> Position']
<1>1. /\ DOMAIN entries' = DOMAIN entries \ keys
      /\ \A k \in DOMAIN entries' : entries'[k] = entries[k]
      /\ entries' = [k \in DOMAIN entries' |-> entries[k]]
  BY DEF Without
<1>2. \A k \in DOMAIN entries : k \in Key /\ entries[k] \in Position
  BY DEF TypeOK
<1>3. entries' \in [DOMAIN entries' -> Position]
  BY <1>1, <1>2
<1>4. Position' = Position
  BY DEF Position
<1> QED
  BY <1>1, <1>2, <1>3, <1>4

\* A page is applied.
LEMMA PollApplyStep ==
    ASSUME IInv, PollApply
    PROVE  IInv'
<1>1. TypeOK
  BY DEF IInv
<1>2. /\ UNCHANGED <<now, log, val, gone, pruned, lastPoll, lapsed, own>>
      /\ reader' = Void
      /\ entries' = Without(poll.page)
      /\ cursor' = poll.next
      /\ poll.pc = "apply"
  BY DEF PollApply, store
<1>3. /\ \A k \in DOMAIN entries' : k \in DOMAIN entries /\ k \notin poll.page /\ entries'[k] = entries[k]
      /\ DOMAIN entries' \subseteq Key
      /\ entries' \in [DOMAIN entries' -> Position']
  BY <1>1, <1>2, WithoutFacts
<1>4. /\ poll' \in Polling /\ poll'.pc \in {"idle", "read", "mark"} /\ poll'.began <= now
      /\ poll'.pc # "idle" => poll'.began # 0
      /\ poll'.pc = "mark" =>
            poll'.began = poll.began /\ (poll.page = {} \/ poll.next = cursor)
  <2>1. poll \in Polling
    BY <1>1 DEF TypeOK
  <2>2. poll.began <= now /\ poll.began # 0 /\ 0 <= now
    BY <1>1, <1>2, TypeFacts, SMTT(30) DEF IInv, InOrder
  <2>3. CASE poll.page = {} \/ poll.next = cursor
    <3>1. poll' = [poll EXCEPT !.pc = "mark"]
      BY <2>3 DEF PollApply
    <3>2. poll' \in Polling /\ poll'.pc = "mark" /\ poll'.began = poll.began
      BY <2>1, <3>1 DEF Polling
    <3> QED BY <2>2, <2>3, <3>2
  <2>4. CASE ~(poll.page = {} \/ poll.next = cursor)
    <3>1. poll' = NextPage(poll)
      BY <2>4 DEF PollApply
    <3> QED BY <2>1, <2>2, <3>1, NextPageFacts
  <2> QED BY <2>3, <2>4
<1>5. /\ reader' \in [Reader -> Call]'
      /\ FillsCurrent' /\ RecheckClean' /\ BoundedStaleness' /\ SealedEpochKnown'
      /\ \A r \in Reader : reader'[r].at <= now
  BY <1>2, <1>3, VoidedCalls
<1>6. TypeOK'
  <2>1. poll.next \in Position /\ Position' = Position /\ Polling' = Polling
    BY <1>1, <1>2, TypeFacts DEF Position, Polling
  <2> QED BY <1>1, <1>2, <1>3, <1>4, <1>5, <2>1 DEF TypeOK
<1>7. InOrder'
  BY <1>2, <1>4, <1>5 DEF IInv, InOrder
<1>8. cursor' >= cursor /\ cursor' \in Nat /\ cursor \in Nat
  BY <1>1, <1>2, TypeFacts, SMTT(30) DEF IInv, PageComplete
<1>9. PollVouches'
  BY <1>2, <1>8, SMTT(30) DEF IInv, PollVouches, Fresh, ReadUpTo
<1>10. PageComplete' /\ MarkVouches'
  BY <1>2, <1>4 DEF IInv, PageComplete, MarkVouches, ReadUpTo
<1>11. LapsedBehind'
  BY <1>2, <1>4 DEF IInv, LapsedBehind
<1>12. NoLostChange'
  <2> SUFFICES ASSUME NEW k \in DOMAIN entries', NEW p \in Superseding(k, entries[k]) \ lapsed
               PROVE  p > poll.next
    BY <1>2, <1>3 DEF NoLostChange, Superseding
  <2>1. p > cursor /\ p \in 1 .. Len(log) /\ log[p].key = k
    BY <1>3 DEF IInv, NoLostChange, Superseding
  <2>2. p <= poll.next => log[p].key \in poll.page
    BY <1>2, <2>1 DEF IInv, PageComplete
  <2> QED BY <1>1, <1>3, <2>1, <2>2, TypeFacts, SMTT(30)
<1>13. ValExact' /\ OwnBehind' /\ OwnWritesSeen'
  BY <1>2, <1>3 DEF IInv, ValExact, OwnBehind, Superseding, OwnWritesSeen
<1> QED
  BY <1>5, <1>6, <1>7, <1>9, <1>10, <1>11, <1>12, <1>13 DEF IInv

-----------------------------------------------------------------------------

\* This process drops the entries of keys it wrote.
LEMMA ForgetStep ==
    ASSUME IInv, NEW keys \in SUBSET Key, Forget(keys)
    PROVE  IInv'
<1>1. TypeOK
  BY DEF IInv
<1>2. /\ UNCHANGED <<now, log, val, gone, pruned, cursor, lastPoll, poll, lapsed>>
      /\ reader' = Void
      /\ entries' = Without(keys)
      /\ own' = [k \in Key |-> IF k \in keys THEN val[k] ELSE own[k]]
  BY DEF Forget, store
<1>3. /\ \A k \in DOMAIN entries' : k \in DOMAIN entries /\ k \notin keys /\ entries'[k] = entries[k]
      /\ DOMAIN entries' \subseteq Key
      /\ entries' \in [DOMAIN entries' -> Position']
  BY <1>1, <1>2, WithoutFacts
<1>4. /\ reader' \in [Reader -> Call]'
      /\ FillsCurrent' /\ RecheckClean' /\ BoundedStaleness' /\ SealedEpochKnown'
      /\ \A r \in Reader : reader'[r].at <= now
  BY <1>2, <1>3, VoidedCalls
<1>5. TypeOK'
  <2>1. Position' = Position /\ Polling' = Polling
    BY <1>2 DEF Position, Polling
  <2>2. own' \in [Key -> Position]
    BY <1>1, <1>2 DEF TypeOK
  <2> QED BY <1>1, <1>2, <1>3, <1>4, <2>1, <2>2 DEF TypeOK
<1>6. InOrder'
  <2>1. InOrder
    BY DEF IInv
  <2> QED BY <1>2, <1>4, <2>1 DEF InOrder
<1>7. PollVouches' /\ PageComplete' /\ MarkVouches' /\ LapsedBehind'
  BY <1>2 DEF IInv, PollVouches, Fresh, PageComplete, MarkVouches, ReadUpTo, LapsedBehind
<1>8. NoLostChange' /\ ValExact' /\ OwnWritesSeen'
  BY <1>2, <1>3, SMTT(30) DEF IInv, NoLostChange, ValExact, OwnWritesSeen, Superseding
<1>9. OwnBehind'
  BY <1>1, <1>2, TypeFacts, SMTT(30) DEF IInv, OwnBehind
<1> QED
  BY <1>4, <1>5, <1>6, <1>7, <1>8, <1>9 DEF IInv

\* A step of one call that touches nothing but the call.
LEMMA CallStep ==
    ASSUME IInv, NEW r \in Reader, NEW c \in Call,
           reader' = [reader EXCEPT ![r] = c],
           UNCHANGED <<now, log, val, gone, pruned, cursor, lastPoll, entries, poll, lapsed, own>>,
           c.at <= now, c.sealed <= val[c.key], c.pc # "again",
           c.pc = "fill" => c.val = val[c.key],
           c.pc \in {"fill", "done"} =>
              /\ \A p \in Superseding(c.key, c.val) \ lapsed : c.at - log[p].at < PollBound
              /\ c.again => c.val >= c.sealed
    PROVE  IInv'
<1>1. TypeOK
  BY DEF IInv
<1>2. /\ reader' \in [Reader -> Call] /\ reader'[r] = c
      /\ \A o \in Reader : o # r => reader'[o] = reader[o]
  BY <1>1 DEF TypeOK
<1>3. TypeOK'
  BY <1>1, <1>2, ZenonT(40) DEF TypeOK, Position, Polling, Call
<1>4. InOrder'
  BY <1>2 DEF IInv, InOrder
<1>5. PollVouches' /\ PageComplete' /\ MarkVouches' /\ LapsedBehind'
  BY DEF IInv, PollVouches, Fresh, PageComplete, MarkVouches, ReadUpTo, LapsedBehind
<1>6. NoLostChange' /\ ValExact' /\ OwnBehind' /\ OwnWritesSeen'
  BY DEF IInv, NoLostChange, ValExact, OwnBehind, OwnWritesSeen, Superseding
<1>7. c.key \in Key
  BY DEF Call
<1>8. FillsCurrent'
  <2>1. c.pc = "fill" => Superseding(c.key, c.val) = {} /\ c.val >= own[c.key]
    BY <1>1, <1>7 DEF IInv, ValExact, OwnBehind
  <2> QED BY <1>2, <2>1 DEF IInv, FillsCurrent, InFlight, Superseding
<1>9. RecheckClean'
  <2>1. \A o \in Reader : reader'[o].sealed <= val'[reader'[o].key]
    BY <1>2 DEF IInv, RecheckClean
  <2>2. ASSUME NEW o \in Reader, reader'[o].pc = "again"
        PROVE  /\ o # r /\ reader'[o] = reader[o]
               /\ reader[o].key \in DOMAIN entries => entries[reader[o].key] >= reader[o].sealed
    BY <1>2, <2>2 DEF IInv, RecheckClean
  <2>3. ASSUME NEW o \in Reader, reader'[o].pc = "again", NEW i \in Reader, InFlight(i)',
               reader'[i].key = reader[o].key
        PROVE  reader'[i].val >= reader[o].sealed
    <3>1. CASE i = r
      <4>1. reader'[i].val = val[reader[o].key]
        BY <1>2, <2>3, <3>1 DEF InFlight
      <4>2. reader[o].sealed <= val[reader[o].key]
        BY DEF IInv, RecheckClean
      <4> QED BY <1>1, <4>1, <4>2, TypeFacts
    <3>2. CASE i # r
      BY <1>2, <2>2, <2>3, <3>2 DEF IInv, RecheckClean, InFlight
    <3> QED BY <3>1, <3>2
  <2> QED BY <2>1, <2>2, <2>3 DEF RecheckClean
<1>10. BoundedStaleness'
  BY <1>2, SMTT(40) DEF IInv, BoundedStaleness, Answered, Superseding
<1>11. SealedEpochKnown'
  BY <1>2, SMTT(30) DEF IInv, SealedEpochKnown, Answered
<1> QED
  BY <1>3, <1>4, <1>5, <1>6, <1>8, <1>9, <1>10, <1>11 DEF IInv

\* A trusted entry misses only changes younger than PollBound.
LEMMA TrustedEntry ==
    ASSUME IInv, Fresh, NEW k \in DOMAIN entries, NEW p \in Superseding(k, entries[k]) \ lapsed
    PROVE  now - log[p].at < PollBound
<1>1. TypeOK
  BY DEF IInv
<1>2. p \in (1 .. Len(log)) \ lapsed /\ p > cursor
  BY DEF IInv, NoLostChange, Superseding
<1>3. ~(log[p].at < lastPoll)
  BY <1>1, <1>2, TypeFacts, SMTT(30) DEF IInv, PollVouches, ReadUpTo
<1> QED
  <2>1. now \in Nat /\ lastPoll \in Nat /\ PollBound \in Nat /\ log[p].at \in Nat
    BY <1>1, <1>2, TypeFacts
  <2>2. now - lastPoll < PollBound
    BY DEF Fresh
  <2> QED BY <1>3, <2>1, <2>2, SMTT(30)

\* The first critical section of get.
LEMMA AccessStep ==
    ASSUME IInv, NEW r \in Reader, NEW k \in Key, NEW sealed \in Position, NEW again \in BOOLEAN,
           sealed <= val[k],
           again => (k \in DOMAIN entries => entries[k] >= sealed),
           Access(r, k, sealed, again),
           UNCHANGED <<now, log, val, gone, pruned, cursor, lastPoll, entries, poll, lapsed, own>>
    PROVE  IInv'
<1>1. TypeOK
  BY DEF IInv
<1>2. CASE Fresh /\ k \in DOMAIN entries
  <2> DEFINE c == [pc |-> "done", key |-> k, sealed |-> sealed, again |-> again, fresh |-> FALSE,
                   since |-> 0, current |-> FALSE, val |-> entries[k], at |-> now]
  <2>1. reader' = [reader EXCEPT ![r] = c]
    BY <1>2 DEF Access, Hit
  <2>2. c \in Call
    <3>1. entries[k] \in Position /\ now \in Nat /\ 0 \in Position
      BY <1>1, <1>2, CallFacts
    <3> QED BY <3>1 DEF Call
  <2>3. \A p \in Superseding(k, entries[k]) \ lapsed : now - log[p].at < PollBound
    BY <1>2, TrustedEntry
  <2>4. now <= now
    BY <1>1, CallFacts
  <2>5. /\ c.at = now /\ c.sealed = sealed /\ c.key = k /\ c.pc = "done" /\ c.val = entries[k]
        /\ c.again = again
    OBVIOUS
  <2> HIDE DEF c
  <2> QED BY <1>2, <2>1, <2>2, <2>3, <2>4, <2>5, CallStep
<1>3. CASE ~(Fresh /\ k \in DOMAIN entries)
  <2> DEFINE c == [pc |-> "lookup", key |-> k, sealed |-> sealed, again |-> again, fresh |-> Fresh,
                   since |-> cursor, current |-> TRUE, val |-> 0, at |-> 0]
  <2>1. reader' = [reader EXCEPT ![r] = c]
    BY <1>3 DEF Access, Miss
  <2>2. c \in Call
    <3>1. cursor \in Position /\ 0 \in Position
      BY <1>1, CallFacts
    <3>2. Fresh \in BOOLEAN
      BY DEF Fresh
    <3> QED BY <3>1, <3>2, ZenonT(40) DEF Call
  <2>3. 0 <= now
    BY <1>1, CallFacts
  <2>4. c.at = 0 /\ c.sealed = sealed /\ c.key = k /\ c.pc = "lookup"
    OBVIOUS
  <2> HIDE DEF c
  <2> QED BY <2>1, <2>2, <2>3, <2>4, CallStep, ZenonT(40)
<1> QED
  BY <1>2, <1>3

\* The store answers a lookup, or does not.
LEMMA LookupStep ==
    ASSUME IInv, NEW r \in Reader, Lookup(r) \/ LookupFail(r)
    PROVE  IInv'
<1>1. TypeOK
  BY DEF IInv
<1>2. UNCHANGED <<now, log, val, gone, pruned, cursor, lastPoll, entries, poll, lapsed, own>>
  BY DEF Lookup, LookupFail, store
<1>3. reader[r] \in Call /\ reader[r].key \in Key
  BY <1>1, CallFacts
<1>4. CASE Lookup(r)
  <2> DEFINE c == [reader[r] EXCEPT !.pc = "fill", !.val = val[reader[r].key], !.at = now]
  <2>1. reader' = [reader EXCEPT ![r] = c]
    BY <1>4 DEF Lookup
  <2>2. val[reader[r].key] \in Position /\ now \in Nat /\ now <= now
    BY <1>1, CallFacts
  <2>3. c \in Call
    BY <1>3, <2>2, ZenonT(40) DEF Call
  <2>4. /\ c.pc = "fill" /\ c.key = reader[r].key /\ c.val = val[reader[r].key] /\ c.at = now
        /\ c.sealed = reader[r].sealed
    BY <1>3 DEF Call
  <2> HIDE DEF c
  <2>5. c.sealed <= val[c.key] /\ c.at <= now /\ c.val >= c.sealed
    <3>1. reader[r].sealed <= val[reader[r].key]
      BY DEF IInv, RecheckClean
    <3>2. c.sealed <= val[c.key] /\ c.at <= now /\ c.sealed <= c.val
      BY <2>2, <2>4, <3>1
    <3>3. c.sealed \in Int /\ c.val \in Int
      <4>1. \A p \in Position : p \in Int
        BY SMTT(30) DEF Position
      <4>2. c.sealed \in Position /\ c.val \in Position
        BY <2>3 DEF Call
      <4> QED BY <4>1, <4>2
    <3>4. c.val >= c.sealed
      BY <3>2, <3>3
    <3> QED BY <3>2, <3>4
  <2>6. Superseding(c.key, c.val) = {}
    <3>1. ValExact
      BY DEF IInv
    <3> QED BY <1>3, <2>4, <3>1 DEF ValExact
  <2> QED BY <1>2, <2>1, <2>3, <2>4, <2>5, <2>6, CallStep
<1>5. CASE LookupFail(r)
  <2> DEFINE c == NoCall(reader[r].key)
  <2>1. reader' = [reader EXCEPT ![r] = c]
    BY <1>5 DEF LookupFail
  <2>2. 0 \in Position /\ 0 <= now /\ 0 <= val[reader[r].key]
    BY <1>1, CallFacts
  <2>3. c \in Call /\ c.pc = "idle" /\ c.key = reader[r].key /\ c.at = 0 /\ c.sealed = 0
    BY <1>3, <2>2 DEF Call, NoCall
  <2> HIDE DEF c
  <2> QED BY <1>2, <2>1, <2>2, <2>3, CallStep
<1> QED
  BY <1>4, <1>5

\* The answer of a lookup is cached, or not, and returned.
LEMMA FillStep ==
    ASSUME IInv, NEW r \in Reader, Fill(r)
    PROVE  IInv'
<1> DEFINE k == reader[r].key
           v == reader[r].val
<1>1. TypeOK
  BY DEF IInv
<1>2. /\ UNCHANGED <<now, log, val, gone, pruned, cursor, lastPoll, poll, lapsed, own>>
      /\ reader[r].pc = "fill"
  BY DEF Fill, store
<1>3. /\ reader' \in [Reader -> Call]
      /\ \A o \in Reader :
            /\ reader'[o].key = reader[o].key /\ reader'[o].val = reader[o].val
            /\ reader'[o].at = reader[o].at /\ reader'[o].sealed = reader[o].sealed
            /\ reader'[o].again = reader[o].again
            /\ o # r => reader'[o] = reader[o]
      /\ reader'[r].pc = "done"
  <2> DEFINE c == [reader[r] EXCEPT !.pc = "done", !.fresh = FALSE, !.since = 0, !.current = FALSE]
  <2>1. reader' = [reader EXCEPT ![r] = c]
    BY DEF Fill
  <2>2. reader[r] \in Call /\ 0 \in Position /\ reader \in [Reader -> Call]
    BY <1>1, CallFacts DEF TypeOK
  <2>3. /\ c \in Call
        /\ c.key = reader[r].key /\ c.val = reader[r].val /\ c.at = reader[r].at
        /\ c.sealed = reader[r].sealed /\ c.again = reader[r].again /\ c.pc = "done"
    BY <2>2 DEF Call
  <2> HIDE DEF c
  <2> QED BY <2>1, <2>2, <2>3
<1>4. k \in Key /\ v \in Position
  BY <1>1, TypeFacts DEF Position
<1>5. /\ DOMAIN entries' \subseteq Key /\ entries' \in [DOMAIN entries' -> Position]
      /\ \A x \in DOMAIN entries' :
            \/ x \in DOMAIN entries /\ entries'[x] = entries[x]
            \/ x = k /\ entries'[x] = v /\ InFlight(r)
  <2>1. CASE Cacheable(reader[r])
    <3>1. Put(k, v) /\ InFlight(r)
      BY <1>2, <2>1 DEF Fill, Cacheable, InFlight
    <3> HIDE DEF k, v
    <3>2. PICK kept \in SUBSET (DOMAIN entries \ {k}) :
             entries' = [x \in kept \cup {k} |-> IF x = k THEN v ELSE entries[x]]
      BY <3>1 DEF Put
    <3>3. \A x \in DOMAIN entries : x \in Key /\ entries[x] \in Position
      BY <1>1 DEF TypeOK
    <3>4. DOMAIN entries' = kept \cup {k}
      BY <3>2
    <3>5. \A x \in DOMAIN entries' : entries'[x] = IF x = k THEN v ELSE entries[x]
      BY <3>2
    <3>6. entries' \in [DOMAIN entries' -> Position]
      BY <1>4, <3>2, <3>3, <3>4
    <3> QED BY <1>4, <3>1, <3>3, <3>4, <3>5, <3>6
  <2>2. CASE ~Cacheable(reader[r])
    BY <1>1, <2>2 DEF Fill, TypeOK
  <2> QED BY <2>1, <2>2
<1> HIDE DEF k, v
<1>6. TypeOK'
  <2>1. Position' = Position /\ Polling' = Polling /\ Call' = Call
    BY <1>2 DEF Position, Polling, Call
  <2> QED BY <1>1, <1>2, <1>3, <1>5, <2>1 DEF TypeOK
<1>7. InOrder'
  <2>1. InOrder
    BY DEF IInv
  <2> QED BY <1>2, <1>3, <2>1 DEF InOrder
<1>8. PollVouches' /\ PageComplete' /\ MarkVouches' /\ LapsedBehind'
  BY <1>2 DEF IInv, PollVouches, Fresh, PageComplete, MarkVouches, ReadUpTo, LapsedBehind
<1>9. ValExact' /\ OwnBehind'
  BY <1>2 DEF IInv, ValExact, OwnBehind, Superseding
<1>10. NoLostChange' /\ OwnWritesSeen'
  <2>1. InFlight(r) => /\ \A p \in Superseding(k, v) \ lapsed : p > cursor
                       /\ v >= own[k]
    BY DEF IInv, FillsCurrent, k, v
  <2> QED BY <1>2, <1>5, <2>1 DEF IInv, NoLostChange, OwnWritesSeen, Superseding
<1>11. FillsCurrent'
  <2>1. FillsCurrent
    BY DEF IInv
  <2> QED BY <1>2, <1>3, <2>1, SMTT(40) DEF FillsCurrent, InFlight, Superseding
<1>12. RecheckClean'
  <2>1. \A o \in Reader : reader'[o].sealed <= val'[reader'[o].key]
    BY <1>2, <1>3, SMTT(30) DEF IInv, RecheckClean
  <2>2. ASSUME NEW o \in Reader, reader'[o].pc = "again"
        PROVE  /\ reader[o].pc = "again"
               /\ reader'[o].key \in DOMAIN entries' => entries'[reader'[o].key] >= reader'[o].sealed
    <3>1. o # r /\ reader'[o] = reader[o]
      BY <1>3, <2>2
    <3>2. InFlight(r) /\ k = reader[o].key => v >= reader[o].sealed
      BY <2>2, <3>1 DEF IInv, RecheckClean, k, v
    <3>3. reader[o].key \in DOMAIN entries => entries[reader[o].key] >= reader[o].sealed
      BY <2>2, <3>1 DEF IInv, RecheckClean
    <3> QED BY <1>5, <2>2, <3>1, <3>2, <3>3
  <2>3. ASSUME NEW o \in Reader, reader'[o].pc = "again", NEW i \in Reader, InFlight(i)',
               reader'[i].key = reader'[o].key
        PROVE  reader'[i].val >= reader'[o].sealed
    BY <1>3, <2>2, <2>3, SMTT(30) DEF IInv, RecheckClean, InFlight
  <2> QED BY <2>1, <2>2, <2>3 DEF RecheckClean
<1>13. \A o \in Reader : Answered(o)' => Answered(o)
  BY <1>2, <1>3 DEF Answered
<1>14. BoundedStaleness'
  <2>1. BoundedStaleness
    BY DEF IInv
  <2> QED BY <1>2, <1>3, <1>13, <2>1, SMTT(30) DEF BoundedStaleness, Superseding
<1>15. SealedEpochKnown'
  <2>1. SealedEpochKnown
    BY DEF IInv
  <2> QED BY <1>3, <1>13, <2>1 DEF SealedEpochKnown
<1> QED
  BY <1>6, <1>7, <1>8, <1>9, <1>10, <1>11, <1>12, <1>14, <1>15 DEF IInv

\* Check drops an entry that is behind the sealed epoch.
LEMMA RecheckStep ==
    ASSUME IInv, NEW r \in Reader, Recheck(r)
    PROVE  IInv'
<1>1. TypeOK
  BY DEF IInv
<1>2. /\ UNCHANGED <<now, log, val, gone, pruned, cursor, lastPoll, poll, lapsed, own>>
      /\ reader[r].pc = "done"
      /\ entries' = Without({reader[r].key})
  BY DEF Recheck, Behind, store
<1>3. /\ reader' \in [Reader -> Call]
      /\ \A o \in Reader :
            /\ reader'[o].key = reader[o].key /\ reader'[o].val = reader[o].val
            /\ reader'[o].at = reader[o].at /\ reader'[o].sealed = reader[o].sealed
            /\ reader'[o].again = reader[o].again /\ reader'[o].current = FALSE
            /\ o # r => reader'[o].pc = reader[o].pc
      /\ reader'[r].pc = "again"
  <2> DEFINE c == [Void[r] EXCEPT !.pc = "again"]
  <2>1. reader' = [Void EXCEPT ![r] = c]
    BY DEF Recheck
  <2>2. Void[r] \in Call /\ Void \in [Reader -> Call]
    BY <1>1, VoidFacts
  <2>3. /\ c \in Call
        /\ c.key = Void[r].key /\ c.val = Void[r].val /\ c.at = Void[r].at
        /\ c.sealed = Void[r].sealed /\ c.again = Void[r].again /\ c.pc = "again"
        /\ c.current = Void[r].current
    BY <2>2 DEF Call
  <2> HIDE DEF c
  <2>4. \A o \in Reader : reader'[o] = IF o = r THEN c ELSE Void[o]
    BY <2>1, <2>2
  <2>5. reader' \in [Reader -> Call]
    BY <2>1, <2>2, <2>3
  <2>6. \A o \in Reader :
            /\ reader'[o].key = Void[o].key /\ reader'[o].val = Void[o].val
            /\ reader'[o].at = Void[o].at /\ reader'[o].sealed = Void[o].sealed
            /\ reader'[o].again = Void[o].again /\ reader'[o].current = Void[o].current
    BY <2>3, <2>4
  <2>7. /\ \A o \in Reader : o # r => reader'[o].pc = Void[o].pc
        /\ reader'[r].pc = "again"
    BY <2>3, <2>4
  <2>8. \A o \in Reader :
            /\ Void[o].pc = reader[o].pc /\ Void[o].key = reader[o].key
            /\ Void[o].sealed = reader[o].sealed /\ Void[o].again = reader[o].again
            /\ Void[o].val = reader[o].val /\ Void[o].at = reader[o].at /\ Void[o].current = FALSE
    BY <1>1, VoidFacts
  <2>9. ASSUME NEW o \in Reader
        PROVE  /\ reader'[o].key = reader[o].key /\ reader'[o].val = reader[o].val
               /\ reader'[o].at = reader[o].at /\ reader'[o].sealed = reader[o].sealed
               /\ reader'[o].again = reader[o].again /\ reader'[o].current = FALSE
               /\ o # r => reader'[o].pc = reader[o].pc
    <3>1. o # r => reader'[o].pc = reader[o].pc
      BY <2>7, <2>8
    <3>2. /\ reader'[o].key = reader[o].key /\ reader'[o].val = reader[o].val
          /\ reader'[o].at = reader[o].at /\ reader'[o].sealed = reader[o].sealed
      BY <2>6, <2>8, SMTT(30)
    <3>3. reader'[o].again = reader[o].again /\ reader'[o].current = FALSE
      BY <2>6, <2>8
    <3> QED BY <3>1, <3>2, <3>3
  <2> QED BY <2>5, <2>7, <2>9
<1>4. /\ \A k \in DOMAIN entries' :
            k \in DOMAIN entries /\ k # reader[r].key /\ entries'[k] = entries[k]
      /\ DOMAIN entries' \subseteq Key
      /\ entries' \in [DOMAIN entries' -> Position']
  BY <1>1, <1>2, WithoutFacts
<1>5. TypeOK'
  <2>1. Position' = Position /\ Polling' = Polling /\ Call' = Call
    BY <1>2 DEF Position, Polling, Call
  <2> QED BY <1>1, <1>2, <1>3, <1>4, <2>1 DEF TypeOK
<1>6. InOrder'
  BY <1>2, <1>3, ZenonT(40) DEF IInv, InOrder
<1>7. PollVouches' /\ PageComplete' /\ MarkVouches' /\ LapsedBehind'
  BY <1>2 DEF IInv, PollVouches, Fresh, PageComplete, MarkVouches, ReadUpTo, LapsedBehind
<1>8. ValExact' /\ OwnBehind' /\ NoLostChange' /\ OwnWritesSeen'
  BY <1>2, <1>4, ZenonT(40) DEF IInv, ValExact, OwnBehind, NoLostChange, OwnWritesSeen, Superseding
<1>9. FillsCurrent'
  BY <1>3 DEF FillsCurrent, InFlight
<1>10. RecheckClean'
  <2>1. \A o \in Reader : reader'[o].sealed <= val'[reader'[o].key]
    BY <1>2, <1>3 DEF IInv, RecheckClean
  <2>2. ASSUME NEW o \in Reader, reader'[o].pc = "again"
        PROVE  reader'[o].key \in DOMAIN entries' => entries'[reader'[o].key] >= reader'[o].sealed
    <3>1. CASE o = r
      BY <1>3, <1>4, <3>1
    <3>2. CASE o # r
      BY <1>3, <1>4, <2>2, <3>2, SMTT(30) DEF IInv, RecheckClean
    <3> QED BY <3>1, <3>2
  <2> QED BY <1>3, <2>1, <2>2 DEF RecheckClean, InFlight
<1>11. \A o \in Reader : Answered(o)' => Answered(o)
  BY <1>3 DEF Answered
<1>12. BoundedStaleness'
  <2>1. BoundedStaleness
    BY DEF IInv
  <2> SUFFICES ASSUME NEW o \in Reader, Answered(o)', NEW p \in (1 .. Len(log)) \ lapsed,
                      p > reader'[o].val, log[p].key = reader'[o].key
               PROVE  reader'[o].at - log[p].at < PollBound
    BY <1>2 DEF BoundedStaleness, Superseding
  <2>2. Answered(o) /\ p \in Superseding(reader[o].key, reader[o].val) \ lapsed /\ reader'[o].at = reader[o].at
    BY <1>2, <1>3, <1>11 DEF Superseding
  <2> QED BY <2>1, <2>2 DEF BoundedStaleness
<1>13. SealedEpochKnown'
  <2>1. SealedEpochKnown
    BY DEF IInv
  <2> QED BY <1>3, <1>11, <2>1 DEF SealedEpochKnown
<1> QED
  BY <1>5, <1>6, <1>7, <1>8, <1>9, <1>10, <1>12, <1>13 DEF IInv

\* A follower that was just started satisfies the invariant.
LEMMA InitEstablishes ==
    ASSUME Init
    PROVE  IInv
<1>1. PICK k \in Key : reader = [r \in Reader |-> NoCall(k)]
  BY DEF Init
<1>2. log = <<>> /\ Len(log) = 0 /\ log \in Seq(Logged) /\ Position = {0} /\ 0 \in Position
  BY SMTT(30) DEF Init, Position
<1>3. \A r \in Reader : reader[r] = NoCall(k)
  BY <1>1
<1>4. NoCall(k) \in Call /\ NoCall(k).pc = "idle" /\ NoCall(k).at = 0 /\ NoCall(k).sealed = 0
      /\ NoCall(k).key = k
  BY <1>2 DEF NoCall, Call
<1>5. Idle \in Polling /\ Idle.pc = "idle" /\ Idle.began = 0
  BY <1>2 DEF Idle, Polling
<1>6. TypeOK
  <2>1. reader \in [Reader -> Call]
    BY <1>1, <1>4
  <2>2. entries \in [DOMAIN entries -> Position] /\ DOMAIN entries = {}
    BY DEF Init
  <2>3. now \in 1 .. MaxTime /\ lastPoll \in 0 .. MaxTime /\ gone \in [Key -> 0 .. MaxTime]
    BY BoundsAssumption, SMTT(30) DEF Init
  <2>4. val \in [Key -> Position] /\ own \in [Key -> Position]
    BY <1>2 DEF Init
  <2> QED BY <1>2, <1>5, <2>1, <2>2, <2>3, <2>4 DEF Init, TypeOK
<1>7. ValExact /\ InOrder /\ PollVouches /\ PageComplete /\ MarkVouches /\ LapsedBehind
  BY <1>2, <1>3, <1>4, <1>5, SMTT(40) DEF Init, ValExact, Superseding, InOrder, PollVouches, Fresh,
     PageComplete, MarkVouches, LapsedBehind
<1>8. FillsCurrent /\ OwnBehind /\ RecheckClean
  BY <1>3, <1>4, SMTT(30) DEF Init, FillsCurrent, InFlight, OwnBehind, RecheckClean
<1>9. BoundedStaleness /\ NoLostChange /\ OwnWritesSeen /\ SealedEpochKnown
  BY <1>3, <1>4 DEF Init, BoundedStaleness, Answered, NoLostChange, OwnWritesSeen, SealedEpochKnown
<1> QED
  BY <1>6, <1>7, <1>8, <1>9 DEF IInv

\* Every step keeps the invariant.
LEMMA NextPreserves ==
    ASSUME IInv, [Next]_vars
    PROVE  IInv'
<1>1. TypeOK
  BY DEF IInv
<1>2. CASE Tick
  BY <1>2, TickStep
<1>3. ASSUME NEW k \in Key, Change(k) \/ Erase(k)
      PROVE  IInv'
  <2>1. gone' \in [Key -> 0 .. MaxTime]
    <3>1. gone \in [Key -> 0 .. MaxTime] /\ now \in 0 .. MaxTime
      BY <1>1, SMTT(30) DEF TypeOK
    <3>2. gone' = gone \/ gone' = [gone EXCEPT ![k] = now]
      BY <1>3 DEF Change, Erase
    <3> QED BY <3>1, <3>2
  <2>2. /\ log' = Append(log, [key |-> k, at |-> now])
        /\ val' = [val EXCEPT ![k] = Len(log) + 1]
        /\ UNCHANGED <<now, pruned, cursor, lastPoll, entries, poll, reader, lapsed, own>>
    BY <1>3 DEF Change, Erase
  <2> QED BY <2>1, <2>2, AppendStep
<1>4. CASE (\E k \in Key : EraseSilently(k)) \/ Prune
  BY <1>4, QuietStoreStep
<1>5. CASE PollBegin \/ PollFail \/ PollMark
  BY <1>5, PollEdgeStep
<1>6. CASE PollRead
  BY <1>6, PollReadStep
<1>7. CASE PollReset
  BY <1>7, PollResetStep
<1>8. CASE PollApply
  BY <1>8, PollApplyStep
<1>9. ASSUME NEW r \in Reader, NEW k \in Key, NEW sealed \in Seals, Get(r, k, sealed)
      PROVE  IInv'
  <2>1. sealed \in Position
    BY <1>1, <1>9, TypeFacts, CacheAssumption, SMTT(30) DEF Get, Position
  <2>2. /\ sealed <= val[k] /\ Access(r, k, sealed, FALSE)
        /\ UNCHANGED <<now, log, val, gone, pruned, cursor, lastPoll, entries, poll, lapsed, own>>
    BY <1>9, ZenonT(40) DEF Get, store
  <2> QED BY <2>1, <2>2, AccessStep
<1>10. ASSUME NEW r \in Reader, GetAgain(r)
       PROVE  IInv'
  <2>1. reader[r].key \in Key /\ reader[r].sealed \in Position
    BY <1>1, TypeFacts DEF Position
  <2>2. /\ reader[r].sealed <= val[reader[r].key]
        /\ reader[r].key \in DOMAIN entries => entries[reader[r].key] >= reader[r].sealed
    BY <1>10 DEF GetAgain, IInv, RecheckClean
  <2>3. /\ Access(r, reader[r].key, reader[r].sealed, TRUE)
        /\ UNCHANGED <<now, log, val, gone, pruned, cursor, lastPoll, entries, poll, lapsed, own>>
    BY <1>10 DEF GetAgain, store
  <2> QED BY <2>1, <2>2, <2>3, AccessStep
<1>11. ASSUME NEW r \in Reader, Lookup(r) \/ LookupFail(r) \/ Fill(r) \/ Recheck(r)
       PROVE  IInv'
  BY <1>11, LookupStep, FillStep, RecheckStep
<1>12. ASSUME NEW keys \in SUBSET Key, Forget(keys)
       PROVE  IInv'
  BY <1>12, ForgetStep, SMTT(30)
<1>13. CASE UNCHANGED vars
  BY <1>13, ZenonT(40) DEF vars, IInv, TypeOK, Position, Polling, Call, ValExact, Superseding, InOrder,
     PollVouches, Fresh, ReadUpTo, PageComplete, MarkVouches, LapsedBehind, FillsCurrent, InFlight,
     OwnBehind, RecheckClean, BoundedStaleness, Answered, NoLostChange, OwnWritesSeen, SealedEpochKnown
<1> QED
  BY <1>2, <1>3, <1>4, <1>5, <1>6, <1>7, <1>8, <1>9, <1>10, <1>11, <1>12, <1>13 DEF Next

\* The invariant holds in every reachable state of the cache.
THEOREM Inductive == Spec => []IInv
<1>1. Init => IInv
  BY InitEstablishes
<1>2. IInv /\ [Next]_vars => IInv'
  BY NextPreserves
<1> QED
  BY <1>1, <1>2, PTL DEF Spec

\* Every variable of the follower keeps its type; the cursor never passes the feed.
THEOREM TypeCorrect == Spec => []TypeOK
<1>1. IInv => TypeOK
  BY DEF IInv
<1> QED
  BY <1>1, Inductive, PTL

\* No call of get or Check is answered with a value that was replaced PollBound
\* or longer before, however polls fail, lag or race lookups.
THEOREM StalenessIsBounded == Spec => []BoundedStaleness
<1>1. IInv => BoundedStaleness
  BY DEF IInv
<1> QED
  BY <1>1, Inductive, PTL

\* A change is never lost to a racing lookup: what an entry misses, a later poll
\* will still read.
THEOREM ChangesAreNotLost == Spec => []NoLostChange
<1>1. IInv => NoLostChange
  BY DEF IInv
<1> QED
  BY <1>1, Inductive, PTL

\* After Forget no lookup that was in flight brings an older value back.
THEOREM WritesAreSeen == Spec => []OwnWritesSeen
<1>1. IInv => OwnWritesSeen
  BY DEF IInv
<1> QED
  BY <1>1, Inductive, PTL

\* Check's second answer is never older than the epoch of the session.
THEOREM RecheckSuffices == Spec => []SealedEpochKnown
<1>1. IInv => SealedEpochKnown
  BY DEF IInv
<1> QED
  BY <1>1, Inductive, PTL

=============================================================================
