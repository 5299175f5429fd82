------------------------ MODULE LifecycleOutboxProofs ------------------------
(***************************************************************************)
(* What LifecycleOutbox promises for any number of accounts, instances,    *)
(* components and rows.  ErasedLast, DoneDelivered and OneGoroutinePerRow  *)
(* are not inductive: they hold because a worker that found its delivery   *)
(* successful really delivered, because a worker that runs a row holds its *)
(* claim, and because no row is ever added for an account that is gone.    *)
(*                                                                         *)
(* The second half is about the readiness of a single instance.            *)
(* ReadyHonest needs what the loops may still do to the rows they read     *)
(* (Hands) and how far the remembered retries may lag behind the outbox    *)
(* (Memory): a failing row is due soon after its remembered retry, so a    *)
(* pass that did not read it either began before or was full.              *)
(***************************************************************************)
EXTENDS OutboxReadiness, TLAPS

\* Zenon proves the steps that name no prover; the SMT solver those with arithmetic.
USE Zenon

\* A worker about to acknowledge a row delivered it.
BookedDelivered == \A w \in Workers : worker[w].pc = "book" /\ worker[w].ok => worker[w].row.id \in delivered

\* A worker that runs a row holds the claim on it.
RunningClaimed == \A w \in Workers : Running(w) => worker[w].row.id \in inflight[w[1]]

\* The inductive invariant.
Inv ==
    /\ TypeOK
    /\ ErasedLast
    /\ DoneDelivered
    /\ BookedDelivered
    /\ RunningClaimed
    /\ OneGoroutinePerRow

-----------------------------------------------------------------------------
\* A step keeps the rows apart from what a delivery may change of them.
RowsKept ==
    /\ outbox' \in Seq(Row)
    /\ Len(outbox') = Len(outbox)
    /\ \A i \in Ids :
          /\ outbox'[i].subject = outbox[i].subject
          /\ outbox'[i].component = outbox[i].component
          /\ outbox'[i].status = "pending" => outbox[i].status = "pending"
          /\ outbox'[i].status = "done" => outbox[i].status = "done" \/ i \in delivered

\* A step is one of worker w.
Moves(w) ==
    /\ worker' \in [Workers -> Worker]
    /\ \A v \in Workers : v # w => worker'[v] = worker[v]

\* The types of the rows and of the workers, as the provers need them.
LEMMA TypeFacts ==
    ASSUME TypeOK
    PROVE  /\ Len(outbox) \in Nat
           /\ \A i \in Ids : /\ outbox[i] \in Row
                             /\ outbox[i].subject \in Subject
                             /\ outbox[i].wait \in Nat
                             /\ outbox[i].age \in 0 .. MaxAge
                             /\ outbox[i].attempts \in 0 .. MaxAttempts
           /\ \A w \in Workers : /\ worker[w] \in Worker
                                 /\ worker[w].row \in Item /\ worker[w].items \subseteq Item
                                 /\ worker[w].elapsed \in Nat
                                 /\ w[1] \in Process
<1>1. outbox \in Seq(Row)
  BY DEF TypeOK
<1>2. Len(outbox) \in Nat /\ \A i \in Ids : outbox[i] \in Row
  BY <1>1, SMTT(30) DEF Ids
<1>3. \A i \in Ids : /\ outbox[i].subject \in Subject /\ outbox[i].wait \in Nat
                     /\ outbox[i].age \in 0 .. MaxAge /\ outbox[i].attempts \in 0 .. MaxAttempts
  BY <1>2 DEF Row
<1>4. \A w \in Workers : worker[w] \in Worker
  BY DEF TypeOK
<1>5. \A w \in Workers : /\ worker[w].row \in Item /\ worker[w].items \subseteq Item
                         /\ worker[w].elapsed \in Nat
  BY <1>4 DEF Worker
<1>6. \A w \in Workers : w[1] \in Process
  BY DEF Workers
<1> QED
  BY <1>2, <1>3, <1>4, <1>5, <1>6

\* Rows that are kept keep the promises about rows.
LEMMA RowsKeptInv ==
    ASSUME Inv, RowsKept, UNCHANGED <<account, delivered>>
    PROVE  ErasedLast' /\ DoneDelivered' /\ Ids' = Ids
<1>1. Ids' = Ids
  BY DEF RowsKept, Ids
<1> QED
  BY <1>1 DEF Inv, ErasedLast, DoneDelivered, RowsKept, Pending, Identity

\* Rows of which nothing is changed are kept.
LEMMA RowsSame ==
    ASSUME TypeOK, outbox' = outbox
    PROVE  RowsKept
BY DEF TypeOK, RowsKept

\* The wait before a retry is a number of ticks.
LEMMA BackoffNat ==
    ASSUME NEW n \in 0 .. MaxAttempts
    PROVE  Backoff(n) \in Nat
<1>1. RetryCap \in Nat
  BY TimesAssumption
<1>2. \A d : d \in 1 .. RetryCap => d \in Nat
  BY <1>1, SMTT(30)
<1> QED
  BY <1>1, <1>2 DEF Backoff

\* A worker that does nothing is of its type and has nothing in hand.
LEMMA RestingWorker == Resting \in Worker /\ NoItem \in Item /\ Resting.items = {} /\ Resting.pc = "idle"
<1>1. 0 \in 0 .. MaxAttempts /\ 0 \in 0 .. MaxAge /\ 0 \in Nat
  BY TimesAssumption, BoundsAssumption, SMTT(30)
<1>2. NoItem \in Item
  BY <1>1 DEF NoItem, Item
<1> QED
  BY <1>1, <1>2 DEF Resting, Worker

-----------------------------------------------------------------------------
\* It holds at first.
LEMMA InitInv == Init => Inv
<1> SUFFICES ASSUME Init PROVE Inv
  BY SMTT(30)
<1>1. Ids = {} /\ outbox \in Seq(Row)
  BY SMTT(30) DEF Init, Ids
<1>2. worker \in [Workers -> Worker] /\ \A w \in Workers : worker[w] = Resting
  BY RestingWorker DEF Init
<1>3. \A w \in Workers : worker[w].items = {} /\ worker[w].pc = "idle"
  BY <1>2, RestingWorker
<1>4. TypeOK
  BY <1>1, <1>2, <1>3 DEF Init, TypeOK, Running
<1>5. ErasedLast /\ DoneDelivered
  BY <1>1 DEF ErasedLast, DoneDelivered
<1>6. BookedDelivered /\ RunningClaimed /\ OneGoroutinePerRow
  BY <1>3 DEF BookedDelivered, RunningClaimed, OneGoroutinePerRow, Running
<1> QED
  BY <1>4, <1>5, <1>6 DEF Inv

\* Time passing keeps the invariant.
LEMMA TickStep ==
    ASSUME Inv, Tick
    PROVE  Inv'
<1>0. TypeOK
  BY DEF Inv
<1>1. UNCHANGED <<account, mutations, inflight, crashes, erasures, delivered>>
  BY DEF Tick
<1>2. RowsKept
  <2>1. ASSUME NEW i \in Ids
        PROVE  /\ (IF outbox[i].wait = 0 THEN 0 ELSE outbox[i].wait - 1) \in Nat
               /\ (IF outbox[i].age = MaxAge THEN MaxAge ELSE outbox[i].age + 1) \in 0 .. MaxAge
    BY <1>0, TypeFacts, TimesAssumption, SMTT(30)
  <2>2. \A i \in Ids : [outbox[i] EXCEPT
             !.wait = IF outbox[i].wait = 0 THEN 0 ELSE outbox[i].wait - 1,
             !.age = IF outbox[i].age = MaxAge THEN MaxAge ELSE outbox[i].age + 1] \in Row
    BY <1>0, <2>1, TypeFacts, ZenonT(40) DEF Row
  <2>3. outbox' \in [1 .. Len(outbox) -> Row] /\ Len(outbox) \in Nat
    BY <1>0, <2>2, TypeFacts DEF Tick, Ids
  <2>4. outbox' \in Seq(Row) /\ Len(outbox') = Len(outbox)
    BY <2>3, SMTT(40)
  <2>5. \A i \in Ids : /\ outbox'[i].subject = outbox[i].subject
                       /\ outbox'[i].component = outbox[i].component
                       /\ outbox'[i].status = outbox[i].status
    BY <1>0, TypeFacts, ZenonT(40) DEF Tick, Row
  <2> QED BY <2>4, <2>5 DEF RowsKept
<1>3. ErasedLast' /\ DoneDelivered' /\ Ids' = Ids
  BY <1>1, <1>2, RowsKeptInv
<1>4. worker' \in [Workers -> Worker]
  <2>1. \A w \in Workers : worker[w].elapsed + 1 \in Nat
    BY <1>0, TypeFacts, SMTT(30)
  <2>2. \A w \in Workers : [worker[w] EXCEPT !.elapsed = worker[w].elapsed + 1] \in Worker
    BY <1>0, <2>1, TypeFacts, ZenonT(40) DEF Worker
  <2> QED BY <1>0, <2>2, TypeFacts DEF Tick
<1>5. \A w \in Workers : /\ worker'[w].pc = worker[w].pc /\ worker'[w].items = worker[w].items
                         /\ worker'[w].row = worker[w].row /\ worker'[w].ok = worker[w].ok
  BY <1>0, TypeFacts DEF Tick, Worker
<1>6. TypeOK'
  BY <1>0, <1>1, <1>2, <1>3, <1>4, <1>5 DEF TypeOK, RowsKept, Running
<1>7. BookedDelivered' /\ RunningClaimed' /\ OneGoroutinePerRow'
  BY <1>1, <1>5, SMTT(30) DEF Inv, BookedDelivered, RunningClaimed, OneGoroutinePerRow, Running
<1> QED
  BY <1>3, <1>6, <1>7 DEF Inv

-----------------------------------------------------------------------------
\* A step after which worker w runs no row, and after which the other workers
\* still hold their claims.
LEMMA RestStep ==
    ASSUME Inv, NEW w \in Workers, Moves(w), RowsKept,
           worker'[w].pc \in {"idle", "next"},
           \A it \in worker'[w].items : it.id \in Ids,
           inflight' \in [Process -> SUBSET Ids],
           \A v \in Workers : v # w /\ Running(v) => worker[v].row.id \in inflight'[v[1]],
           UNCHANGED <<account, mutations, crashes, erasures, delivered>>
    PROVE  Inv'
<1>1. ErasedLast' /\ DoneDelivered' /\ Ids' = Ids
  BY RowsKeptInv
<1>2. \A v \in Workers : v # w => worker'[v] = worker[v]
  BY DEF Moves
<1>3. ~Running(w)'
  BY DEF Running
<1>4. TypeOK'
  BY <1>1, <1>2, <1>3 DEF Inv, TypeOK, RowsKept, Moves, Running
<1>5. BookedDelivered' /\ RunningClaimed' /\ OneGoroutinePerRow'
  BY <1>2, <1>3, SMTT(30) DEF Inv, BookedDelivered, RunningClaimed, OneGoroutinePerRow, Running
<1> QED
  BY <1>1, <1>4, <1>5 DEF Inv

\* Retry, which reads the due rows of the outbox, keeps it.
LEMMA RetryStep ==
    ASSUME Inv, NEW p \in Process, Retry(p)
    PROVE  Inv'
<1> DEFINE w == <<p, "pass">>
           its == {[id |-> i, attempts |-> outbox[i].attempts, age |-> outbox[i].age] : i \in PendingOutbox}
           r == [pc |-> "next", row |-> NoItem, elapsed |-> 0, ok |-> FALSE, items |-> its]
<1>0. TypeOK /\ w \in Workers
  BY DEF Inv, Workers
<1>1. PendingOutbox \subseteq Ids
  BY DEF PendingOutbox, Due
<1>2. \A i \in Ids : i \in Nat
  BY <1>0, TypeFacts, SMTT(30) DEF Ids
<1>3. its \subseteq Item /\ \A it \in its : it.id \in Ids
  BY <1>0, <1>1, <1>2, TypeFacts, SMTT(30) DEF Item
<1>4. worker' = [worker EXCEPT ![w] = r] /\ UNCHANGED <<account, outbox, mutations, inflight, crashes, erasures, delivered>>
  BY DEF Retry
<1> HIDE DEF its, w
<1>5. r \in Worker
  BY <1>3, RestingWorker DEF Worker
<1>6. worker'[w] = r /\ Moves(w)
  BY <1>0, <1>4, <1>5 DEF Moves, TypeOK
<1>7. worker'[w].pc = "next" /\ worker'[w].items = its
  BY <1>6, SMTT(30)
<1>8. RowsKept
  BY <1>0, <1>4, RowsSame
<1>9. inflight' \in [Process -> SUBSET Ids] /\ \A v \in Workers : Running(v) => worker[v].row.id \in inflight'[v[1]]
  BY <1>4 DEF Inv, TypeOK, RunningClaimed
<1> QED
  BY <1>0, <1>3, <1>4, <1>6, <1>7, <1>8, <1>9, RestStep

\* The steps of a loop that leave the rows and the claims alone.
LEMMA LoopStep ==
    ASSUME Inv, NEW w \in Workers,
           \/ \E it \in worker[w].items : Skip(w, it) \/ Cut(w, it)
           \/ Finish(w)
    PROVE  Inv'
<1>0. TypeOK
  BY DEF Inv
<1>1. UNCHANGED <<account, outbox, mutations, inflight, crashes, erasures, delivered>>
  BY DEF Skip, Cut, Finish
<1>2. /\ Moves(w) /\ worker'[w].pc \in {"idle", "next"}
      /\ worker'[w].items \subseteq worker[w].items
  <2>1. CASE worker' = [worker EXCEPT ![w] = Resting]
    BY <1>0, <2>1, RestingWorker DEF Moves, TypeOK
  <2>2. ASSUME NEW it \in worker[w].items, Skip(w, it)
        PROVE  /\ Moves(w) /\ worker'[w].pc \in {"idle", "next"}
               /\ worker'[w].items \subseteq worker[w].items
    <3> DEFINE r == [worker[w] EXCEPT !.items = worker[w].items \ {it}]
    <3>1. r \in Worker /\ r.pc = worker[w].pc /\ r.items = worker[w].items \ {it}
      BY <1>0, TypeFacts DEF Worker
    <3>2. worker' = [worker EXCEPT ![w] = r] /\ worker[w].pc = "next"
      BY <2>2 DEF Skip, At
    <3> HIDE DEF r
    <3> QED BY <1>0, <3>1, <3>2 DEF Moves, TypeOK
  <2> QED BY <2>1, <2>2 DEF Cut, Finish
<1>3. \A it \in worker'[w].items : it.id \in Ids
  BY <1>0, <1>2 DEF TypeOK
<1>4. RowsKept
  BY <1>0, <1>1, RowsSame
<1>5. inflight' \in [Process -> SUBSET Ids] /\ \A v \in Workers : Running(v) => worker[v].row.id \in inflight'[v[1]]
  BY <1>1 DEF Inv, TypeOK, RunningClaimed
<1> QED
  BY <1>1, <1>2, <1>3, <1>4, <1>5, RestStep

\* The claim of a row or of an account keeps it.
LEMMA ClaimStep ==
    ASSUME Inv, NEW w \in Workers, NEW it \in worker[w].items, Claim(w, it)
    PROVE  Inv'
<1> DEFINE r == [worker[w] EXCEPT !.pc = "deliver", !.row = it, !.items = worker[w].items \ {it}]
<1>0. TypeOK /\ w[1] \in Process /\ it \in Item /\ it.id \in Ids
  BY TypeFacts DEF Inv, TypeOK
<1>1. /\ worker' = [worker EXCEPT ![w] = r]
      /\ inflight' = [inflight EXCEPT ![w[1]] = inflight[w[1]] \cup {it.id}]
      /\ it.id \notin inflight[w[1]]
      /\ UNCHANGED <<account, outbox, mutations, crashes, erasures, delivered>>
  BY DEF Claim, Claimable
<1>2. r \in Worker /\ r.pc = "deliver" /\ r.row = it /\ r.items = worker[w].items \ {it}
  BY <1>0, TypeFacts DEF Worker
<1> HIDE DEF r
<1>3. worker'[w] = r /\ Moves(w)
  BY <1>0, <1>1, <1>2 DEF Moves, TypeOK
<1>4. /\ inflight' \in [Process -> SUBSET Ids]
      /\ it.id \in inflight'[w[1]]
      /\ \A p \in Process : inflight[p] \subseteq inflight'[p]
  BY <1>0, <1>1 DEF TypeOK
<1>5. ErasedLast' /\ DoneDelivered' /\ Ids' = Ids
  BY <1>0, <1>1, RowsSame, RowsKeptInv
<1>6. TypeOK'
  BY <1>0, <1>1, <1>2, <1>3, <1>4, <1>5 DEF TypeOK, Moves, Running
<1>7. \A v \in Workers : v # w => worker'[v] = worker[v]
  BY <1>3 DEF Moves
<1>8. BookedDelivered'
  BY <1>1, <1>2, <1>3, <1>7, SMTT(30) DEF Inv, BookedDelivered
<1>9. RunningClaimed'
  BY <1>2, <1>3, <1>4, <1>7, TypeFacts DEF Inv, RunningClaimed, Running
<1>10. OneGoroutinePerRow'
  BY <1>1, <1>2, <1>3, <1>7, SMTT(30) DEF Inv, OneGoroutinePerRow, RunningClaimed, Running
<1> QED
  BY <1>5, <1>6, <1>8, <1>9, <1>10 DEF Inv

\* A delivery: the account is erased only when nothing else of it is pending, and
\* a delivery counted as a success is recorded.
LEMMA DeliverStep ==
    ASSUME Inv, NEW w \in Workers, DeliverOk(w) \/ DeliverFail(w)
    PROVE  Inv'
<1> DEFINE i == worker[w].row.id
<1>0. TypeOK /\ worker[w].pc = "deliver" /\ i \in Ids /\ Running(w)
  BY ZenonT(40) DEF Inv, TypeOK, DeliverOk, DeliverFail, Running
<1>1. UNCHANGED <<outbox, mutations, inflight, crashes, erasures>> /\ Ids' = Ids
  BY DEF DeliverOk, DeliverFail, Ids
<1>2. /\ Moves(w) /\ worker'[w].pc = "book" /\ worker'[w].row = worker[w].row
      /\ worker'[w].items = worker[w].items
      /\ worker'[w].ok => i \in delivered'
      /\ delivered \subseteq delivered' /\ delivered' \subseteq Ids
  <2>1. CASE DeliverOk(w)
    <3> DEFINE r == [worker[w] EXCEPT !.pc = "book", !.ok = TRUE]
    <3>1. r \in Worker /\ r.pc = "book" /\ r.row = worker[w].row /\ r.items = worker[w].items
      BY <1>0, TypeFacts DEF Worker
    <3>2. worker' = [worker EXCEPT ![w] = r] /\ delivered' = delivered \cup {i}
      BY <2>1 DEF DeliverOk
    <3> HIDE DEF r
    <3> QED BY <1>0, <3>1, <3>2 DEF Moves, TypeOK
  <2>2. CASE DeliverFail(w)
    <3> DEFINE r == [worker[w] EXCEPT !.pc = "book", !.ok = FALSE]
    <3>1. r \in Worker /\ r.pc = "book" /\ r.row = worker[w].row /\ r.items = worker[w].items /\ ~r.ok
      BY <1>0, TypeFacts DEF Worker
    <3>2. worker' = [worker EXCEPT ![w] = r] /\ delivered' = delivered
      BY <2>2 DEF DeliverFail
    <3> HIDE DEF r
    <3> QED BY <1>0, <3>1, <3>2 DEF Moves, TypeOK
  <2> QED BY <2>1, <2>2
<1>3. \A v \in Workers : v # w => worker'[v] = worker[v]
  BY <1>2 DEF Moves
<1>4. \/ account' = account
      \/ /\ account' = [account EXCEPT ![outbox[i].subject] = "erased"]
         /\ account[outbox[i].subject] = "erased" \/ ~Waiting(outbox[i].subject)
  BY DEF DeliverOk, DeliverFail
<1>5. outbox[i].subject \in Subject
  BY <1>0, TypeFacts
<1>6. TypeOK'
  <2>1. account' \in [Subject -> {"active", "tombstoned", "erased"}]
    BY <1>0, <1>4, <1>5 DEF TypeOK
  <2>2. \A v \in Workers : /\ \A it \in worker'[v].items : it.id \in Ids
                           /\ Running(v)' => worker'[v].row.id \in Ids
    BY <1>0, <1>2, <1>3 DEF TypeOK, Running
  <2> QED BY <1>0, <1>1, <1>2, <2>1, <2>2 DEF TypeOK, Moves
<1>7. ErasedLast'
  <2>1. ASSUME NEW j \in Ids, account'[outbox[j].subject] = "erased", Pending(j)
        PROVE  outbox[j].component = Identity
    <3>1. CASE account[outbox[j].subject] = "erased"
      BY <2>1, <3>1 DEF Inv, ErasedLast
    <3>2. CASE account[outbox[j].subject] # "erased"
      <4>1. outbox[j].subject = outbox[i].subject /\ ~Waiting(outbox[i].subject)
        BY <1>0, <1>4, <1>5, <2>1, <3>2, TypeFacts DEF TypeOK
      <4> QED BY <2>1, <4>1 DEF Waiting
    <3> QED BY <3>1, <3>2
  <2> QED BY <1>1, <2>1 DEF ErasedLast, Pending, Identity
<1>8. DoneDelivered'
  BY <1>1, <1>2 DEF Inv, DoneDelivered
<1>9. BookedDelivered'
  BY <1>2, <1>3 DEF Inv, BookedDelivered
<1>10. RunningClaimed' /\ OneGoroutinePerRow'
  BY <1>0, <1>1, <1>2, <1>3, SMTT(30) DEF Inv, RunningClaimed, OneGoroutinePerRow, Running
<1> QED
  BY <1>6, <1>7, <1>8, <1>9, <1>10 DEF Inv

\* A worker is done with its row: no other worker of the process ran it.
LEMMA ReleaseStep ==
    ASSUME Inv, NEW w \in Workers, worker[w].pc = "book", RowsKept, Released(w)
    PROVE  Inv'
<1> DEFINE r == [worker[w] EXCEPT !.pc = "next", !.row = NoItem, !.ok = FALSE]
<1>0. TypeOK /\ Running(w) /\ w[1] \in Process
  BY TypeFacts DEF Inv, Running
<1>1. /\ worker' = [worker EXCEPT ![w] = r]
      /\ inflight' = [inflight EXCEPT ![w[1]] = inflight[w[1]] \ {worker[w].row.id}]
      /\ UNCHANGED <<account, mutations, crashes, erasures, delivered>>
  BY DEF Released
<1>2. r \in Worker /\ r.pc = "next" /\ r.items = worker[w].items
  BY <1>0, TypeFacts, RestingWorker DEF Worker
<1> HIDE DEF r
<1>3. Moves(w) /\ worker'[w] = r
  BY <1>0, <1>1, <1>2 DEF Moves, TypeOK
<1>4. \A it \in worker'[w].items : it.id \in Ids
  BY <1>0, <1>2, <1>3 DEF TypeOK
<1>5. inflight' \in [Process -> SUBSET Ids]
  BY <1>0, <1>1 DEF TypeOK
<1>6. ASSUME NEW v \in Workers, v # w, Running(v)
      PROVE  worker[v].row.id \in inflight'[v[1]]
  <2>1. worker[v].row.id \in inflight[v[1]] /\ v[1] \in Process
    BY <1>0, <1>6, TypeFacts DEF Inv, RunningClaimed
  <2>2. v[1] = w[1] => worker[v].row.id # worker[w].row.id
    BY <1>0, <1>6 DEF Inv, OneGoroutinePerRow
  <2> QED BY <1>0, <1>1, <2>1, <2>2 DEF TypeOK
<1> QED
  BY <1>1, <1>2, <1>3, <1>4, <1>5, <1>6, RestStep

\* One row is replaced by one of the same subject and component.
LEMMA RowReplaced ==
    ASSUME TypeOK, NEW i \in Ids, NEW r \in Row,
           outbox' = [outbox EXCEPT ![i] = r],
           r.subject = outbox[i].subject, r.component = outbox[i].component,
           r.status = "pending" => outbox[i].status = "pending",
           r.status = "done" => outbox[i].status = "done" \/ i \in delivered
    PROVE  RowsKept
<1>1. outbox \in Seq(Row) /\ i \in 1 .. Len(outbox)
  BY DEF TypeOK, Ids
<1>2. outbox' \in Seq(Row) /\ Len(outbox') = Len(outbox) /\ outbox'[i] = r
  BY <1>1, SMTT(30)
<1>3. \A j \in Ids : j # i => outbox'[j] = outbox[j]
  BY <1>1, SMTT(30) DEF Ids
<1> QED
  BY <1>2, <1>3 DEF RowsKept

\* Acknowledging, failing to acknowledge and putting off a row keep it.
LEMMA BookStep ==
    ASSUME Inv, NEW w \in Workers, Ack(w) \/ AckFail(w) \/ Defer(w)
    PROVE  Inv'
<1> DEFINE i == worker[w].row.id
<1>0. TypeOK /\ worker[w].pc = "book" /\ Released(w) /\ i \in Ids
  BY DEF Inv, TypeOK, Ack, AckFail, Defer, Running
<1>1. outbox[i] \in Row
  BY <1>0, TypeFacts
<1>2. CASE outbox' = outbox
  BY <1>0, <1>2, RowsSame, ReleaseStep
<1>3. CASE Ack(w) /\ outbox' # outbox
  <2> DEFINE r == [outbox[i] EXCEPT !.status = "done", !.wait = Retention]
  <2>1. outbox' = [outbox EXCEPT ![i] = r]
    BY <1>3 DEF Ack, AckOutbox
  <2>2. r \in Row /\ r.subject = outbox[i].subject /\ r.component = outbox[i].component /\ r.status = "done"
    BY <1>1, TimesAssumption DEF Row
  <2>3. i \in delivered
    BY <1>0, <1>3 DEF Ack, Inv, BookedDelivered
  <2> HIDE DEF r
  <2>4. RowsKept
    BY <1>0, <2>1, <2>2, <2>3, RowReplaced
  <2> QED BY <1>0, <2>4, ReleaseStep
<1>4. CASE Defer(w) /\ outbox' # outbox
  <2> DEFINE n == IF outbox[i].attempts < MaxAttempts THEN outbox[i].attempts + 1 ELSE MaxAttempts
             b == Backoff(worker[w].row.attempts)
             r == [outbox[i] EXCEPT !.attempts = n, !.wait = b]
  <2>1. outbox' = [outbox EXCEPT ![i] = r]
    BY <1>4 DEF Defer, FailOutbox
  <2>2. n \in 0 .. MaxAttempts
    <3>1. outbox[i].attempts \in 0 .. MaxAttempts /\ MaxAttempts \in Nat
      BY <1>0, TypeFacts, BoundsAssumption
    <3> QED BY <3>1, SMTT(30)
  <2>3. b \in Nat
    <3>1. worker[w].row.attempts \in 0 .. MaxAttempts
      BY <1>0, TypeFacts DEF Item
    <3> QED BY <3>1, BackoffNat
  <2> HIDE DEF n, b
  <2>4. /\ r \in Row /\ r.subject = outbox[i].subject /\ r.component = outbox[i].component
        /\ r.status = outbox[i].status
    BY <1>1, <2>2, <2>3 DEF Row
  <2>5. r.status = "done" => outbox[i].status = "done" \/ i \in delivered
    BY <2>4
  <2> HIDE DEF r
  <2>6. RowsKept
    BY <1>0, <2>1, <2>4, <2>5, RowReplaced
  <2> QED BY <1>0, <2>6, ReleaseStep
<1> QED
  BY <1>2, <1>3, <1>4 DEF AckFail

\* The reaper of finished rows keeps it.
LEMMA ReapStep ==
    ASSUME Inv, ReapExpired
    PROVE  Inv'
<1>0. TypeOK
  BY DEF Inv
<1>1. UNCHANGED <<account, mutations, worker, inflight, crashes, erasures, delivered>>
  BY DEF ReapExpired
<1>2. RowsKept
  <2>1. \A i \in Ids : [outbox[i] EXCEPT !.status = "gone"] \in Row
    BY <1>0, TypeFacts DEF Row
  <2>2. outbox' \in [1 .. Len(outbox) -> Row] /\ Len(outbox) \in Nat
    BY <1>0, <2>1, TypeFacts DEF ReapExpired, Ids
  <2>3. outbox' \in Seq(Row) /\ Len(outbox') = Len(outbox)
    BY <2>2, SMTT(30)
  <2>4. \A i \in Ids : /\ outbox'[i].subject = outbox[i].subject
                       /\ outbox'[i].component = outbox[i].component
                       /\ outbox'[i].status \in {outbox[i].status, "gone"}
    BY <1>0, TypeFacts DEF ReapExpired, Row
  <2> QED BY <2>3, <2>4 DEF RowsKept
<1>3. ErasedLast' /\ DoneDelivered' /\ Ids' = Ids
  BY <1>1, <1>2, RowsKeptInv
<1>4. TypeOK' /\ BookedDelivered' /\ RunningClaimed' /\ OneGoroutinePerRow'
  BY <1>0, <1>1, <1>2, <1>3
     DEF Inv, TypeOK, RowsKept, Running, BookedDelivered, RunningClaimed, OneGoroutinePerRow
<1> QED
  BY <1>3, <1>4 DEF Inv

\* The erasure of a tenant keeps it.
LEMMA EraseStep ==
    ASSUME Inv, NEW t \in Tenant, EraseTenant(t)
    PROVE  Inv'
<1>0. TypeOK
  BY DEF Inv
<1>1. UNCHANGED <<mutations, worker, inflight, crashes, delivered>>
  BY DEF EraseTenant
<1>2. account' \in [Subject -> {"active", "tombstoned", "erased"}] /\ erasures' \in Nat
  BY <1>0, SMTT(30) DEF EraseTenant, TypeOK
<1>3. /\ outbox' \in Seq(Row) /\ Ids' = Ids
      /\ \A i \in Ids : /\ outbox'[i].subject = outbox[i].subject
                        /\ outbox'[i].component = outbox[i].component
                        /\ outbox'[i].status \in {outbox[i].status, "gone"}
                        /\ TenantOf[outbox[i].subject] = t => outbox'[i].status = "gone"
  <2>1. \A i \in Ids : [outbox[i] EXCEPT !.status = "gone"] \in Row
    BY <1>0, TypeFacts DEF Row
  <2>2. outbox' \in [1 .. Len(outbox) -> Row] /\ Len(outbox) \in Nat
    BY <1>0, <2>1, TypeFacts DEF EraseTenant, Ids
  <2>3. outbox' \in Seq(Row) /\ Len(outbox') = Len(outbox)
    BY <2>2, SMTT(30)
  <2>4. \A i \in Ids : /\ outbox'[i].subject = outbox[i].subject
                       /\ outbox'[i].component = outbox[i].component
                       /\ outbox'[i].status \in {outbox[i].status, "gone"}
                       /\ TenantOf[outbox[i].subject] = t => outbox'[i].status = "gone"
    BY <1>0, TypeFacts DEF EraseTenant, Row
  <2> QED BY <2>3, <2>4 DEF Ids
<1>4. TypeOK'
  BY <1>0, <1>1, <1>2, <1>3 DEF TypeOK, Running
<1>5. ErasedLast'
  <2>1. ASSUME NEW i \in Ids, account'[outbox'[i].subject] = "erased", outbox'[i].status = "pending"
        PROVE  outbox'[i].component = Identity
    <3>1. outbox[i].status = "pending" /\ TenantOf[outbox[i].subject] # t /\ outbox'[i].subject = outbox[i].subject
      BY <1>3, <2>1
    <3>2. account[outbox[i].subject] = "erased"
      BY <1>0, <2>1, <3>1, TypeFacts DEF EraseTenant
    <3> QED BY <1>3, <3>1, <3>2 DEF Inv, ErasedLast, Pending
  <2> QED BY <1>3, <2>1 DEF ErasedLast, Pending, Identity
<1>6. DoneDelivered' /\ BookedDelivered' /\ RunningClaimed' /\ OneGoroutinePerRow'
  BY <1>1, <1>3 DEF Inv, DoneDelivered, Running, BookedDelivered, RunningClaimed, OneGoroutinePerRow
<1> QED
  BY <1>4, <1>5, <1>6 DEF Inv

\* The crash of a process keeps it: claims of the process end, rows stay.
LEMMA CrashStep ==
    ASSUME Inv, NEW p \in Process, Crash(p)
    PROVE  Inv'
<1>0. TypeOK
  BY DEF Inv
<1>1. UNCHANGED <<account, outbox, mutations, erasures, delivered>> /\ crashes' \in Nat
  BY <1>0, SMTT(30) DEF Crash, TypeOK
<1>2. ErasedLast' /\ DoneDelivered' /\ Ids' = Ids
  BY <1>0, <1>1, RowsSame, RowsKeptInv
<1>3. /\ worker' \in [Workers -> Worker]
      /\ \A w \in Workers : /\ w[1] # p => worker'[w] = worker[w]
                            /\ w[1] = p => worker'[w].pc = "idle" /\ worker'[w].items = {}
  BY <1>0, RestingWorker, TypeFacts DEF Crash
<1>4. /\ inflight' \in [Process -> SUBSET Ids]
      /\ \A q \in Process : q # p => inflight'[q] = inflight[q]
  BY <1>0 DEF Crash, TypeOK
<1>5. TypeOK'
  BY <1>0, <1>1, <1>2, <1>3, <1>4 DEF TypeOK, Running
<1>6. BookedDelivered' /\ OneGoroutinePerRow'
  BY <1>1, <1>3, SMTT(30) DEF Inv, BookedDelivered, OneGoroutinePerRow, Running
<1>7. RunningClaimed'
  BY <1>0, <1>3, <1>4, TypeFacts, SMTT(30) DEF Inv, RunningClaimed, Running
<1> QED
  BY <1>2, <1>5, <1>6, <1>7 DEF Inv

\* A mutation that writes its row with its change keeps it.
LEMMA ApplyStep ==
    ASSUME Inv, NEW p \in Process, NEW s \in Subject, NEW e \in Event, Apply(p, s, e)
    PROVE  Inv'
<1> DEFINE w == <<p, "fast">>
           new == [c \in 1 .. Components |-> NewRow(s, e, c)]
           r == [pc |-> "next", items |-> NewItems, row |-> NoItem, elapsed |-> 0, ok |-> FALSE]
           n == Len(outbox)
<1>0. TypeOK /\ w \in Workers /\ Components \in Nat /\ n \in Nat /\ mutations \in Nat
  BY TypeFacts, ComponentsAssumption DEF Inv, Workers, TypeOK
<1>1. /\ outbox' = outbox \o new /\ worker' = [worker EXCEPT ![w] = r]
      /\ mutations' = mutations + 1 /\ account[s] = "active"
      /\ account' = [account EXCEPT ![s] = IF e = "delete" THEN "tombstoned" ELSE account[s]]
      /\ UNCHANGED <<inflight, crashes, erasures, delivered>>
  BY DEF Apply
<1>2. 0 \in 0 .. MaxAttempts /\ 0 \in 0 .. MaxAge /\ mutations + 1 \in Nat
  BY <1>0, TimesAssumption, BoundsAssumption, SMTT(30)
<1>3. \A c \in 1 .. Components : NewRow(s, e, c) \in Row /\ NewRow(s, e, c).subject = s /\ NewRow(s, e, c).status = "pending"
  BY <1>2 DEF NewRow, Row
<1>4. new \in Seq(Row) /\ Len(new) = Components
  BY <1>0, <1>3, SMTT(40)
<1>5. /\ outbox' \in Seq(Row) /\ Len(outbox') = n + Components
      /\ \A i \in 1 .. n : outbox'[i] = outbox[i]
      /\ \A i \in 1 .. n + Components : i \notin 1 .. n => outbox'[i] = new[i - n] /\ i - n \in 1 .. Components
  BY <1>0, <1>1, <1>4, SMTT(30) DEF TypeOK
<1> HIDE DEF new
<1>6. Ids = 1 .. n /\ Ids' = 1 .. n + Components /\ Ids \subseteq Ids'
  BY <1>0, <1>5, SMTT(30) DEF Ids
<1>7. \A i \in Ids' : i \notin Ids => outbox'[i].subject = s /\ outbox'[i].status = "pending"
  BY <1>3, <1>5, <1>6, ZenonT(40) DEF new
<1>8. r \in Worker /\ \A it \in NewItems : it.id \in Ids'
  <2>1. NewItems \subseteq Item /\ \A it \in NewItems : it.id \in Ids'
    BY <1>0, <1>2, <1>6, SMTT(30) DEF NewItems, Item
  <2> QED BY <2>1, RestingWorker DEF Worker
<1>9. /\ worker' \in [Workers -> Worker] /\ worker'[w] = r
      /\ \A v \in Workers : v # w => worker'[v] = worker[v]
  BY <1>0, <1>1, <1>8 DEF TypeOK
<1>10. worker'[w].pc = "next" /\ worker'[w].items = NewItems
  BY <1>9, SMTT(30)
<1> HIDE DEF r, w
<1>11. account' \in [Subject -> {"active", "tombstoned", "erased"}] /\ account'[s] # "erased"
  BY <1>0, <1>1 DEF TypeOK
<1>12. TypeOK'
  BY <1>0, <1>1, <1>2, <1>5, <1>6, <1>8, <1>9, <1>10, <1>11, SMTT(30) DEF TypeOK, Running
<1>13. ErasedLast'
  <2>1. ASSUME NEW i \in Ids', account'[outbox'[i].subject] = "erased", outbox'[i].status = "pending"
        PROVE  outbox'[i].component = Identity
    <3>1. i \in Ids /\ outbox'[i] = outbox[i]
      BY <1>5, <1>6, <1>7, <1>11, <2>1
    <3>2. account[outbox[i].subject] = "erased"
      BY <1>0, <1>1, <1>11, <2>1, <3>1, TypeFacts DEF TypeOK
    <3> QED BY <2>1, <3>1, <3>2 DEF Inv, ErasedLast, Pending
  <2> QED BY <2>1 DEF ErasedLast, Pending, Identity
<1>14. DoneDelivered'
  BY <1>1, <1>5, <1>6, <1>7 DEF Inv, DoneDelivered
<1>15. BookedDelivered' /\ RunningClaimed' /\ OneGoroutinePerRow'
  BY <1>1, <1>9, <1>10, SMTT(30) DEF Inv, BookedDelivered, RunningClaimed, OneGoroutinePerRow, Running
<1> QED
  BY <1>12, <1>13, <1>14, <1>15 DEF Inv

\* Every step keeps the invariant.
LEMMA StepInv ==
    ASSUME Inv, [Next]_vars
    PROVE  Inv'
<1>1. ASSUME NEW w \in Workers, Step(w)
      PROVE  Inv'
  BY <1>1, LoopStep, ClaimStep, DeliverStep, BookStep DEF Step
<1>2. CASE UNCHANGED vars
  BY <1>2 DEF vars, Inv, TypeOK, ErasedLast, DoneDelivered, BookedDelivered, RunningClaimed,
              OneGoroutinePerRow, Running, Ids, Pending
<1> QED
  BY <1>1, <1>2, TickStep, ReapStep, ApplyStep, RetryStep, CrashStep, EraseStep DEF Next

-----------------------------------------------------------------------------
\* The inductive invariant holds in every reachable state.
THEOREM Inductive == Spec => []Inv
BY InitInv, StepInv, PTL DEF Spec

\* Rows, workers and claims always have their types: a worker runs, and a process
\* claims, only rows that were written (TypeOK).
THEOREM TypeCorrect == Spec => []TypeOK
<1>1. Inv => TypeOK
  BY DEF Inv
<1> QED
  BY <1>1, Inductive, PTL

\* However many instances retry, crash and race, an account is hard-deleted only when
\* no other component has work left for it (EraseUser).
THEOREM AccountsGoLast == Spec => []ErasedLast
<1>1. Inv => ErasedLast
  BY DEF Inv
<1> QED
  BY <1>1, Inductive, PTL

\* No row is marked done before its subscriber was called with success (process).
THEOREM DoneWasDelivered == Spec => []DoneDelivered
<1>1. Inv => DoneDelivered
  BY DEF Inv
<1> QED
  BY <1>1, Inductive, PTL

\* The claims of a process keep its fast path and its passes off one another's rows
\* (claim, release).
THEOREM RowsRunOnce == Spec => []OneGoroutinePerRow
<1>1. Inv => OneGoroutinePerRow
  BY DEF Inv
<1> QED
  BY <1>1, Inductive, PTL

\* No step makes a finished row pending again.
LEMMA FinalStep ==
    ASSUME Inv, [Next]_vars, NEW i \in Ids
    PROVE  StaysFinished(i)
<1>0. TypeOK /\ outbox[i] \in Row /\ outbox[i].wait \in Nat /\ i \in 1 .. Len(outbox) /\ outbox \in Seq(Row)
  BY TypeFacts DEF Inv, TypeOK, Ids
<1>1. CASE outbox' = outbox
  BY <1>0, <1>1, SMTT(30) DEF StaysFinished, Pending
<1>2. CASE Tick
  <2>1. outbox'[i] = [outbox[i] EXCEPT
             !.wait = IF outbox[i].wait = 0 THEN 0 ELSE outbox[i].wait - 1,
             !.age = IF outbox[i].age = MaxAge THEN MaxAge ELSE outbox[i].age + 1]
    BY <1>2 DEF Tick
  <2>2. /\ outbox'[i].status = outbox[i].status /\ outbox'[i].attempts = outbox[i].attempts
        /\ outbox'[i].wait = IF outbox[i].wait = 0 THEN 0 ELSE outbox[i].wait - 1
    BY <1>0, <2>1 DEF Row
  <2> QED BY <1>0, <2>2, SMTT(30) DEF StaysFinished, Pending
<1>3. CASE ReapExpired
  <2>1. outbox'[i] \in {outbox[i], [outbox[i] EXCEPT !.status = "gone"]}
    BY <1>3 DEF ReapExpired
  <2>2. /\ outbox'[i].status \in {outbox[i].status, "gone"} /\ outbox'[i].attempts = outbox[i].attempts
        /\ outbox'[i].wait = outbox[i].wait
    BY <1>0, <2>1 DEF Row
  <2> QED BY <1>0, <2>2, SMTT(30) DEF StaysFinished, Pending
<1>4. ASSUME NEW t \in Tenant, EraseTenant(t)
      PROVE  StaysFinished(i)
  <2>1. outbox'[i] \in {outbox[i], [outbox[i] EXCEPT !.status = "gone"]}
    BY <1>4 DEF EraseTenant
  <2>2. /\ outbox'[i].status \in {outbox[i].status, "gone"} /\ outbox'[i].attempts = outbox[i].attempts
        /\ outbox'[i].wait = outbox[i].wait
    BY <1>0, <2>1 DEF Row
  <2> QED BY <1>0, <2>2, SMTT(30) DEF StaysFinished, Pending
<1>5. ASSUME NEW p \in Process, NEW s \in Subject, NEW e \in Event, Apply(p, s, e)
      PROVE  StaysFinished(i)
  <2> DEFINE new == [c \in 1 .. Components |-> NewRow(s, e, c)]
             S == {NewRow(s, e, c) : c \in 1 .. Components}
  <2>1. new \in Seq(S) /\ outbox' = outbox \o new
    <3>1. new \in [1 .. Components -> S] /\ Components \in Nat
      BY ComponentsAssumption
    <3> HIDE DEF S
    <3>2. new \in Seq(S)
      <4> HIDE DEF new
      <4> QED BY <3>1, SMTT(30)
    <3> QED BY <1>5, <3>2 DEF Apply
  <2> HIDE DEF S
  <2> HIDE DEF new
  <2>2. outbox'[i] = outbox[i]
    BY <1>0, <2>1, SMTT(30)
  <2> QED BY <1>0, <2>2, SMTT(30) DEF StaysFinished, Pending
<1>6. ASSUME NEW w \in Workers, Ack(w) \/ Defer(w)
      PROVE  StaysFinished(i)
  <2> DEFINE j == worker[w].row.id
  <2>1. ~Pending(j) => outbox' = outbox
    BY <1>6 DEF Ack, AckOutbox, Defer, FailOutbox
  <2>2. i # j => outbox'[i] = outbox[i]
    BY <1>0, <1>6, SMTT(40) DEF Ack, AckOutbox, Defer, FailOutbox
  <2> QED BY <1>0, <2>1, <2>2, SMTT(30) DEF StaysFinished, Pending
<1>7. ASSUME NEW w \in Workers, Step(w)
      PROVE  StaysFinished(i)
  BY <1>1, <1>6, <1>7 DEF Step, Skip, Cut, Claim, DeliverOk, DeliverFail, AckFail, Finish
<1> QED
  BY <1>1, <1>2, <1>3, <1>4, <1>5, <1>7 DEF Next, Retry, Crash, vars

\* A finished row is never put back nor kept longer by an instance that lost the race
\* for it (FailOutbox, AckOutbox).
THEOREM FinishedForGood == Spec => DoneIsFinal
<1>1. Inv /\ [Next]_vars => [\A i \in Ids : StaysFinished(i)]_vars
  BY FinalStep
<1> QED
  BY <1>1, Inductive, PTL DEF Spec, DoneIsFinal

-----------------------------------------------------------------------------
\* Readiness.

\* The process is the only instance.
Alone == \E p : Process = {p}

\* The fast path and the pass of an instance.
Fast(p) == <<p, "fast">>
Pass(p) == <<p, "pass">>

\* What the memory of the instances is about: rows of the outbox.
RTypeOK ==
    /\ DOMAIN failing = Process /\ DOMAIN batch = Process /\ DOMAIN saw = Process
    /\ \A p \in Process :
          /\ DOMAIN failing[p] \subseteq Ids
          /\ \A i \in DOMAIN failing[p] : failing[p][i] \in Int
          /\ saw[p] \subseteq Ids

\* Rows are numbered in the order of the mutations that wrote them.
RowOrder ==
    \A i \in Ids : /\ outbox[i].mutation <= mutations
                   /\ \A j \in Ids : i <= j => outbox[i].mutation <= outbox[j].mutation

\* A loop that has rows is going on, and runs a row once.
OncePerLoop ==
    \A w \in Workers : \A a \in worker[w].items :
        /\ worker[w].pc # "idle"
        /\ \A b \in worker[w].items : a.id = b.id => a = b
        /\ Running(w) => a.id # worker[w].row.id

\* While the fast path has time left, the rows it has not come to are as they were
\* written, and no pass runs one of them.
FastFirst(p) ==
    \A it \in worker[Fast(p)].items :
        /\ it.attempts = 0
        /\ worker[Fast(p)].elapsed < FastPathBudget =>
              /\ outbox[it.id].attempts = 0
              /\ outbox[it.id].age <= worker[Fast(p)].elapsed
              /\ Pending(it.id) => outbox[it.id].wait = 0
              /\ Running(Pass(p)) => worker[Pass(p)].row.id # it.id

\* The row the fast path runs was never deferred.
FastRun(p) ==
    Running(Fast(p)) =>
        /\ worker[Fast(p)].row.attempts = 0
        /\ Pending(worker[Fast(p)].row.id) => outbox[worker[Fast(p)].row.id].wait = 0

\* The rows a pass has read are still due, save those the fast path deferred for
\* the first time.
PassRead(p) ==
    \A it \in worker[Pass(p)].items :
        /\ outbox[it.id].attempts = 0 => it.attempts = 0
        /\ it.age <= outbox[it.id].age
        /\ Pending(it.id) => \/ outbox[it.id].wait = 0
                             \/ it.id \in DOMAIN failing[p] /\ outbox[it.id].wait <= Backoff(0)

\* The row a pass runs was deferred at most once since, by the fast path.
PassRun(p) ==
    Running(Pass(p)) /\ Pending(worker[Pass(p)].row.id) =>
        outbox[worker[Pass(p)].row.id].wait <= Backoff(0)

\* A failing row is due ForgetSlack after its recorded retry at the latest.
Deferred(p) ==
    \A i \in DOMAIN failing[p] :
        Pending(i) => outbox[i].wait = 0 \/ outbox[i].wait <= failing[p][i] + ForgetSlack

\* A failing row that the running pass did not read was not due for ForgetSlack when
\* the pass began, or is beyond its batch.
PassMet(p) ==
    worker[Pass(p)].pc # "idle" =>
        \A i \in DOMAIN failing[p] \ batch[p].seen :
            Pending(i) => \/ failing[p][i] >= -(worker[Pass(p)].elapsed) - ForgetSlack
                          \/ batch[p].full /\ ~(outbox[i].mutation < batch[p].horizon)

\* What an operator would report as failing is still remembered while it is pending.
SawFailing(p) == \A i \in saw[p] : Pending(i) => i \in DOMAIN failing[p]

\* What holds of the rows the loops of p have in hand, and of its memory.
Hands(p) == FastFirst(p) /\ FastRun(p) /\ PassRead(p) /\ PassRun(p)
Memory(p) == Deferred(p) /\ PassMet(p) /\ SawFailing(p)

\* The inductive invariant of the readiness of a single instance.
RInv ==
    /\ RTypeOK
    /\ RowOrder
    /\ OncePerLoop
    /\ \A p \in Process : Hands(p) /\ Memory(p)

\* The rows in X may be deferred; of the others nothing changes but that a row may
\* be finished.
QuietRows(X) ==
    /\ Ids' = Ids /\ mutations' = mutations
    /\ \A j \in Ids :
          /\ outbox'[j].mutation = outbox[j].mutation
          /\ outbox'[j].age = outbox[j].age
          /\ outbox'[j].attempts = 0 => outbox[j].attempts = 0
          /\ Pending(j)' => Pending(j)
          /\ j \notin X => /\ outbox'[j].attempts = outbox[j].attempts
                           /\ Pending(j)' => outbox'[j].wait = outbox[j].wait

\* The loop of w rests or has at most the rows it had.
Shrinks(w) ==
    \/ worker'[w] = Resting
    \/ /\ worker'[w].items \subseteq worker[w].items
       /\ worker'[w].elapsed = worker[w].elapsed
       /\ worker[w].pc = "idle" <=> worker'[w].pc = "idle"
       /\ Running(w)' => Running(w) /\ worker'[w].row = worker[w].row

\* The memory of p keeps the entries outside X, or loses them, and has recorded a
\* retry for the ones in X.
Remembers(p, X) ==
    /\ \A i \in DOMAIN failing'[p] :
          /\ i \notin X => i \in DOMAIN failing[p] /\ failing'[p][i] = failing[p][i]
          /\ i \in X => /\ failing'[p][i] \in Int /\ i \in Ids
                        /\ Pending(i)' => \/ outbox'[i].wait = 0
                                          \/ outbox'[i].wait <= failing'[p][i] + ForgetSlack
                        /\ worker'[Pass(p)].pc # "idle" =>
                              failing'[p][i] >= -(worker'[Pass(p)].elapsed) - ForgetSlack
    /\ \A i \in saw'[p] : i \in saw[p] \cup DOMAIN failing'[p]
    /\ \A i \in saw[p] : Pending(i)' /\ i \in DOMAIN failing[p] => i \in DOMAIN failing'[p]

\* The types of what a loop has in hand.
LEMMA HandFacts ==
    ASSUME TypeOK, NEW p \in Process
    PROVE  /\ Fast(p) \in Workers /\ Pass(p) \in Workers /\ Fast(p) # Pass(p)
           /\ \A i \in Ids : /\ i \in Nat
                             /\ outbox[i].wait \in Nat /\ outbox[i].age \in Nat
                             /\ outbox[i].attempts \in Nat /\ outbox[i].mutation \in Nat
           /\ \A w \in Workers :
                 /\ worker[w].elapsed \in Nat
                 /\ \A it \in worker[w].items : it.id \in Ids /\ it.attempts \in Nat /\ it.age \in Nat
                 /\ Running(w) => worker[w].row.id \in Ids
           /\ Backoff(0) \in Nat /\ ForgetSlack \in Nat /\ Backoff(0) <= ForgetSlack
<1>1. Fast(p) \in Workers /\ Pass(p) \in Workers /\ Fast(p) # Pass(p)
  BY DEF Fast, Pass, Workers
<1>2. MaxAttempts \in Nat /\ MaxAge \in Nat
  BY BoundsAssumption, TimesAssumption
<1>3. \A i \in Ids : outbox[i].mutation \in Nat /\ i \in Nat
  BY TypeFacts, SMTT(30) DEF Row, Ids
<1>4. \A i \in Ids : outbox[i].wait \in Nat /\ outbox[i].age \in Nat /\ outbox[i].attempts \in Nat
  BY <1>2, TypeFacts, SMTT(30)
<1>5. \A it \in Item : it.attempts \in Nat /\ it.age \in Nat
  BY <1>2, SMTT(30) DEF Item
<1>6. \A w \in Workers :
         /\ worker[w].elapsed \in Nat
         /\ \A it \in worker[w].items : it.id \in Ids /\ it.attempts \in Nat /\ it.age \in Nat
         /\ Running(w) => worker[w].row.id \in Ids
  BY <1>5, TypeFacts DEF TypeOK
<1>7. Backoff(0) \in Nat /\ ForgetSlack \in Nat /\ Backoff(0) <= ForgetSlack
  BY <1>2, BackoffNat, ReadinessAssumption, SMTT(30)
<1> QED
  BY <1>1, <1>3, <1>4, <1>6, <1>7

\* A loop that rests has no rows and runs none.
LEMMA RestingIdle ==
    ASSUME NEW w, worker'[w] = Resting
    PROVE  worker'[w].items = {} /\ worker'[w].pc = "idle" /\ ~Running(w)'
BY SMTT(30) DEF Resting, Running

\* Rows keep their order.
LEMMA QuietOrder ==
    ASSUME RowOrder, NEW X, QuietRows(X)
    PROVE  RowOrder'
BY SMTT(30) DEF RowOrder, QuietRows

\* A loop that only drops rows still has each of them once.
LEMMA ShrinkOnce ==
    ASSUME OncePerLoop, \A w \in Workers : Shrinks(w)
    PROVE  OncePerLoop'
<1> SUFFICES ASSUME NEW w \in Workers, NEW a \in worker'[w].items
             PROVE  /\ worker'[w].pc # "idle"
                    /\ \A b \in worker'[w].items : a.id = b.id => a = b
                    /\ Running(w)' => a.id # worker'[w].row.id
  BY DEF OncePerLoop
<1>1. /\ worker'[w].items \subseteq worker[w].items
      /\ worker[w].pc = "idle" <=> worker'[w].pc = "idle"
      /\ Running(w)' => Running(w) /\ worker'[w].row = worker[w].row
  BY RestingIdle DEF Shrinks
<1> QED
  BY <1>1 DEF OncePerLoop

\* A step that defers the rows in X, of which no loop has one left to run that it
\* could run unprepared.
LEMMA QuietHands ==
    ASSUME TypeOK, NEW p \in Process, Hands(p), NEW X, QuietRows(X),
           Shrinks(Fast(p)), Shrinks(Pass(p)),
           \A i \in DOMAIN failing[p] :
               i \in DOMAIN failing'[p] \/ ~Pending(i)' \/ worker'[Pass(p)] = Resting,
           \A it \in worker'[Fast(p)].items : it.id \in X => worker[Fast(p)].elapsed >= FastPathBudget,
           Running(Fast(p))' => worker'[Fast(p)].row.id \notin X,
           Running(Pass(p))' => worker'[Pass(p)].row.id \notin X,
           \A it \in worker'[Pass(p)].items :
               it.id \in X => it.id \in DOMAIN failing'[p] /\ outbox'[it.id].wait <= Backoff(0)
    PROVE  Hands(p)'
<1> DEFINE f == Fast(p)
           s == Pass(p)
<1>0. f \in Workers /\ s \in Workers
  BY HandFacts
<1>1. FastFirst(p)'
  <2> SUFFICES ASSUME NEW it \in worker'[f].items
               PROVE  /\ it.attempts = 0
                      /\ worker'[f].elapsed < FastPathBudget =>
                            /\ outbox'[it.id].attempts = 0
                            /\ outbox'[it.id].age <= worker'[f].elapsed
                            /\ Pending(it.id)' => outbox'[it.id].wait = 0
                            /\ Running(s)' => worker'[s].row.id # it.id
    BY DEF FastFirst
  <2>1. it \in worker[f].items /\ worker'[f].elapsed = worker[f].elapsed
    BY RestingIdle DEF Shrinks
  <2>2. it.id \in Ids /\ it.attempts = 0
    BY <1>0, <2>1, HandFacts DEF Hands, FastFirst
  <2>3. ASSUME worker'[f].elapsed < FastPathBudget
        PROVE  /\ outbox'[it.id].attempts = 0
               /\ outbox'[it.id].age <= worker'[f].elapsed
               /\ Pending(it.id)' => outbox'[it.id].wait = 0
               /\ Running(s)' => worker'[s].row.id # it.id
    <3>1. it.id \notin X
      <4>1. /\ worker[f].elapsed \in Nat /\ FastPathBudget \in Nat /\ worker[f].elapsed < FastPathBudget
            /\ it.id \in X => worker[f].elapsed >= FastPathBudget
        BY <1>0, <2>1, <2>3, HandFacts, TimesAssumption
      <4> QED BY <4>1, SMTT(30)
    <3>2. /\ outbox[it.id].attempts = 0
          /\ outbox[it.id].age <= worker[f].elapsed
          /\ Pending(it.id) => outbox[it.id].wait = 0
          /\ Running(s) => worker[s].row.id # it.id
      BY <2>1, <2>3 DEF Hands, FastFirst
    <3>3. Running(s)' => Running(s) /\ worker'[s].row = worker[s].row
      BY RestingIdle DEF Shrinks
    <3>4. /\ outbox'[it.id].attempts = outbox[it.id].attempts /\ outbox'[it.id].age = outbox[it.id].age
          /\ Pending(it.id)' => Pending(it.id) /\ outbox'[it.id].wait = outbox[it.id].wait
      BY <2>2, <3>1 DEF QuietRows
    <3> QED BY <2>1, <3>2, <3>3, <3>4
  <2> QED BY <2>2, <2>3
<1>2. FastRun(p)'
  <2> SUFFICES ASSUME Running(f)'
               PROVE  /\ worker'[f].row.attempts = 0
                      /\ Pending(worker[f].row.id)' => outbox'[worker'[f].row.id].wait = 0
    BY DEF FastRun
  <2>1. Running(f) /\ worker'[f].row = worker[f].row
    BY RestingIdle DEF Shrinks
  <2>2. worker[f].row.id \in Ids /\ worker[f].row.id \notin X
    BY <1>0, <2>1, HandFacts
  <2>3. worker[f].row.attempts = 0 /\ (Pending(worker[f].row.id) => outbox[worker[f].row.id].wait = 0)
    BY <2>1 DEF Hands, FastRun
  <2> QED BY <2>1, <2>2, <2>3 DEF QuietRows
<1>3. PassRead(p)'
  <2> SUFFICES ASSUME NEW it \in worker'[s].items
               PROVE  /\ outbox'[it.id].attempts = 0 => it.attempts = 0
                      /\ it.age <= outbox'[it.id].age
                      /\ Pending(it.id)' => \/ outbox'[it.id].wait = 0
                                            \/ /\ it.id \in DOMAIN failing'[p]
                                               /\ outbox'[it.id].wait <= Backoff(0)
    BY DEF PassRead
  <2>1. it \in worker[s].items /\ worker'[s] # Resting
    BY RestingIdle DEF Shrinks
  <2>2. it.id \in Ids /\ it.attempts \in Nat
    BY <1>0, <2>1, HandFacts
  <2>3. /\ outbox[it.id].attempts = 0 => it.attempts = 0
        /\ it.age <= outbox[it.id].age
        /\ Pending(it.id) => \/ outbox[it.id].wait = 0
                             \/ it.id \in DOMAIN failing[p] /\ outbox[it.id].wait <= Backoff(0)
    BY <2>1 DEF Hands, PassRead
  <2>4. outbox'[it.id].age = outbox[it.id].age /\ (outbox'[it.id].attempts = 0 => outbox[it.id].attempts = 0)
    BY <2>2 DEF QuietRows
  <2>6. ASSUME Pending(it.id)', it.id \notin X
        PROVE  \/ outbox'[it.id].wait = 0
               \/ it.id \in DOMAIN failing'[p] /\ outbox'[it.id].wait <= Backoff(0)
    <3>1. Pending(it.id) /\ outbox'[it.id].wait = outbox[it.id].wait
      BY <2>2, <2>6 DEF QuietRows
    <3>2. it.id \in DOMAIN failing[p] => it.id \in DOMAIN failing'[p]
      BY <2>1, <2>6
    <3> QED BY <2>3, <3>1, <3>2
  <2> QED BY <2>3, <2>4, <2>6
<1>4. PassRun(p)'
  <2> SUFFICES ASSUME Running(s)', Pending(worker[s].row.id)'
               PROVE  outbox'[worker'[s].row.id].wait <= Backoff(0)
    BY DEF PassRun
  <2>1. Running(s) /\ worker'[s].row = worker[s].row
    BY RestingIdle DEF Shrinks
  <2>2. worker[s].row.id \in Ids /\ worker[s].row.id \notin X
    BY <1>0, <2>1, HandFacts
  <2>3. Pending(worker[s].row.id) => outbox[worker[s].row.id].wait <= Backoff(0)
    BY <2>1 DEF Hands, PassRun
  <2> QED BY <2>1, <2>2, <2>3 DEF QuietRows
<1> QED
  BY <1>1, <1>2, <1>3, <1>4 DEF Hands

\* A loop that goes on was going on.
Continues(w) ==
    worker'[w].pc # "idle" => worker[w].pc # "idle" /\ worker'[w].elapsed = worker[w].elapsed

\* A loop that has at most its rows goes on with its time.
LEMMA ShrinksContinues ==
    ASSUME NEW w, Shrinks(w)
    PROVE  Continues(w)
BY RestingIdle DEF Shrinks, Continues

\* A step that defers the rows in X and records their retries.
LEMMA QuietMemory ==
    ASSUME RTypeOK, NEW p \in Process, Memory(p), NEW X, QuietRows(X), Continues(Pass(p)),
           Remembers(p, X), worker'[Pass(p)].pc # "idle" => batch'[p] = batch[p]
    PROVE  Memory(p)'
<1> DEFINE s == Pass(p)
<1>0. DOMAIN failing[p] \subseteq Ids
  BY DEF RTypeOK
<1>1. Deferred(p)'
  <2> SUFFICES ASSUME NEW i \in DOMAIN failing'[p], Pending(i)'
               PROVE  outbox'[i].wait = 0 \/ outbox'[i].wait <= failing'[p][i] + ForgetSlack
    BY DEF Deferred
  <2>1. CASE i \in X
    BY <2>1 DEF Remembers
  <2>2. CASE i \notin X
    <3>1. i \in DOMAIN failing[p] /\ failing'[p][i] = failing[p][i]
      BY <2>2 DEF Remembers
    <3>2. Pending(i) /\ outbox'[i].wait = outbox[i].wait
      BY <1>0, <2>2, <3>1 DEF QuietRows
    <3> QED BY <3>1, <3>2 DEF Memory, Deferred
  <2> QED BY <2>1, <2>2
<1>2. PassMet(p)'
  <2> SUFFICES ASSUME worker'[s].pc # "idle", NEW i \in DOMAIN failing'[p], i \notin batch'[p].seen, Pending(i)'
               PROVE  \/ failing'[p][i] >= -(worker'[s].elapsed) - ForgetSlack
                      \/ batch'[p].full /\ ~(outbox'[i].mutation < batch'[p].horizon)
    BY DEF PassMet
  <2>1. CASE i \in X
    BY <2>1 DEF Remembers
  <2>2. CASE i \notin X
    <3>1. i \in DOMAIN failing[p] /\ failing'[p][i] = failing[p][i]
      BY <2>2 DEF Remembers
    <3>2. Pending(i) /\ outbox'[i].mutation = outbox[i].mutation
      BY <1>0, <3>1 DEF QuietRows
    <3>3. worker[s].pc # "idle" /\ worker'[s].elapsed = worker[s].elapsed /\ batch'[p] = batch[p]
      BY DEF Continues
    <3> QED BY <3>1, <3>2, <3>3 DEF Memory, PassMet
  <2> QED BY <2>1, <2>2
<1>3. SawFailing(p)'
  <2> SUFFICES ASSUME NEW i \in saw'[p], Pending(i)', i \notin DOMAIN failing'[p]
               PROVE  FALSE
    BY DEF SawFailing
  <2>1. i \in saw[p] /\ i \in Ids
    BY DEF Remembers, RTypeOK
  <2>2. Pending(i)
    BY <2>1 DEF QuietRows
  <2> QED BY <2>1, <2>2 DEF Memory, SawFailing, Remembers
<1> QED
  BY <1>1, <1>2, <1>3 DEF Memory

\* The memory of processes keeps its type.
SameProcesses ==
    DOMAIN failing' = DOMAIN failing /\ DOMAIN batch' = DOMAIN batch /\ DOMAIN saw' = DOMAIN saw

\* So does a step that remembers as above.
LEMMA RememberedTypes ==
    ASSUME RTypeOK, Ids' = Ids, SameProcesses,
           NEW X, \A p \in Process : Remembers(p, X)
    PROVE  RTypeOK'
<1> SUFFICES ASSUME NEW p \in Process
             PROVE  /\ DOMAIN failing'[p] \subseteq Ids
                    /\ \A i \in DOMAIN failing'[p] : failing'[p][i] \in Int
                    /\ saw'[p] \subseteq Ids
  BY DEF RTypeOK, SameProcesses
<1>1. DOMAIN failing'[p] \subseteq Ids /\ \A i \in DOMAIN failing'[p] : failing'[p][i] \in Int
  BY DEF Remembers, RTypeOK
<1> QED
  BY <1>1 DEF Remembers, RTypeOK

\* Memory that is left alone remembers everything.
LEMMA Unforgotten ==
    ASSUME NEW p \in Process, failing'[p] = failing[p], saw'[p] = saw[p]
    PROVE  Remembers(p, {})
BY DEF Remembers

\* A step of the only process p that only takes rows from its loops.
LEMMA QuietStep ==
    ASSUME Alone, TypeOK, RInv, NEW p \in Process, NEW X, QuietRows(X), NEW Y, X \subseteq Y,
           \A w \in Workers : Shrinks(w),
           SameProcesses, Remembers(p, Y), worker'[Pass(p)].pc # "idle" => batch'[p] = batch[p],
           \A i \in DOMAIN failing[p] :
               i \in DOMAIN failing'[p] \/ ~Pending(i)' \/ worker'[Pass(p)] = Resting,
           \A it \in worker'[Fast(p)].items : it.id \in X => worker[Fast(p)].elapsed >= FastPathBudget,
           Running(Fast(p))' => worker'[Fast(p)].row.id \notin X,
           Running(Pass(p))' => worker'[Pass(p)].row.id \notin X,
           \A it \in worker'[Pass(p)].items :
               it.id \in X => it.id \in DOMAIN failing'[p] /\ outbox'[it.id].wait <= Backoff(0)
    PROVE  RInv'
<1>0. Fast(p) \in Workers /\ Pass(p) \in Workers
  BY HandFacts
<1>1. Shrinks(Fast(p)) /\ Shrinks(Pass(p)) /\ Continues(Pass(p))
  BY <1>0, ShrinksContinues
<1>2. RTypeOK /\ RowOrder /\ OncePerLoop /\ Hands(p) /\ Memory(p)
  BY DEF RInv
<1>3. Hands(p)'
  BY <1>1, <1>2, QuietHands
<1>4. Memory(p)'
  <2>1. QuietRows(Y)
    BY DEF QuietRows
  <2> QED BY <1>1, <1>2, <2>1, QuietMemory
<1>5. \A q \in Process : q = p
  BY DEF Alone
<1>6. RTypeOK'
  <2>1. Ids' = Ids
    BY DEF QuietRows
  <2> QED BY <1>2, <1>5, <2>1, RememberedTypes
<1>7. RowOrder'
  BY <1>2, QuietOrder
<1>8. OncePerLoop'
  BY <1>2, ShrinkOnce
<1> QED
  BY <1>3, <1>4, <1>5, <1>6, <1>7, <1>8 DEF RInv

\* The same where no row is deferred.
LEMMA EasyStep ==
    ASSUME Alone, TypeOK, RInv, NEW p \in Process, QuietRows({}),
           \A w \in Workers : Shrinks(w),
           SameProcesses, \E Y : Remembers(p, Y), worker'[Pass(p)].pc # "idle" => batch'[p] = batch[p],
           \A i \in DOMAIN failing[p] :
               i \in DOMAIN failing'[p] \/ ~Pending(i)' \/ worker'[Pass(p)] = Resting
    PROVE  RInv'
<1>1. PICK Y : Remembers(p, Y)
  OBVIOUS
<1> DEFINE X == {}
<1>2. QuietRows(X) /\ X \subseteq Y
  OBVIOUS
<1>3. \A it \in worker'[Fast(p)].items : it.id \in X => worker[Fast(p)].elapsed >= FastPathBudget
  OBVIOUS
<1>4. /\ Running(Fast(p))' => worker'[Fast(p)].row.id \notin X
      /\ Running(Pass(p))' => worker'[Pass(p)].row.id \notin X
  OBVIOUS
<1>5. \A it \in worker'[Pass(p)].items :
         it.id \in X => it.id \in DOMAIN failing'[p] /\ outbox'[it.id].wait <= Backoff(0)
  OBVIOUS
<1> HIDE DEF X
<1> QED
  BY <1>1, <1>2, <1>3, <1>4, <1>5, QuietStep

\* A worker is the fast path or the pass of its process.
LEMMA TwoLoops ==
    ASSUME NEW w \in Workers
    PROVE  w[1] \in Process /\ (w = Fast(w[1]) \/ w = Pass(w[1]))
BY SMTT(30) DEF Workers, Fast, Pass

\* One row is replaced.
LEMMA OneRow ==
    ASSUME TypeOK, NEW i \in Ids, NEW r, outbox' = [outbox EXCEPT ![i] = r]
    PROVE  Ids' = Ids /\ outbox'[i] = r /\ \A j \in Ids : j # i => outbox'[j] = outbox[j]
<1> DEFINE T == Row
<1>1. outbox \in Seq(T) /\ i \in 1 .. Len(outbox)
  BY DEF TypeOK, Ids
<1> HIDE DEF T
<1>2. /\ Len(outbox') = Len(outbox) /\ outbox'[i] = r
      /\ \A j \in 1 .. Len(outbox) : j # i => outbox'[j] = outbox[j]
  BY <1>1, SMTT(30)
<1> QED BY <1>2 DEF Ids

\* A step that leaves the outbox alone.
LEMMA RowsQuiet ==
    ASSUME outbox' = outbox, mutations' = mutations
    PROVE  QuietRows({})
BY DEF QuietRows, Ids, Pending

\* Worker w is set to r, which rests or has at most its rows.
LEMMA OneShrinks ==
    ASSUME TypeOK, NEW w \in Workers, NEW r, worker' = [worker EXCEPT ![w] = r],
           \/ r = Resting
           \/ /\ r.items \subseteq worker[w].items
              /\ r.elapsed = worker[w].elapsed
              /\ worker[w].pc # "idle" /\ r.pc # "idle"
              /\ r.pc \in {"deliver", "book"} => Running(w) /\ r.row = worker[w].row
    PROVE  /\ \A v \in Workers : Shrinks(v)
           /\ worker'[w] = r
           /\ \A v \in Workers : v # w => worker'[v] = worker[v]
<1>1. /\ worker'[w] = r
      /\ \A v \in Workers : v # w => worker'[v] = worker[v]
  BY DEF TypeOK
<1>2. ASSUME NEW v \in Workers PROVE Shrinks(v)
  BY <1>1 DEF Shrinks, Running
<1> QED
  BY <1>1, <1>2

\* A pass that meets a stale row puts it among the failing ones.
LEMMA WatchRemembers ==
    ASSUME TypeOK, RInv, NEW w \in Workers, NEW it \in worker[w].items, Watch(w, it),
           outbox' = outbox, Continues(Pass(w[1]))
    PROVE  /\ \E Y : Remembers(w[1], Y)
           /\ SameProcesses /\ batch' = batch
           /\ DOMAIN failing[w[1]] \subseteq DOMAIN failing'[w[1]]
<1> DEFINE p == w[1]
           i == it.id
           next == -(worker[w].elapsed)
           stale == w[2] = "pass" /\ it.age > StaleAfter
<1>0. p \in Process /\ Hands(p) /\ Memory(p) /\ RTypeOK /\ i \in Ids /\ worker[w].elapsed \in Nat
  BY TwoLoops, HandFacts DEF RInv
<1>1. /\ batch' = batch
      /\ failing' = IF stale /\ i \notin DOMAIN failing[p] THEN [failing EXCEPT ![p] = With(p, i, next)] ELSE failing
      /\ saw' = IF stale THEN [saw EXCEPT ![p] = saw[p] \cup {i}] ELSE saw
  BY DEF Watch
<1>2. p \in DOMAIN failing /\ p \in DOMAIN saw
  BY <1>0 DEF RTypeOK
<1>3. CASE ~stale
  <2>1. failing' = failing /\ saw' = saw
    BY <1>1, <1>3
  <2> QED BY <1>0, <1>1, <2>1, Unforgotten DEF SameProcesses
<1>4. CASE stale /\ i \in DOMAIN failing[p]
  <2>1. failing' = failing /\ saw' = [saw EXCEPT ![p] = saw[p] \cup {i}]
    BY <1>1, <1>4
  <2>2. saw'[p] = saw[p] \cup {i} /\ DOMAIN saw' = DOMAIN saw
    BY <1>2, <2>1
  <2>3. Remembers(p, {})
    BY <1>4, <2>1, <2>2 DEF Remembers
  <2> QED BY <1>1, <2>1, <2>2, <2>3 DEF SameProcesses
<1>5. CASE stale /\ i \notin DOMAIN failing[p]
  <2>1. failing' = [failing EXCEPT ![p] = With(p, i, next)] /\ saw' = [saw EXCEPT ![p] = saw[p] \cup {i}]
    BY <1>1, <1>5
  <2>2. failing'[p] = With(p, i, next) /\ saw'[p] = saw[p] \cup {i} /\ DOMAIN saw' = DOMAIN saw /\ DOMAIN failing' = DOMAIN failing
    BY <1>2, <2>1
  <2>3. /\ DOMAIN failing'[p] = DOMAIN failing[p] \cup {i} /\ failing'[p][i] = next
        /\ \A j \in DOMAIN failing[p] : j # i => failing'[p][j] = failing[p][j]
    BY <2>2 DEF With
  <2>4. w = Pass(p)
    BY <1>5, TwoLoops, SMTT(30) DEF Fast, Pass
  <2>5. Pending(i)' => outbox'[i].wait = 0
    BY <1>0, <1>5, <2>4 DEF Hands, PassRead, Pending
  <2>6. next \in Int /\ (worker'[Pass(p)].pc # "idle" => next >= -(worker'[Pass(p)].elapsed) - ForgetSlack)
    <3>1. worker'[Pass(p)].pc # "idle" => worker'[Pass(p)].elapsed = worker[w].elapsed
      BY <2>4 DEF Continues
    <3> QED BY <1>0, <3>1, ReadinessAssumption, SMTT(30)
  <2> HIDE DEF next
  <2>7. Remembers(p, {i})
    BY <1>0, <2>2, <2>3, <2>5, <2>6 DEF Remembers
  <2> QED BY <1>1, <2>2, <2>3, <2>7 DEF SameProcesses
<1> QED
  BY <1>3, <1>4, <1>5

\* A loop passes over a row, or ends before it.
LEMMA PassedOver ==
    ASSUME Alone, TypeOK, RInv, NEW w \in Workers, NEW it \in worker[w].items,
           Skip(w, it) \/ Cut(w, it), Watch(w, it)
    PROVE  RInv'
<1>1. outbox' = outbox /\ mutations' = mutations
  BY DEF Skip, Cut
<1>2. \A v \in Workers : Shrinks(v)
  <2>1. CASE Cut(w, it)
    BY <2>1, OneShrinks DEF Cut
  <2>2. CASE Skip(w, it)
    <3> DEFINE r == [worker[w] EXCEPT !.items = worker[w].items \ {it}]
    <3>1. r.items = worker[w].items \ {it} /\ r.elapsed = worker[w].elapsed /\ r.pc = worker[w].pc
      BY TypeFacts DEF Worker
    <3>2. worker' = [worker EXCEPT ![w] = r] /\ worker[w].pc = "next"
      BY <2>2 DEF Skip, At
    <3> HIDE DEF r
    <3>3. r.items \subseteq worker[w].items /\ worker[w].pc # "idle" /\ r.pc # "idle" /\ r.pc \notin {"deliver", "book"}
      BY <3>1, <3>2
    <3> QED BY <3>1, <3>2, <3>3, OneShrinks
  <2> QED BY <2>1, <2>2
<1>3. w[1] \in Process /\ Continues(Pass(w[1]))
  BY <1>2, TwoLoops, HandFacts, ShrinksContinues
<1>4. /\ \E Y : Remembers(w[1], Y)
      /\ SameProcesses /\ batch' = batch
      /\ DOMAIN failing[w[1]] \subseteq DOMAIN failing'[w[1]]
  BY <1>1, <1>3, WatchRemembers
<1>5. QuietRows({})
  BY <1>1, RowsQuiet
<1>6. \A i \in DOMAIN failing[w[1]] : i \in DOMAIN failing'[w[1]]
  BY <1>4
<1> QED
  BY <1>2, <1>3, <1>4, <1>5, <1>6, EasyStep

\* A loop claims a row.  A pass does not claim one that the fast path of its process
\* has yet to run: the row is younger than FastPathGrace and was never attempted.
LEMMA Claimed ==
    ASSUME Alone, TypeOK, RInv, NEW w \in Workers, NEW it \in worker[w].items,
           Claim(w, it), Watch(w, it)
    PROVE  RInv'
<1> DEFINE p == w[1]
           f == Fast(p)
           s == Pass(p)
           r == [worker[w] EXCEPT !.pc = "deliver", !.row = it, !.items = worker[w].items \ {it}]
<1>0. /\ p \in Process /\ Hands(p) /\ Memory(p) /\ RTypeOK /\ OncePerLoop /\ RowOrder
      /\ f \in Workers /\ s \in Workers /\ f # s /\ (w = f \/ w = s)
  BY TwoLoops, HandFacts DEF RInv
<1>1. /\ outbox' = outbox /\ mutations' = mutations /\ worker' = [worker EXCEPT ![w] = r]
      /\ worker[w].pc = "next" /\ worker[w].elapsed < Limit(w) /\ ~LeftToFastPath(w, it)
  BY DEF Claim, At
<1>2. r.pc = "deliver" /\ r.row = it /\ r.items = worker[w].items \ {it} /\ r.elapsed = worker[w].elapsed
  BY TypeFacts DEF Worker
<1> HIDE DEF r
<1>3. worker'[w] = r /\ \A v \in Workers : v # w => worker'[v] = worker[v]
  BY <1>1 DEF TypeOK
<1>4. Ids' = Ids /\ \A i : Pending(i)' <=> Pending(i)
  BY <1>1 DEF Ids, Pending
<1>5. Continues(s)
  BY <1>0, <1>1, <1>2, <1>3 DEF Continues
<1>6. /\ \E Y : Remembers(p, Y)
      /\ SameProcesses /\ batch' = batch
      /\ DOMAIN failing[p] \subseteq DOMAIN failing'[p]
  BY <1>1, <1>5, WatchRemembers
<1>7. PICK Y : Remembers(p, Y)
  BY <1>6
<1>8. Memory(p)'
  <2>1. QuietRows(Y)
    BY <1>1, RowsQuiet DEF QuietRows
  <2> QED BY <1>0, <1>5, <1>6, <1>7, <2>1, QuietMemory
<1>9. worker'[f].items \subseteq worker[f].items /\ worker'[s].items \subseteq worker[s].items
  BY <1>0, <1>2, <1>3
<1>10. /\ Running(w)' /\ worker'[w].row = it /\ ~Running(w)
       /\ \A v \in Workers : v # w => (Running(v)' <=> Running(v))
       /\ worker'[f].elapsed = worker[f].elapsed
  BY <1>0, <1>1, <1>2, <1>3 DEF Running
<1>11. FastFirst(p)'
  <2> SUFFICES ASSUME NEW o \in worker'[f].items
               PROVE  /\ o.attempts = 0
                      /\ worker[f].elapsed < FastPathBudget =>
                            /\ outbox[o.id].attempts = 0
                            /\ outbox[o.id].age <= worker[f].elapsed
                            /\ Pending(o.id) => outbox[o.id].wait = 0
                            /\ Running(s)' => worker'[s].row.id # o.id
    BY <1>1, <1>4, <1>10 DEF FastFirst
  <2>1. /\ o.attempts = 0 /\ o.id \in Ids
        /\ worker[f].elapsed < FastPathBudget =>
              /\ outbox[o.id].attempts = 0
              /\ outbox[o.id].age <= worker[f].elapsed
              /\ Pending(o.id) => outbox[o.id].wait = 0
              /\ Running(s) => worker[s].row.id # o.id
    BY <1>0, <1>9, HandFacts DEF Hands, FastFirst
  <2>2. CASE w = f
    BY <1>0, <1>3, <1>10, <2>1, <2>2
  <2>3. CASE w = s
    <3>1. ASSUME worker[f].elapsed < FastPathBudget, it.id = o.id
          PROVE  FALSE
      <4>1. it.attempts = 0 /\ it.age <= outbox[o.id].age /\ outbox[o.id].age <= worker[f].elapsed
        BY <1>0, <2>1, <2>3, <3>1 DEF Hands, PassRead
      <4>2. it.age \in Nat /\ outbox[o.id].age \in Nat /\ worker[f].elapsed \in Nat
        BY <1>0, <2>1, HandFacts
      <4>3. it.age < FastPathGrace
        BY <3>1, <4>1, <4>2, ReadinessAssumption, TimesAssumption, SMTT(30)
      <4>4. w[2] = "pass"
        BY <2>3, SMTT(30) DEF Pass
      <4> QED BY <1>1, <4>1, <4>3, <4>4 DEF LeftToFastPath
    <3> QED BY <1>10, <2>1, <2>3, <3>1
  <2> QED BY <1>0, <2>2, <2>3
<1>12. FastRun(p)'
  <2>1. CASE w = f
    <3>1. worker[f].elapsed < FastPathBudget
      BY <1>1, <2>1, SMTT(30) DEF Limit, Fast
    <3>2. it.attempts = 0 /\ (Pending(it.id) => outbox[it.id].wait = 0)
      BY <1>0, <2>1, <3>1 DEF Hands, FastFirst
    <3> QED BY <1>1, <1>4, <1>10, <2>1, <3>2 DEF FastRun
  <2>2. CASE w = s
    BY <1>0, <1>1, <1>3, <1>4, <1>10, <2>2 DEF Hands, FastRun
  <2> QED BY <1>0, <2>1, <2>2
<1>13. PassRead(p)'
  BY <1>0, <1>1, <1>4, <1>6, <1>9 DEF Hands, PassRead
<1>14. PassRun(p)'
  <2>1. CASE w = s
    <3>1. Pending(it.id) => outbox[it.id].wait = 0 \/ outbox[it.id].wait <= Backoff(0)
      BY <1>0, <2>1 DEF Hands, PassRead
    <3>2. Backoff(0) \in Nat
      BY <1>0, HandFacts
    <3>3. Pending(it.id) => outbox[it.id].wait <= Backoff(0)
      BY <3>1, <3>2, SMTT(30)
    <3> QED BY <1>1, <1>4, <1>10, <2>1, <3>3 DEF PassRun
  <2>2. CASE w = f
    BY <1>0, <1>1, <1>3, <1>4, <1>10, <2>2 DEF Hands, PassRun
  <2> QED BY <1>0, <2>1, <2>2
<1>15. OncePerLoop'
  <2> SUFFICES ASSUME NEW v \in Workers, NEW a \in worker'[v].items
               PROVE  /\ worker'[v].pc # "idle"
                      /\ \A b \in worker'[v].items : a.id = b.id => a = b
                      /\ Running(v)' => a.id # worker'[v].row.id
    BY DEF OncePerLoop
  <2>1. CASE v # w
    <3>1. worker'[v] = worker[v] /\ (Running(v)' => Running(v))
      BY <1>3, <1>10, <2>1
    <3> QED BY <1>0, <3>1 DEF OncePerLoop
  <2>2. CASE v = w
    <3>1. worker'[w].items = worker[w].items \ {it} /\ worker'[w].pc # "idle"
      BY <1>2, <1>3
    <3> QED BY <1>0, <1>10, <2>2, <3>1 DEF OncePerLoop
  <2> QED BY <2>1, <2>2
<1>16. \A q \in Process : q = p
  BY <1>0 DEF Alone
<1>17. RTypeOK'
  BY <1>0, <1>4, <1>6, <1>7, <1>16, RememberedTypes
<1>18. RowOrder'
  BY <1>0, <1>1, <1>4 DEF RowOrder
<1>19. Hands(p)'
  BY <1>11, <1>12, <1>13, <1>14 DEF Hands
<1> QED
  BY <1>8, <1>15, <1>16, <1>17, <1>18, <1>19 DEF RInv

\* A delivery changes neither rows nor memory.
LEMMA Delivered ==
    ASSUME Alone, TypeOK, RInv, NEW w \in Workers, DeliverOk(w) \/ DeliverFail(w), UNCHANGED rvars
    PROVE  RInv'
<1> DEFINE p == w[1]
<1>0. p \in Process
  BY TwoLoops
<1>1. outbox' = outbox /\ mutations' = mutations /\ failing' = failing /\ batch' = batch /\ saw' = saw
  BY DEF DeliverOk, DeliverFail, rvars
<1>2. ASSUME NEW b \in BOOLEAN, worker' = [worker EXCEPT ![w] = [worker[w] EXCEPT !.pc = "book", !.ok = b]],
             worker[w].pc = "deliver"
      PROVE  \A v \in Workers : Shrinks(v)
  <2> DEFINE r == [worker[w] EXCEPT !.pc = "book", !.ok = b]
  <2>1. r.items = worker[w].items /\ r.elapsed = worker[w].elapsed /\ r.row = worker[w].row /\ r.pc # "idle"
    BY TypeFacts, SMTT(30) DEF Worker
  <2>2. worker' = [worker EXCEPT ![w] = r] /\ Running(w) /\ worker[w].pc # "idle"
    BY <1>2 DEF Running
  <2> HIDE DEF r
  <2> QED BY <2>1, <2>2, OneShrinks
<1>3. \A v \in Workers : Shrinks(v)
  BY <1>2 DEF DeliverOk, DeliverFail
<1>4. QuietRows({}) /\ \E Y : Remembers(p, Y)
  BY <1>0, <1>1, RowsQuiet, Unforgotten
<1>5. SameProcesses
  BY <1>1 DEF SameProcesses
<1> QED
  BY <1>0, <1>1, <1>3, <1>4, <1>5, EasyStep

\* A loop ends.  What a pass forgets is not pending: it would have met the row.
LEMMA Finished ==
    ASSUME Alone, TypeOK, RInv, NEW w \in Workers, RFinish(w)
    PROVE  RInv'
<1> DEFINE p == w[1]
           s == Pass(p)
<1>0. p \in Process /\ (w = Fast(p) \/ w = s) /\ s \in Workers /\ Memory(p) /\ RTypeOK
  BY TwoLoops, HandFacts DEF RInv
<1>1. /\ outbox' = outbox /\ mutations' = mutations /\ saw' = saw
      /\ worker' = [worker EXCEPT ![w] = Resting] /\ worker[w].pc = "next"
  BY DEF RFinish, Finish
<1>2. (\A v \in Workers : Shrinks(v)) /\ worker'[w] = Resting
  BY <1>1, OneShrinks
<1>3. QuietRows({})
  BY <1>1, RowsQuiet
<1>4. CASE w[2] = "fast"
  <2>1. failing' = failing /\ batch' = batch
    BY <1>4 DEF RFinish
  <2>2. SameProcesses /\ \E Y : Remembers(p, Y)
    BY <1>0, <1>1, <2>1, Unforgotten DEF SameProcesses
  <2> QED BY <1>0, <1>2, <1>3, <2>1, <2>2, EasyStep
<1>5. CASE w[2] # "fast"
  <2>1. w = s
    BY <1>0, <1>5, SMTT(30) DEF Fast
  <2>2. /\ failing' = [failing EXCEPT ![p] = Without(p, ForgetDone(p))]
        /\ batch' = [batch EXCEPT ![p] = Unread]
    BY <1>5 DEF RFinish
  <2>3. p \in DOMAIN failing
    BY <1>0 DEF RTypeOK
  <2>4. failing'[p] = Without(p, ForgetDone(p)) /\ SameProcesses
    BY <1>1, <2>2, <2>3 DEF SameProcesses
  <2>5. /\ DOMAIN failing'[p] = DOMAIN failing[p] \ ForgetDone(p)
        /\ \A i \in DOMAIN failing'[p] : failing'[p][i] = failing[p][i]
    BY <2>4 DEF Without
  <2>6. ASSUME NEW i \in DOMAIN failing[p], Pending(i), i \in ForgetDone(p)
        PROVE  FALSE
    <3>1. /\ i \notin batch[p].seen
          /\ batch[p].full => outbox[i].mutation < batch[p].horizon
          /\ failing[p][i] < -(worker[s].elapsed) - ForgetSlack
      BY <2>6 DEF ForgetDone, Pass
    <3>2. failing[p][i] >= -(worker[s].elapsed) - ForgetSlack
      BY <1>0, <1>1, <2>1, <2>6, <3>1 DEF Memory, PassMet
    <3>3. failing[p][i] \in Int /\ worker[s].elapsed \in Nat /\ ForgetSlack \in Nat
      BY <1>0, <2>6, HandFacts DEF RTypeOK
    <3> QED BY <3>1, <3>2, <3>3, SMTT(30)
  <2>7. Remembers(p, {})
    <3>1. \A i : Pending(i)' <=> Pending(i)
      BY <1>1 DEF Pending
    <3> QED BY <1>1, <2>5, <2>6, <3>1 DEF Remembers
  <2>8. worker'[s] = Resting /\ worker'[s].pc = "idle"
    BY <1>2, <2>1, RestingIdle
  <2> QED BY <1>0, <1>2, <1>3, <2>4, <2>7, <2>8, EasyStep
<1> QED
  BY <1>4, <1>5, SMTT(30)

\* A worker that booked its row goes on without it.
LEMMA BookedShrinks ==
    ASSUME TypeOK, NEW w \in Workers, worker[w].pc = "book", Released(w)
    PROVE  /\ \A v \in Workers : Shrinks(v)
           /\ \A v \in Workers : v # w => worker'[v] = worker[v]
           /\ ~Running(w)' /\ worker'[w].items = worker[w].items
           /\ worker'[w].elapsed = worker[w].elapsed
<1> DEFINE r == [worker[w] EXCEPT !.pc = "next", !.row = NoItem, !.ok = FALSE]
<1>1. r.items = worker[w].items /\ r.elapsed = worker[w].elapsed /\ r.pc = "next"
  BY TypeFacts DEF Worker
<1>2. worker' = [worker EXCEPT ![w] = r] /\ worker[w].pc # "idle"
  BY DEF Released
<1> HIDE DEF r
<1>3. r.pc \notin {"deliver", "book"} /\ r.pc # "idle" /\ r.items \subseteq worker[w].items
  BY <1>1
<1>4. /\ \A v \in Workers : Shrinks(v)
      /\ worker'[w] = r
      /\ \A v \in Workers : v # w => worker'[v] = worker[v]
  BY <1>1, <1>2, <1>3, OneShrinks
<1> QED
  BY <1>1, <1>3, <1>4 DEF Running

\* track records when the row is due again.
LEMMA TrackRemembers ==
    ASSUME TypeOK, RTypeOK, NEW w \in Workers, NEW next \in Nat, Track(w, next),
           worker[w].row.id \in Ids, Continues(Pass(w[1])),
           outbox'[worker[w].row.id].status = "pending" =>
               outbox'[worker[w].row.id].wait <= next + ForgetSlack
    PROVE  /\ Remembers(w[1], {worker[w].row.id})
           /\ SameProcesses /\ batch' = batch
           /\ DOMAIN failing'[w[1]] = DOMAIN failing[w[1]] \cup {worker[w].row.id}
<1> DEFINE p == w[1]
           i == worker[w].row.id
<1>0. p \in Process /\ p \in DOMAIN failing /\ p \in DOMAIN saw
  BY TwoLoops DEF RTypeOK
<1>1. failing' = [failing EXCEPT ![p] = With(p, i, next)] /\ saw' = [saw EXCEPT ![p] = saw[p] \cup {i}] /\ batch' = batch
  BY DEF Track
<1>2. failing'[p] = With(p, i, next) /\ saw'[p] = saw[p] \cup {i} /\ SameProcesses
  BY <1>0, <1>1, SMTT(30) DEF SameProcesses
<1>3. /\ DOMAIN failing'[p] = DOMAIN failing[p] \cup {i} /\ failing'[p][i] = next
      /\ \A j \in DOMAIN failing[p] : j # i => failing'[p][j] = failing[p][j]
  BY <1>2 DEF With
<1>4. next \in Int /\ (worker'[Pass(p)].pc # "idle" => next >= -(worker'[Pass(p)].elapsed) - ForgetSlack)
  <2>1. worker'[Pass(p)].pc # "idle" => worker'[Pass(p)].elapsed \in Nat
    BY <1>0, HandFacts DEF Continues
  <2> QED BY <2>1, ReadinessAssumption, SMTT(30)
<1>5. Remembers(p, {i})
  BY <1>2, <1>3, <1>4 DEF Remembers, Pending
<1> QED
  BY <1>1, <1>2, <1>3, <1>5

\* A row that is acknowledged is no longer pending, whoever reads it.
LEMMA Acknowledged ==
    ASSUME Alone, TypeOK, RInv, NEW w \in Workers, Ack(w), Untrack(w)
    PROVE  RInv'
<1> DEFINE p == w[1]
           i == worker[w].row.id
<1>0. p \in Process /\ RTypeOK /\ p \in DOMAIN failing /\ p \in DOMAIN saw
  BY TwoLoops DEF RInv, RTypeOK
<1>1. outbox' = AckOutbox(i) /\ worker[w].pc = "book" /\ Released(w) /\ mutations' = mutations
  BY DEF Ack, Released
<1>2. i \in Ids /\ outbox[i] \in Row
  BY <1>1, TypeFacts DEF TypeOK, Running
<1>3. QuietRows({}) /\ outbox'[i].status # "pending"
  <2>1. CASE ~Pending(i)
    BY <1>1, <2>1, RowsQuiet DEF AckOutbox, Pending
  <2>2. CASE Pending(i)
    <3> DEFINE r == [outbox[i] EXCEPT !.status = "done", !.wait = Retention]
    <3>1. /\ r.status = "done" /\ r.mutation = outbox[i].mutation /\ r.age = outbox[i].age
          /\ r.attempts = outbox[i].attempts
      BY <1>2 DEF Row
    <3>2. outbox' = [outbox EXCEPT ![i] = r]
      BY <1>1, <2>2 DEF AckOutbox
    <3> HIDE DEF r
    <3>3. Ids' = Ids /\ outbox'[i] = r /\ \A j \in Ids : j # i => outbox'[j] = outbox[j]
      BY <1>2, <3>2, OneRow
    <3>4. "done" # "pending"
      BY SMTT(30)
    <3> QED BY <1>1, <3>1, <3>3, <3>4 DEF QuietRows, Pending
  <2> QED BY <2>1, <2>2
<1>4. \A v \in Workers : Shrinks(v)
  BY <1>1, BookedShrinks
<1>5. /\ failing' = [failing EXCEPT ![p] = Without(p, {i})]
      /\ saw' = [saw EXCEPT ![p] = saw[p] \ {i}] /\ batch' = batch
  BY DEF Untrack
<1>6. failing'[p] = Without(p, {i}) /\ saw'[p] = saw[p] \ {i} /\ SameProcesses
  BY <1>0, <1>5 DEF SameProcesses
<1>7. DOMAIN failing'[p] = DOMAIN failing[p] \ {i} /\ \A j \in DOMAIN failing'[p] : failing'[p][j] = failing[p][j]
  BY <1>6 DEF Without
<1>8. Remembers(p, {})
  BY <1>3, <1>6, <1>7 DEF Remembers, Pending
<1>9. \A j \in DOMAIN failing[p] : j \in DOMAIN failing'[p] \/ ~Pending(j)'
  BY <1>3, <1>7 DEF Pending
<1> QED
  BY <1>0, <1>3, <1>4, <1>5, <1>6, <1>8, <1>9, EasyStep

\* A row in the hands of a worker is due, or was deferred once.
LEMMA InHand ==
    ASSUME TypeOK, RInv, NEW w \in Workers, Running(w)
    PROVE  Pending(worker[w].row.id) => outbox[worker[w].row.id].wait <= Backoff(0)
<1> DEFINE p == w[1]
           i == worker[w].row.id
<1>0. p \in Process /\ Hands(p) /\ (w = Fast(p) \/ w = Pass(p)) /\ Backoff(0) \in Nat /\ i \in Ids
  BY TwoLoops, HandFacts DEF RInv
<1>1. CASE w = Pass(p)
  BY <1>0, <1>1 DEF Hands, PassRun
<1>2. CASE w = Fast(p)
  <2>1. Pending(i) => outbox[i].wait = 0
    BY <1>0, <1>2 DEF Hands, FastRun
  <2> QED BY <1>0, <2>1, SMTT(30)
<1> QED
  BY <1>0, <1>1, <1>2

\* An acknowledgement that fails leaves the row as it is.
LEMMA Unacknowledged ==
    ASSUME Alone, TypeOK, RInv, NEW w \in Workers, worker[w].pc = "book", Released(w),
           outbox' = outbox, NEW next \in Nat, Track(w, next)
    PROVE  RInv'
<1> DEFINE p == w[1]
           i == worker[w].row.id
<1>0. p \in Process /\ RTypeOK /\ Running(w) /\ i \in Ids /\ Pass(p) \in Workers
  BY TwoLoops, HandFacts DEF RInv, Running
<1>1. \A v \in Workers : Shrinks(v)
  BY BookedShrinks
<1>2. Continues(Pass(p))
  BY <1>0, <1>1, ShrinksContinues
<1>3. outbox'[i].status = "pending" => outbox'[i].wait <= next + ForgetSlack
  <2>1. Pending(i) => outbox[i].wait <= Backoff(0)
    BY <1>0, InHand
  <2>2. outbox[i].wait \in Nat /\ Backoff(0) \in Nat /\ ForgetSlack \in Nat /\ Backoff(0) <= ForgetSlack
    BY <1>0, HandFacts
  <2> QED BY <2>1, <2>2, SMTT(30) DEF Pending
<1>4. /\ Remembers(p, {i}) /\ SameProcesses /\ batch' = batch
      /\ DOMAIN failing'[p] = DOMAIN failing[p] \cup {i}
  BY <1>0, <1>2, <1>3, TrackRemembers
<1>5. QuietRows({})
  BY RowsQuiet DEF Released
<1>6. (\E Y : Remembers(p, Y)) /\ \A j \in DOMAIN failing[p] : j \in DOMAIN failing'[p]
  BY <1>4
<1> QED
  BY <1>0, <1>1, <1>4, <1>5, <1>6, EasyStep

\* A delivery that failed is tried again after its backoff; no other loop of the
\* process has the row in hand but a pass that read it before its first deferral.
LEMMA PutOff ==
    ASSUME Alone, Inv, RInv, NEW w \in Workers, Defer(w),
           Track(w, Backoff(worker[w].row.attempts))
    PROVE  RInv'
<1> DEFINE p == w[1]
           i == worker[w].row.id
           f == Fast(p)
           s == Pass(p)
           next == Backoff(worker[w].row.attempts)
<1>0. TypeOK /\ p \in Process /\ RTypeOK /\ OncePerLoop /\ Hands(p)
  BY TwoLoops DEF RInv, Inv
<1>1. /\ worker[w].pc = "book" /\ Released(w) /\ Running(w)
      /\ outbox' \in {outbox, FailOutbox(i, next)} /\ mutations' = mutations
  BY DEF Defer, Released, Running
<1>2. i \in Ids /\ s \in Workers /\ f \in Workers /\ f # s /\ (w = f \/ w = s) /\ outbox[i] \in Row
  BY <1>0, <1>1, TwoLoops, HandFacts, TypeFacts
<1>3. next \in Nat
  <2>1. worker[w].row.attempts \in 0 .. MaxAttempts
    BY <1>0, TypeFacts DEF Item
  <2> QED BY <2>1, BackoffNat
<1>4. CASE outbox' = outbox
  BY <1>0, <1>1, <1>3, <1>4, Unacknowledged
<1>5. CASE outbox' # outbox
  <2> DEFINE n == IF outbox[i].attempts < MaxAttempts THEN outbox[i].attempts + 1 ELSE MaxAttempts
             r == [outbox[i] EXCEPT !.attempts = n, !.wait = next]
             X == {i}
  <2>1. Pending(i) /\ outbox' = [outbox EXCEPT ![i] = r]
    BY <1>1, <1>5 DEF FailOutbox
  <2>2. n = 0 => outbox[i].attempts = 0
    <3>1. outbox[i].attempts \in 0 .. MaxAttempts /\ MaxAttempts \in Nat
      BY <1>0, <1>2, TypeFacts, BoundsAssumption
    <3> QED BY <3>1, SMTT(30)
  <2> HIDE DEF n, next
  <2>3. r.status = outbox[i].status /\ r.mutation = outbox[i].mutation /\ r.age = outbox[i].age /\ r.attempts = n /\ r.wait = next
    BY <1>2 DEF Row
  <2> HIDE DEF r
  <2>4. Ids' = Ids /\ outbox'[i] = r /\ \A j \in Ids : j # i => outbox'[j] = outbox[j]
    BY <1>0, <1>2, <2>1, OneRow
  <2>5. QuietRows(X)
    BY <1>1, <2>1, <2>2, <2>3, <2>4 DEF QuietRows, Pending
  <2>6. /\ \A v \in Workers : Shrinks(v)
        /\ \A v \in Workers : v # w => worker'[v] = worker[v]
        /\ ~Running(w)' /\ worker'[w].items = worker[w].items
        /\ worker'[w].elapsed = worker[w].elapsed
    BY <1>0, <1>1, BookedShrinks
  <2>7. Continues(s)
    BY <1>2, <2>6, ShrinksContinues
  <2>8. outbox'[i].wait <= next + ForgetSlack
    BY <1>3, <2>3, <2>4, ReadinessAssumption, SMTT(30)
  <2>9. /\ Remembers(p, X) /\ SameProcesses /\ batch' = batch
        /\ DOMAIN failing'[p] = DOMAIN failing[p] \cup {i}
    <3>1. Track(w, next)
      BY DEF next
    <3> QED BY <1>0, <1>2, <1>3, <2>7, <2>8, <3>1, TrackRemembers
  <2>10. \A it \in worker'[f].items : it.id \in X => worker[f].elapsed >= FastPathBudget
    <3> SUFFICES ASSUME NEW it \in worker'[f].items, it.id = i
                 PROVE  ~(worker[f].elapsed < FastPathBudget)
      <4>1. worker[f].elapsed \in Nat /\ FastPathBudget \in Nat
        BY <1>0, <1>2, HandFacts, TimesAssumption
      <4> QED BY <4>1, SMTT(30)
    <3>1. it \in worker[f].items
      BY <1>2, <2>6
    <3>2. CASE w = f
      BY <1>0, <1>1, <1>2, <3>1, <3>2 DEF OncePerLoop
    <3>3. CASE w = s
      BY <1>0, <1>1, <3>1, <3>3 DEF Hands, FastFirst
    <3> QED BY <1>2, <3>2, <3>3
  <2>11. \A v \in Workers : v[1] = p /\ Running(v)' => worker'[v].row.id \notin X
    <3> SUFFICES ASSUME NEW v \in Workers, v[1] = p, Running(v)'
                 PROVE  worker'[v].row.id # i
      OBVIOUS
    <3>1. v # w /\ worker'[v] = worker[v] /\ Running(v)
      BY <2>6 DEF Running
    <3> QED BY <1>1, <3>1 DEF Inv, OneGoroutinePerRow
  <2>12. f[1] = p /\ s[1] = p
    BY DEF Fast, Pass
  <2>13. \A it \in worker'[s].items :
            it.id \in X => it.id \in DOMAIN failing'[p] /\ outbox'[it.id].wait <= Backoff(0)
    <3> SUFFICES ASSUME NEW it \in worker'[s].items, it.id = i
                 PROVE  outbox'[i].wait <= Backoff(0)
      BY <2>9
    <3>1. it \in worker[s].items
      BY <1>2, <2>6
    <3>2. CASE w = s
      BY <1>0, <1>1, <1>2, <3>1, <3>2 DEF OncePerLoop
    <3>3. CASE w = f
      <4>1. next = Backoff(0)
        BY <1>0, <1>1, <3>3 DEF Hands, FastRun, next
      <4> QED BY <1>3, <2>3, <2>4, <4>1, SMTT(30)
    <3> QED BY <1>2, <3>2, <3>3
  <2>14. \A j \in DOMAIN failing[p] : j \in DOMAIN failing'[p]
    BY <2>9
  <2>15. X \subseteq X
    OBVIOUS
  <2> HIDE DEF X
  <2>16. /\ Running(f)' => worker'[f].row.id \notin X
         /\ Running(s)' => worker'[s].row.id \notin X
    BY <1>2, <2>11, <2>12
  <2> QED
    BY <1>0, <2>5, <2>6, <2>9, <2>10, <2>13, <2>14, <2>15, <2>16, QuietStep
<1> QED
  BY <1>4, <1>5

\* A step that leaves loops and memory alone.
LEMMA LeftAlone ==
    ASSUME Alone, TypeOK, RInv, QuietRows({}), worker' = worker, UNCHANGED rvars
    PROVE  RInv'
<1>1. PICK p : Process = {p}
  BY DEF Alone
<1>2. p \in Process /\ failing' = failing /\ batch' = batch /\ saw' = saw
  BY <1>1 DEF rvars
<1>3. \A w \in Workers : Shrinks(w)
  BY DEF Shrinks, Running
<1>4. SameProcesses /\ \E Y : Remembers(p, Y)
  BY <1>2, Unforgotten DEF SameProcesses
<1> QED
  BY <1>2, <1>3, <1>4, EasyStep

\* Rows of which some are gone and the others as they were.
LEMMA SomeGone ==
    ASSUME TypeOK, mutations' = mutations, NEW G,
           outbox' = [i \in Ids |-> IF i \in G THEN [outbox[i] EXCEPT !.status = "gone"] ELSE outbox[i]]
    PROVE  QuietRows({})
<1>1. \A i \in Ids : [outbox[i] EXCEPT !.status = "gone"] \in Row
  BY TypeFacts DEF Row
<1>2. outbox' \in [1 .. Len(outbox) -> Row] /\ Len(outbox) \in Nat
  BY <1>1, TypeFacts DEF Ids
<1>3. Ids' = Ids
  BY <1>2, SMTT(30) DEF Ids
<1>4. ASSUME NEW j \in Ids
      PROVE  /\ outbox'[j].mutation = outbox[j].mutation
             /\ outbox'[j].age = outbox[j].age
             /\ outbox'[j].attempts = outbox[j].attempts
             /\ outbox'[j].wait = outbox[j].wait
             /\ Pending(j)' => Pending(j)
  <2>1. outbox[j] \in Row
    BY TypeFacts
  <2>2. outbox'[j] = outbox[j] \/ outbox'[j] = [outbox[j] EXCEPT !.status = "gone"]
    BY <1>4
  <2> QED BY <2>1, <2>2 DEF Row, Pending
<1> QED
  BY <1>3, <1>4 DEF QuietRows

\* The reaper, and the erasure of a tenant.
LEMMA Removed ==
    ASSUME Alone, TypeOK, RInv, ReapExpired \/ \E t \in Tenant : EraseTenant(t), UNCHANGED rvars
    PROVE  RInv'
<1>1. CASE ReapExpired
  <2> DEFINE G == {i \in Ids : outbox[i].status = "done" /\ outbox[i].wait = 0}
  <2>1. outbox' = [i \in Ids |-> IF i \in G THEN [outbox[i] EXCEPT !.status = "gone"] ELSE outbox[i]]
    BY <1>1 DEF ReapExpired
  <2>2. mutations' = mutations /\ worker' = worker
    BY <1>1 DEF ReapExpired
  <2> HIDE DEF G
  <2>3. QuietRows({})
    BY <2>1, <2>2, SomeGone
  <2> QED BY <2>2, <2>3, LeftAlone
<1>2. ASSUME NEW t \in Tenant, EraseTenant(t)
      PROVE  RInv'
  <2> DEFINE G == {i \in Ids : TenantOf[outbox[i].subject] = t}
  <2>1. outbox' = [i \in Ids |-> IF i \in G THEN [outbox[i] EXCEPT !.status = "gone"] ELSE outbox[i]]
    BY <1>2 DEF EraseTenant
  <2>2. mutations' = mutations /\ worker' = worker
    BY <1>2 DEF EraseTenant
  <2> HIDE DEF G
  <2>3. QuietRows({})
    BY <2>1, <2>2, SomeGone
  <2> QED BY <2>2, <2>3, LeftAlone
<1> QED
  BY <1>1, <1>2

\* A crash empties the loops and the memory of the process.
LEMMA Crashed ==
    ASSUME Alone, TypeOK, RInv, NEW p \in Process, RCrash(p)
    PROVE  RInv'
<1>0. Process = {p} /\ RTypeOK /\ RowOrder
  BY DEF Alone, RInv
<1>1. /\ outbox' = outbox /\ mutations' = mutations
      /\ failing' = [failing EXCEPT ![p] = <<>>] /\ batch' = [batch EXCEPT ![p] = Unread]
      /\ saw' = [saw EXCEPT ![p] = {}]
      /\ worker' = [w \in Workers |-> IF w[1] = p THEN Resting ELSE worker[w]]
  BY DEF RCrash, Crash
<1>2. \A w \in Workers : worker'[w] = Resting
  <2>1. \A w \in Workers : w[1] = p
    BY <1>0 DEF Workers
  <2> QED BY <1>1, <2>1
<1>3. \A w \in Workers : worker'[w].items = {} /\ worker'[w].pc = "idle" /\ ~Running(w)'
  BY <1>2, RestingIdle
<1>4. p \in DOMAIN failing /\ p \in DOMAIN saw /\ SameProcesses
  BY <1>0, <1>1 DEF RTypeOK, SameProcesses
<1>5. failing'[p] = <<>> /\ saw'[p] = {}
  BY <1>1, <1>4
<1>6. DOMAIN failing'[p] = {}
  BY <1>5, SMTT(30)
<1>7. Fast(p) \in Workers /\ Pass(p) \in Workers
  BY HandFacts
<1>8. Hands(p)'
  BY <1>3, <1>7 DEF Hands, FastFirst, FastRun, PassRead, PassRun
<1>9. Memory(p)'
  BY <1>3, <1>5, <1>6, <1>7 DEF Memory, Deferred, PassMet, SawFailing
<1>10. RTypeOK'
  BY <1>0, <1>4, <1>5, <1>6 DEF RTypeOK, SameProcesses
<1>11. RowOrder'
  BY <1>0, <1>1 DEF RowOrder, Ids
<1>12. OncePerLoop'
  BY <1>3 DEF OncePerLoop
<1>13. \A q \in Process : Hands(q)' /\ Memory(q)'
  BY <1>0, <1>8, <1>9
<1> QED
  BY <1>10, <1>11, <1>12, <1>13 DEF RInv

\* What time does to rows, to loops and to the memory of failing rows.
LEMMA TimePasses ==
    ASSUME TypeOK, RTypeOK, RTick
    PROVE  /\ Ids' = Ids /\ mutations' = mutations /\ saw' = saw /\ batch' = batch
           /\ \A i \in Ids : /\ outbox'[i].status = outbox[i].status
                             /\ outbox'[i].mutation = outbox[i].mutation
                             /\ outbox'[i].attempts = outbox[i].attempts
                             /\ outbox'[i].wait = IF outbox[i].wait = 0 THEN 0 ELSE outbox[i].wait - 1
                             /\ outbox'[i].age = IF outbox[i].age = MaxAge THEN MaxAge ELSE outbox[i].age + 1
           /\ \A w \in Workers : /\ worker'[w].pc = worker[w].pc /\ worker'[w].items = worker[w].items
                                 /\ worker'[w].row = worker[w].row
                                 /\ worker[w].pc # "idle" => /\ worker[w].elapsed < Limit(w)
                                                             /\ worker'[w].elapsed = worker[w].elapsed + 1
           /\ DOMAIN failing' = DOMAIN failing
           /\ \A p \in Process :
                 /\ DOMAIN failing'[p] = DOMAIN failing[p]
                 /\ \A i \in DOMAIN failing[p] :
                       failing'[p][i] = IF failing[p][i] > Lowest THEN failing[p][i] - 1 ELSE Lowest
<1>1. /\ outbox' = [i \in Ids |->
            [outbox[i] EXCEPT !.wait = IF outbox[i].wait = 0 THEN 0 ELSE outbox[i].wait - 1,
                              !.age = IF outbox[i].age = MaxAge THEN MaxAge ELSE outbox[i].age + 1]]
      /\ worker' = [w \in Workers |->
            IF worker[w].pc = "idle" THEN worker[w]
            ELSE [worker[w] EXCEPT !.elapsed = worker[w].elapsed + 1]]
      /\ \A w \in Workers : worker[w].pc # "idle" => worker[w].elapsed < Limit(w)
      /\ mutations' = mutations /\ saw' = saw /\ batch' = batch
      /\ failing' = [p \in Process |-> [i \in DOMAIN failing[p] |->
                        IF failing[p][i] > Lowest THEN failing[p][i] - 1 ELSE Lowest]]
  BY DEF RTick, Tick
<1>2. Ids' = Ids
  <2>1. outbox' \in [1 .. Len(outbox) -> {outbox'[i] : i \in Ids}] /\ Len(outbox) \in Nat
    BY <1>1, TypeFacts DEF Ids
  <2>2. Len(outbox') = Len(outbox)
    BY <2>1, SMTT(30)
  <2> QED BY <2>2 DEF Ids
<1>3. ASSUME NEW i \in Ids
      PROVE  /\ outbox'[i].status = outbox[i].status
             /\ outbox'[i].mutation = outbox[i].mutation
             /\ outbox'[i].attempts = outbox[i].attempts
             /\ outbox'[i].wait = IF outbox[i].wait = 0 THEN 0 ELSE outbox[i].wait - 1
             /\ outbox'[i].age = IF outbox[i].age = MaxAge THEN MaxAge ELSE outbox[i].age + 1
  <2> DEFINE x == IF outbox[i].wait = 0 THEN 0 ELSE outbox[i].wait - 1
             y == IF outbox[i].age = MaxAge THEN MaxAge ELSE outbox[i].age + 1
  <2>1. outbox'[i] = [outbox[i] EXCEPT !.wait = x, !.age = y] /\ outbox[i] \in Row
    BY <1>1, <1>3, TypeFacts
  <2> HIDE DEF x, y
  <2>3. /\ outbox'[i].status = outbox[i].status /\ outbox'[i].mutation = outbox[i].mutation
        /\ outbox'[i].attempts = outbox[i].attempts /\ outbox'[i].wait = x /\ outbox'[i].age = y
    BY <2>1 DEF Row
  <2> QED BY <2>3 DEF x, y
<1>4. ASSUME NEW w \in Workers
      PROVE  /\ worker'[w].pc = worker[w].pc /\ worker'[w].items = worker[w].items
             /\ worker'[w].row = worker[w].row
             /\ worker[w].pc # "idle" => worker'[w].elapsed = worker[w].elapsed + 1
  <2>1. worker[w] \in Worker /\ (worker'[w] = worker[w] \/ worker'[w] = [worker[w] EXCEPT !.elapsed = worker[w].elapsed + 1])
    BY <1>1, TypeFacts
  <2>2. worker[w].pc # "idle" => worker'[w] = [worker[w] EXCEPT !.elapsed = worker[w].elapsed + 1]
    BY <1>1
  <2> QED BY <2>1, <2>2 DEF Worker
<1>5. /\ DOMAIN failing' = DOMAIN failing
      /\ \A p \in Process :
            /\ DOMAIN failing'[p] = DOMAIN failing[p]
            /\ \A i \in DOMAIN failing[p] :
                  failing'[p][i] = IF failing[p][i] > Lowest THEN failing[p][i] - 1 ELSE Lowest
  BY <1>1 DEF RTypeOK
<1> QED
  BY <1>1, <1>2, <1>3, <1>4, <1>5

\* The hands after a tick: a row that waits is due sooner, and a row in the hands of
\* the fast path ages no faster than the fast path.
LEMMA TickedHands ==
    ASSUME TypeOK, RTypeOK, OncePerLoop, NEW p \in Process, Hands(p), RTick
    PROVE  Hands(p)'
<1> DEFINE f == Fast(p)
           s == Pass(p)
<1>0. f \in Workers /\ s \in Workers
  BY HandFacts
<1>1. \A w \in Workers : /\ worker'[w].items = worker[w].items /\ worker'[w].row = worker[w].row
                         /\ Running(w)' <=> Running(w)
                         /\ \A it \in worker[w].items : it.id \in Ids
                         /\ Running(w) => worker[w].row.id \in Ids
  BY TimePasses, HandFacts DEF Running
<1>2. \A i \in Ids : /\ Pending(i)' <=> Pending(i)
                     /\ outbox'[i].attempts = outbox[i].attempts
                     /\ outbox[i].wait = 0 => outbox'[i].wait = 0
  BY TimePasses DEF Pending
<1>3. ASSUME NEW i \in Ids, outbox[i].wait <= Backoff(0)
      PROVE  outbox'[i].wait <= Backoff(0)
  <2>1. outbox'[i].wait = (IF outbox[i].wait = 0 THEN 0 ELSE outbox[i].wait - 1) /\ outbox[i].wait \in Nat /\ Backoff(0) \in Nat
    BY <1>3, TimePasses, HandFacts
  <2> QED BY <1>3, <2>1, SMTT(30)
<1>4. FastFirst(p)'
  <2> SUFFICES ASSUME NEW it \in worker[f].items
               PROVE  /\ it.attempts = 0
                      /\ worker'[f].elapsed < FastPathBudget =>
                            /\ outbox'[it.id].attempts = 0
                            /\ outbox'[it.id].age <= worker'[f].elapsed
                            /\ Pending(it.id)' => outbox'[it.id].wait = 0
                            /\ Running(s)' => worker'[s].row.id # it.id
    BY <1>0, <1>1 DEF FastFirst
  <2>1. it.id \in Ids /\ worker[f].pc # "idle"
    BY <1>0, <1>1 DEF OncePerLoop
  <2>2. /\ worker'[f].elapsed = worker[f].elapsed + 1
        /\ outbox'[it.id].age = IF outbox[it.id].age = MaxAge THEN MaxAge ELSE outbox[it.id].age + 1
    BY <1>0, <2>1, TimePasses
  <2>3. /\ worker[f].elapsed \in Nat /\ outbox[it.id].age \in Nat
        /\ FastPathBudget \in Nat /\ MaxAge \in Nat
    BY <1>0, <2>1, HandFacts, TimesAssumption
  <2>4. worker'[f].elapsed < FastPathBudget => worker[f].elapsed < FastPathBudget
    BY <2>2, <2>3, SMTT(30)
  <2>5. outbox[it.id].age <= worker[f].elapsed => outbox'[it.id].age <= worker'[f].elapsed
    BY <2>2, <2>3, SMTT(30)
  <2>6. /\ it.attempts = 0
        /\ worker[f].elapsed < FastPathBudget =>
              /\ outbox[it.id].attempts = 0
              /\ outbox[it.id].age <= worker[f].elapsed
              /\ Pending(it.id) => outbox[it.id].wait = 0
              /\ Running(s) => worker[s].row.id # it.id
    BY DEF Hands, FastFirst
  <2> QED BY <1>0, <1>1, <1>2, <2>1, <2>4, <2>5, <2>6
<1>5. FastRun(p)'
  BY <1>0, <1>1, <1>2 DEF Hands, FastRun
<1>6. PassRead(p)'
  <2> SUFFICES ASSUME NEW it \in worker[s].items
               PROVE  /\ outbox'[it.id].attempts = 0 => it.attempts = 0
                      /\ it.age <= outbox'[it.id].age
                      /\ Pending(it.id)' => \/ outbox'[it.id].wait = 0
                                            \/ /\ it.id \in DOMAIN failing'[p]
                                               /\ outbox'[it.id].wait <= Backoff(0)
    BY <1>0, <1>1 DEF PassRead
  <2>1. it.id \in Ids /\ DOMAIN failing'[p] = DOMAIN failing[p]
    BY <1>0, <1>1, TimePasses
  <2>2. /\ outbox[it.id].attempts = 0 => it.attempts = 0
        /\ it.age <= outbox[it.id].age
        /\ Pending(it.id) => \/ outbox[it.id].wait = 0
                             \/ it.id \in DOMAIN failing[p] /\ outbox[it.id].wait <= Backoff(0)
    BY DEF Hands, PassRead
  <2>3. it.age <= outbox'[it.id].age
    <3>1. outbox'[it.id].age = IF outbox[it.id].age = MaxAge THEN MaxAge ELSE outbox[it.id].age + 1
      BY <2>1, TimePasses
    <3>2. it.age \in Nat /\ outbox[it.id].age \in Nat
      BY <1>0, <2>1, HandFacts
    <3> QED BY <2>2, <3>1, <3>2, SMTT(30)
  <2> QED BY <1>2, <1>3, <2>1, <2>2, <2>3
<1>7. PassRun(p)'
  BY <1>0, <1>1, <1>2, <1>3 DEF Hands, PassRun
<1> QED
  BY <1>4, <1>5, <1>6, <1>7 DEF Hands

\* The memory after a tick.
LEMMA TickedMemory ==
    ASSUME TypeOK, RTypeOK, NEW p \in Process, Memory(p), RTick
    PROVE  Memory(p)'
<1> DEFINE s == Pass(p)
<1>0. s \in Workers /\ DOMAIN failing[p] \subseteq Ids /\ saw[p] \subseteq Ids
  BY HandFacts DEF RTypeOK
<1>1. /\ DOMAIN failing'[p] = DOMAIN failing[p] /\ saw' = saw /\ batch' = batch
      /\ \A i \in Ids : (Pending(i)' <=> Pending(i)) /\ outbox'[i].mutation = outbox[i].mutation
  BY TimePasses DEF Pending
<1>2. PassTimeout \in Nat /\ ForgetSlack \in Nat /\ worker[s].elapsed \in Nat
  BY <1>0, HandFacts, TimesAssumption
<1>3. ASSUME NEW i \in DOMAIN failing[p]
      PROVE  /\ failing[p][i] \in Int /\ outbox[i].wait \in Nat
             /\ failing'[p][i] = IF failing[p][i] > Lowest THEN failing[p][i] - 1 ELSE Lowest
             /\ outbox'[i].wait = IF outbox[i].wait = 0 THEN 0 ELSE outbox[i].wait - 1
  BY <1>0, <1>3, TimePasses, HandFacts DEF RTypeOK
<1>4. Deferred(p)'
  <2> SUFFICES ASSUME NEW i \in DOMAIN failing[p], Pending(i)
               PROVE  outbox'[i].wait = 0 \/ outbox'[i].wait <= failing'[p][i] + ForgetSlack
    BY <1>0, <1>1 DEF Deferred
  <2>1. outbox[i].wait = 0 \/ outbox[i].wait <= failing[p][i] + ForgetSlack
    BY DEF Memory, Deferred
  <2>2. CASE outbox[i].wait = 0
    BY <1>3, <2>2
  <2>3. CASE outbox[i].wait # 0
    <3> DEFINE d == failing[p][i]
               t == outbox[i].wait
    <3>1. /\ d \in Int /\ t \in Nat /\ t <= d + ForgetSlack /\ t # 0
          /\ failing'[p][i] = IF d > Lowest THEN d - 1 ELSE Lowest
          /\ outbox'[i].wait = t - 1
      BY <1>3, <2>1, <2>3
    <3> HIDE DEF d, t
    <3>2. ~(d > Lowest) => d + ForgetSlack < 0
      BY <1>2, <3>1, SMTT(30) DEF Lowest
    <3>3. d > Lowest /\ t - 1 <= (d - 1) + ForgetSlack
      BY <1>2, <3>1, <3>2, SMTT(30)
    <3> QED BY <3>1, <3>3
  <2> QED BY <2>2, <2>3
<1>5. PassMet(p)'
  <2> SUFFICES ASSUME worker'[s].pc # "idle", NEW i \in DOMAIN failing[p], i \notin batch[p].seen, Pending(i)
               PROVE  \/ failing'[p][i] >= -(worker'[s].elapsed) - ForgetSlack
                      \/ batch[p].full /\ ~(outbox'[i].mutation < batch[p].horizon)
    BY <1>0, <1>1 DEF PassMet
  <2>1. worker[s].pc # "idle" /\ worker[s].elapsed < PassTimeout /\ worker'[s].elapsed = worker[s].elapsed + 1
    <3>1. Limit(s) = PassTimeout
      BY DEF Limit, Pass
    <3> QED BY <1>0, <3>1, TimePasses
  <2>2. \/ failing[p][i] >= -(worker[s].elapsed) - ForgetSlack
        \/ batch[p].full /\ ~(outbox[i].mutation < batch[p].horizon)
    BY <2>1 DEF Memory, PassMet
  <2>3. CASE failing[p][i] >= -(worker[s].elapsed) - ForgetSlack
    BY <1>2, <1>3, <2>1, <2>3, SMTT(30) DEF Lowest
  <2>4. outbox'[i].mutation = outbox[i].mutation
    BY <1>0, <1>1
  <2> QED BY <2>2, <2>3, <2>4
<1>6. SawFailing(p)'
  BY <1>0, <1>1 DEF Memory, SawFailing
<1> QED
  BY <1>4, <1>5, <1>6 DEF Memory

\* Time passes.
LEMMA Ticked ==
    ASSUME TypeOK, RInv, RTick
    PROVE  RInv'
<1>0. RTypeOK /\ RowOrder /\ OncePerLoop /\ \A p \in Process : Hands(p) /\ Memory(p)
  BY DEF RInv
<1>1. \A p \in Process : Hands(p)' /\ Memory(p)'
  BY <1>0, TickedHands, TickedMemory
<1>2. RowOrder'
  BY <1>0, TimePasses DEF RowOrder
<1>3. OncePerLoop'
  <2>1. \A w \in Workers : /\ worker'[w].pc = worker[w].pc /\ worker'[w].items = worker[w].items
                           /\ worker'[w].row = worker[w].row /\ (Running(w)' <=> Running(w))
    BY <1>0, TimePasses DEF Running
  <2> QED BY <1>0, <2>1, ZenonT(40) DEF OncePerLoop
<1>4. RTypeOK'
  <2> SUFFICES ASSUME NEW p \in Process
               PROVE  /\ DOMAIN failing'[p] \subseteq Ids
                      /\ \A i \in DOMAIN failing'[p] : failing'[p][i] \in Int
                      /\ saw[p] \subseteq Ids
    BY <1>0, TimePasses DEF RTypeOK
  <2>1. DOMAIN failing'[p] = DOMAIN failing[p] /\ DOMAIN failing[p] \subseteq Ids /\ saw[p] \subseteq Ids
    BY <1>0, TimePasses DEF RTypeOK
  <2>2. ASSUME NEW i \in DOMAIN failing[p]
        PROVE  failing'[p][i] \in Int
    <3>1. failing[p][i] \in Int /\ failing'[p][i] = IF failing[p][i] > Lowest THEN failing[p][i] - 1 ELSE Lowest
      BY <1>0, <2>2, TimePasses DEF RTypeOK
    <3>2. Lowest \in Int
      BY TimesAssumption, ReadinessAssumption, SMTT(30) DEF Lowest
    <3> QED BY <3>1, <3>2, SMTT(30)
  <2> QED BY <2>1, <2>2
<1> QED
  BY <1>1, <1>2, <1>3, <1>4 DEF RInv

\* The rows a mutation writes come after the others, and are all its own.
LEMMA RowsWritten ==
    ASSUME TypeOK, NEW p \in Process, NEW s \in Subject, NEW e \in Event, Apply(p, s, e)
    PROVE  /\ Len(outbox) \in Nat /\ Ids = 1 .. Len(outbox) /\ Ids' = 1 .. Len(outbox) + Components
           /\ mutations' = mutations + 1
           /\ \A i \in Ids : i \in Ids' /\ outbox'[i] = outbox[i]
           /\ \A i \in Ids' : i \notin Ids =>
                 /\ outbox'[i].mutation = mutations + 1 /\ outbox'[i].attempts = 0
                 /\ outbox'[i].wait = 0 /\ outbox'[i].age = 0
<1> DEFINE n == Len(outbox)
           new == [c \in 1 .. Components |-> NewRow(s, e, c)]
<1>0. n \in Nat /\ Components \in Nat /\ outbox \in Seq(Row) /\ mutations \in Nat
  BY TypeFacts, ComponentsAssumption DEF TypeOK
<1>1. outbox' = outbox \o new /\ mutations' = mutations + 1
  BY DEF Apply
<1>2. 0 \in 0 .. MaxAttempts /\ 0 \in 0 .. MaxAge /\ mutations + 1 \in Nat
  BY <1>0, TimesAssumption, BoundsAssumption, SMTT(30)
<1>3. \A c \in 1 .. Components :
         /\ NewRow(s, e, c) \in Row
         /\ NewRow(s, e, c).mutation = mutations + 1 /\ NewRow(s, e, c).attempts = 0
         /\ NewRow(s, e, c).wait = 0 /\ NewRow(s, e, c).age = 0
  BY <1>2 DEF NewRow, Row
<1>4. new \in Seq(Row) /\ Len(new) = Components
  BY <1>0, <1>3, SMTT(40)
<1>5. /\ Len(outbox') = n + Components
      /\ \A i \in 1 .. n : outbox'[i] = outbox[i]
      /\ \A i \in 1 .. n + Components : i \notin 1 .. n => outbox'[i] = new[i - n] /\ i - n \in 1 .. Components
  BY <1>0, <1>1, <1>4, SMTT(30)
<1>6. Ids = 1 .. n /\ Ids' = 1 .. n + Components /\ \A i \in Ids : i \in Ids'
  BY <1>0, <1>5, SMTT(30) DEF Ids
<1>7. \A c \in 1 .. Components : new[c] = NewRow(s, e, c)
  OBVIOUS
<1> HIDE DEF new
<1>8. ASSUME NEW i \in Ids', i \notin Ids
      PROVE  /\ outbox'[i].mutation = mutations + 1 /\ outbox'[i].attempts = 0
             /\ outbox'[i].wait = 0 /\ outbox'[i].age = 0
  <2>1. outbox'[i] = new[i - n] /\ i - n \in 1 .. Components
    BY <1>5, <1>6, <1>8
  <2> QED BY <1>3, <1>7, <2>1
<1> QED
  BY <1>0, <1>1, <1>5, <1>6, <1>8

\* The rows of a mutation are the latest.
LEMMA WrittenOrder ==
    ASSUME TypeOK, RowOrder, NEW p \in Process, NEW s \in Subject, NEW e \in Event, Apply(p, s, e)
    PROVE  RowOrder'
<1>0. mutations \in Nat /\ Components \in Nat /\ \A i \in Ids : outbox[i].mutation \in Nat
  BY HandFacts, ComponentsAssumption DEF TypeOK
<1>1. mutations' = mutations + 1
  BY RowsWritten
<1>2. ASSUME NEW i \in Ids'
      PROVE  /\ outbox'[i].mutation \in Nat /\ outbox'[i].mutation <= mutations + 1
             /\ i \in Ids => outbox'[i].mutation = outbox[i].mutation /\ outbox[i].mutation <= mutations
             /\ i \notin Ids => outbox'[i].mutation = mutations + 1
  <2>1. CASE i \in Ids
    <3>1. outbox'[i] = outbox[i] /\ outbox[i].mutation <= mutations
      BY <2>1, RowsWritten DEF RowOrder
    <3> QED BY <1>0, <2>1, <3>1, SMTT(30)
  <2>2. CASE i \notin Ids
    <3>1. outbox'[i].mutation = mutations + 1
      BY <1>2, <2>2, RowsWritten
    <3> QED BY <1>0, <2>2, <3>1, SMTT(30)
  <2> QED BY <2>1, <2>2
<1>3. ASSUME NEW i \in Ids', NEW j \in Ids', i <= j
      PROVE  outbox'[i].mutation <= outbox'[j].mutation
  <2>1. CASE j \notin Ids
    BY <1>2, <2>1
  <2>2. CASE j \in Ids
    <3>1. i \in Ids
      <4>1. Len(outbox) \in Nat /\ Ids = 1 .. Len(outbox) /\ Ids' = 1 .. Len(outbox) + Components
        BY RowsWritten
      <4>2. i \in 1 .. Len(outbox) + Components /\ j \in 1 .. Len(outbox)
        BY <1>3, <2>2, <4>1
      <4>3. i \in 1 .. Len(outbox)
        BY <1>0, <1>3, <4>1, <4>2, SMTT(30)
      <4> QED BY <4>1, <4>3
    <3> QED BY <1>2, <1>3, <2>2, <3>1 DEF RowOrder
  <2> QED BY <2>1, <2>2
<1> QED
  BY <1>1, <1>2, <1>3 DEF RowOrder

\* The fast path begins with the rows of its mutation.
LEMMA Applied ==
    ASSUME Alone, TypeOK, RInv, NEW p \in Process, NEW s \in Subject, NEW e \in Event,
           Apply(p, s, e), UNCHANGED rvars
    PROVE  RInv'
<1> DEFINE f == Fast(p)
           v == Pass(p)
           r == [pc |-> "next", items |-> NewItems, row |-> NoItem, elapsed |-> 0, ok |-> FALSE]
<1>0. /\ Process = {p} /\ RTypeOK /\ RowOrder /\ OncePerLoop /\ Hands(p) /\ Memory(p)
      /\ f \in Workers /\ v \in Workers /\ f # v
  BY HandFacts DEF Alone, RInv
<1>1. /\ worker' = [worker EXCEPT ![f] = r]
      /\ failing' = failing /\ saw' = saw /\ batch' = batch
  BY DEF Apply, rvars, Fast
<1>2. r.pc = "next" /\ r.items = NewItems /\ r.elapsed = 0
  OBVIOUS
<1> HIDE DEF r
<1>3. worker'[f] = r /\ \A w \in Workers : w # f => worker'[w] = worker[w]
  BY <1>0, <1>1 DEF TypeOK
<1>4. ~Running(f)' /\ \A w \in Workers : w # f => (Running(w)' <=> Running(w))
  BY <1>2, <1>3 DEF Running
<1>5. \A i \in Ids : i \in Ids' /\ outbox'[i] = outbox[i] /\ (Pending(i)' <=> Pending(i))
  BY RowsWritten DEF Pending
<1>6. ASSUME NEW it \in NewItems
      PROVE  it.id \in Ids' /\ it.id \notin Ids /\ it.attempts = 0 /\ it = [id |-> it.id, attempts |-> 0, age |-> 0]
  <2>1. Len(outbox) \in Nat /\ Ids = 1 .. Len(outbox) /\ Ids' = 1 .. Len(outbox) + Components
    BY RowsWritten
  <2>2. it.id \in Len(outbox) + 1 .. Len(outbox) + Components /\ it.attempts = 0 /\ it = [id |-> it.id, attempts |-> 0, age |-> 0]
    BY <1>6, SMTT(30) DEF NewItems
  <2>3. it.id \in 1 .. Len(outbox) + Components /\ it.id \notin 1 .. Len(outbox)
    BY <2>1, <2>2, ComponentsAssumption, SMTT(30)
  <2> QED BY <2>1, <2>2, <2>3
<1>7. FastFirst(p)'
  <2> SUFFICES ASSUME NEW it \in NewItems
               PROVE  /\ it.attempts = 0
                      /\ outbox'[it.id].attempts = 0
                      /\ outbox'[it.id].age <= 0
                      /\ outbox'[it.id].wait = 0
                      /\ Running(v) => worker[v].row.id # it.id
    BY <1>0, <1>2, <1>3, <1>4 DEF FastFirst
  <2>1. outbox'[it.id].attempts = 0 /\ outbox'[it.id].age = 0 /\ outbox'[it.id].wait = 0
    BY <1>6, RowsWritten
  <2>2. Running(v) => worker[v].row.id \in Ids
    BY <1>0, HandFacts
  <2>3. 0 <= 0
    BY SMTT(30)
  <2> QED BY <1>6, <2>1, <2>2, <2>3
<1>8. FastRun(p)'
  BY <1>4 DEF FastRun
<1>9. worker'[v] = worker[v] /\ (Running(v)' <=> Running(v)) /\ (\A it \in worker[v].items : it.id \in Ids)
      /\ (Running(v) => worker[v].row.id \in Ids)
  BY <1>0, <1>3, <1>4, HandFacts
<1>10. PassRead(p)'
  <2> SUFFICES ASSUME NEW it \in worker[v].items
               PROVE  /\ outbox'[it.id].attempts = 0 => it.attempts = 0
                      /\ it.age <= outbox'[it.id].age
                      /\ Pending(it.id)' => \/ outbox'[it.id].wait = 0
                                            \/ it.id \in DOMAIN failing[p] /\ outbox'[it.id].wait <= Backoff(0)
    BY <1>1, <1>9 DEF PassRead
  <2>1. it.id \in Ids
    BY <1>9
  <2> QED BY <1>0, <1>5, <2>1 DEF Hands, PassRead
<1>11. PassRun(p)'
  BY <1>0, <1>5, <1>9 DEF Hands, PassRun
<1>12. DOMAIN failing[p] \subseteq Ids /\ saw[p] \subseteq Ids
  BY <1>0 DEF RTypeOK
<1>13. Deferred(p)' /\ SawFailing(p)'
  BY <1>0, <1>1, <1>5, <1>12 DEF Memory, Deferred, SawFailing
<1>14. PassMet(p)'
  BY <1>0, <1>1, <1>5, <1>9, <1>12 DEF Memory, PassMet
<1>15. RTypeOK'
  BY <1>0, <1>1, <1>5 DEF RTypeOK
<1>16. OncePerLoop'
  <2>1. "next" # "idle"
    OBVIOUS
  <2>2. ASSUME NEW w \in Workers, NEW a \in worker'[w].items
        PROVE  /\ worker'[w].pc # "idle"
               /\ \A c \in worker'[w].items : a.id = c.id => a = c
               /\ Running(w)' => a.id # worker'[w].row.id
    <3>1. CASE w = f
      <4>1. \A a1, c1 \in NewItems : a1.id = c1.id => a1 = c1
        BY <1>6
      <4> QED BY <1>2, <1>3, <1>4, <2>1, <2>2, <3>1, <4>1
    <3>2. CASE w # f
      BY <1>0, <1>3, <1>4, <2>2, <3>2 DEF OncePerLoop
    <3> QED BY <3>1, <3>2
  <2> QED BY <2>2 DEF OncePerLoop
<1>17. \A q \in Process : Hands(q)' /\ Memory(q)'
  BY <1>0, <1>7, <1>8, <1>10, <1>11, <1>13, <1>14 DEF Hands, Memory
<1>18. RowOrder'
  BY <1>0, WrittenOrder
<1> QED
  BY <1>15, <1>16, <1>17, <1>18 DEF RInv

-----------------------------------------------------------------------------
\* What a pass reads, and the theorems.

INSTANCE FiniteSetTheorems

\* A set of natural numbers that is not empty has a least element.
LEMMA Least ==
    ASSUME NEW S, S \subseteq Nat, S # {}
    PROVE  \E m \in S : \A k \in S : m <= k
<1> DEFINE R == OpToRel(<, Nat)
<1>1. \E m \in S : \A k \in S : ~(<<k, m>> \in R)
  BY NatLessThanWellFounded, WFMin
<1>2. \A k, m \in Nat : ~(<<k, m>> \in R) => m <= k
  BY SMTT(30) DEF OpToRel
<1> HIDE DEF R
<1> QED
  BY <1>1, <1>2

\* So has a set that is bounded a greatest one.
LEMMA Greatest ==
    ASSUME NEW n \in Nat, NEW S, S \subseteq 1 .. n, S # {}
    PROVE  \E m \in S : \A k \in S : k <= m
<1> DEFINE U == {k \in Nat : \A j \in S : j <= k}
<1>1. U \subseteq Nat /\ n \in U
  BY SMTT(30)
<1>2. PICK u \in U : \A k \in U : u <= k
  BY <1>1, Least
<1>3. PICK s \in S : TRUE
  OBVIOUS
<1>4. u \in Nat /\ u >= s /\ s \in 1 .. n
  BY <1>2, <1>3
<1>5. u - 1 \notin U /\ u - 1 \in Nat
  BY <1>2, <1>4, SMTT(30)
<1>6. PICK j \in S : ~(j <= u - 1)
  BY <1>5
<1> QED
  BY <1>2, <1>4, <1>6, SMTT(30)

\* PendingOutbox leaves out due rows only when the batch is full, and then the
\* ones it leaves out come after all it holds.
LEMMA BatchPrefix ==
    ASSUME TypeOK, NEW i \in Due, i \notin PendingOutbox
    PROVE  /\ Cardinality(PendingOutbox) >= Batch
           /\ \A j \in PendingOutbox : j <= i
<1> DEFINE Upto(k) == {j \in Due : j <= k}
           Over == {k \in Due : Cardinality(Upto(k)) > Batch}
<1>1. Len(outbox) \in Nat /\ Batch \in Nat /\ \A k \in Due : k \in Nat
  BY TypeFacts, ComponentsAssumption, SMTT(30) DEF Due, Ids
<1>2. IsFiniteSet(Due)
  <2>1. Due \subseteq 1 .. Len(outbox)
    BY DEF Due, Ids
  <2>2. IsFiniteSet(1 .. Len(outbox))
    BY <1>1, FS_Interval, SMTT(30)
  <2> QED BY <2>1, <2>2, FS_Subset
<1>3. \A k : IsFiniteSet(Upto(k)) /\ Cardinality(Upto(k)) \in Nat
  BY <1>2, FS_Subset, FS_CardinalityType
<1>4. PendingOutbox = Due \ Over
  <2>1. PendingOutbox = {k \in Due : Cardinality(Upto(k)) <= Batch}
    BY DEF PendingOutbox
  <2> HIDE DEF Upto
  <2> QED BY <1>1, <1>3, <2>1, SMTT(30)
<1>5. i \in Over /\ Over \subseteq Nat
  BY <1>1, <1>4
<1>6. PICK m \in Over : \A k \in Over : m <= k
  BY <1>5, Least
<1>7. Upto(m) \ {m} \subseteq PendingOutbox
  BY <1>1, <1>4, <1>6, SMTT(30)
<1>8. Cardinality(Upto(m) \ {m}) = Cardinality(Upto(m)) - 1
  <2>1. m \in Upto(m)
    BY <1>1, <1>6
  <2> QED BY <1>3, <2>1, FS_RemoveElement
<1>9. IsFiniteSet(PendingOutbox) /\ Cardinality(PendingOutbox) \in Nat
  BY <1>2, <1>4, FS_Subset, FS_CardinalityType
<1>10. Cardinality(Upto(m) \ {m}) <= Cardinality(PendingOutbox)
  BY <1>7, <1>9, FS_Subset, SMTT(30)
<1>11. Cardinality(PendingOutbox) >= Batch
  <2>1. Cardinality(Upto(m)) > Batch /\ Cardinality(Upto(m)) \in Nat
    BY <1>3, <1>6
  <2> QED BY <1>1, <1>8, <1>9, <1>10, <2>1, SMTT(30)
<1>12. ASSUME NEW j \in PendingOutbox, ~(j <= i)
       PROVE  FALSE
  <2>1. Upto(i) \subseteq Upto(j)
    BY <1>1, <1>4, <1>12, SMTT(30)
  <2>2. Cardinality(Upto(i)) <= Cardinality(Upto(j))
    BY <1>3, <2>1, FS_Subset
  <2>3. Cardinality(Upto(i)) > Batch /\ ~(Cardinality(Upto(j)) > Batch)
    BY <1>4, <1>5, <1>12
  <2> HIDE DEF Upto
  <2> QED BY <1>1, <1>3, <2>2, <2>3, SMTT(30)
<1> QED
  BY <1>11, <1>12

\* A failing row that a new pass does not read is not due, or the batch is full
\* and the row was not written before its last one.
LEMMA NotRead ==
    ASSUME TypeOK, RTypeOK, RowOrder, NEW p \in Process, Deferred(p),
           NEW i \in DOMAIN failing[p], Pending(i), i \notin PendingOutbox
    PROVE  \/ failing[p][i] >= -0 - ForgetSlack
           \/ /\ Cardinality(PendingOutbox) >= Batch
              /\ ~(outbox[i].mutation <
                     IF PendingOutbox = {} THEN 0
                     ELSE outbox[CHOOSE k \in PendingOutbox :
                                    \A j \in PendingOutbox : j <= k].mutation)
<1>0. i \in Ids /\ failing[p][i] \in Int /\ outbox[i].wait \in Nat /\ outbox[i].mutation \in Nat /\ ForgetSlack \in Nat
  BY HandFacts DEF RTypeOK
<1>1. CASE outbox[i].wait # 0
  <2>1. outbox[i].wait <= failing[p][i] + ForgetSlack
    BY <1>1 DEF Deferred
  <2> QED BY <1>0, <1>1, <2>1, SMTT(30)
<1>2. CASE outbox[i].wait = 0
  <2>1. i \in Due
    BY <1>0, <1>2 DEF Due
  <2>2. Cardinality(PendingOutbox) >= Batch /\ \A j \in PendingOutbox : j <= i
    BY <2>1, BatchPrefix
  <2>3. CASE PendingOutbox = {}
    BY <1>0, <2>2, <2>3, SMTT(30)
  <2>4. CASE PendingOutbox # {}
    <3> DEFINE m == CHOOSE k \in PendingOutbox : \A j \in PendingOutbox : j <= k
    <3>1. PendingOutbox \subseteq 1 .. Len(outbox) /\ Len(outbox) \in Nat /\ PendingOutbox \subseteq Ids
      BY TypeFacts DEF PendingOutbox, Due, Ids
    <3>2. \E k \in PendingOutbox : \A j \in PendingOutbox : j <= k
      BY <2>4, <3>1, Greatest
    <3>3. m \in PendingOutbox
      BY <3>2
    <3> HIDE DEF m
    <3>4. outbox[m].mutation <= outbox[i].mutation /\ outbox[m].mutation \in Nat
      BY <1>0, <2>2, <3>1, <3>3, HandFacts DEF RowOrder
    <3>5. ~(outbox[i].mutation < outbox[m].mutation)
      BY <1>0, <3>4, SMTT(30)
    <3> QED BY <2>2, <2>4, <3>5 DEF m
  <2> QED BY <2>3, <2>4
<1> QED
  BY <1>1, <1>2, SMTT(30)

\* A pass begins: what it read is due.
LEMMA Retried ==
    ASSUME Alone, TypeOK, RInv, NEW p \in Process, RRetry(p)
    PROVE  RInv'
<1> DEFINE s == Pass(p)
           f == Fast(p)
           its == {[id |-> i, attempts |-> outbox[i].attempts, age |-> outbox[i].age] : i \in PendingOutbox}
           r == [pc |-> "next", row |-> NoItem, elapsed |-> 0, ok |-> FALSE, items |-> its]
           full == Cardinality(PendingOutbox) >= Batch
           horizon == IF PendingOutbox = {} THEN 0
                      ELSE outbox[CHOOSE i \in PendingOutbox : \A j \in PendingOutbox : j <= i].mutation
           b == [seen |-> PendingOutbox, full |-> full, horizon |-> horizon]
<1>0. /\ Process = {p} /\ RTypeOK /\ RowOrder /\ OncePerLoop /\ Hands(p) /\ Memory(p)
      /\ f \in Workers /\ s \in Workers /\ f # s
  BY HandFacts DEF Alone, RInv
<1>1. /\ worker' = [worker EXCEPT ![s] = r] /\ batch' = [batch EXCEPT ![p] = b]
      /\ outbox' = outbox /\ mutations' = mutations /\ failing' = failing /\ saw' = saw
  BY DEF RRetry, Retry, Pass
<1>2. PendingOutbox \subseteq Due /\ PendingOutbox \subseteq Ids
  BY DEF PendingOutbox, Due
<1>3. ASSUME NEW it \in its
      PROVE  /\ it.id \in PendingOutbox /\ it.attempts = outbox[it.id].attempts /\ it.age = outbox[it.id].age
             /\ outbox[it.id].wait = 0 /\ it = [id |-> it.id, attempts |-> outbox[it.id].attempts, age |-> outbox[it.id].age]
  BY <1>2, <1>3, SMTT(30) DEF Due
<1>4. b.seen = PendingOutbox /\ b.full = full /\ b.horizon = horizon
  OBVIOUS
<1>5. r.pc = "next" /\ r.items = its /\ r.elapsed = 0
  OBVIOUS
<1> HIDE DEF its, r, b
<1>6. worker'[s] = r /\ \A v \in Workers : v # s => worker'[v] = worker[v]
  BY <1>0, <1>1 DEF TypeOK
<1>7. ~Running(s)' /\ \A v \in Workers : v # s => (Running(v)' <=> Running(v))
  BY <1>5, <1>6 DEF Running
<1>8. batch'[p] = b /\ DOMAIN batch' = DOMAIN batch
  BY <1>0, <1>1 DEF RTypeOK
<1>9. Ids' = Ids /\ \A i : Pending(i)' <=> Pending(i)
  BY <1>1 DEF Ids, Pending
<1>10. FastFirst(p)'
  BY <1>0, <1>1, <1>6, <1>7, <1>9 DEF Hands, FastFirst
<1>11. FastRun(p)'
  BY <1>0, <1>1, <1>6, <1>7, <1>9 DEF Hands, FastRun
<1>12. PassRead(p)'
  <2>1. ASSUME NEW it \in its
        PROVE  /\ outbox[it.id].attempts = 0 => it.attempts = 0
               /\ it.age <= outbox[it.id].age
               /\ outbox[it.id].wait = 0
    BY <1>2, <1>3, <2>1, HandFacts, SMTT(30)
  <2> QED BY <1>1, <1>5, <1>6, <2>1 DEF PassRead
<1>13. PassRun(p)'
  BY <1>7 DEF PassRun
<1>14. Deferred(p)' /\ SawFailing(p)'
  BY <1>0, <1>1, <1>9 DEF Memory, Deferred, SawFailing
<1>15. PassMet(p)'
  <2> SUFFICES ASSUME NEW i \in DOMAIN failing[p], i \notin PendingOutbox, Pending(i)
               PROVE  failing[p][i] >= -0 - ForgetSlack \/ (full /\ ~(outbox[i].mutation < horizon))
    BY <1>1, <1>4, <1>5, <1>6, <1>8, <1>9 DEF PassMet
  <2>1. Deferred(p)
    BY <1>0 DEF Memory
  <2>2. p \in Process
    BY <1>0
  <2> QED BY <1>0, <2>1, <2>2, NotRead
<1>16. RTypeOK'
  BY <1>0, <1>1, <1>8, <1>9 DEF RTypeOK
<1>17. RowOrder'
  BY <1>0, <1>1, <1>9 DEF RowOrder
<1>18. OncePerLoop'
  <2>1. ASSUME NEW a \in its, NEW c \in its, a.id = c.id
        PROVE  a = c
    BY <1>3, <2>1
  <2>2. "next" # "idle"
    BY SMTT(30)
  <2>3. ASSUME NEW v \in Workers, NEW a \in worker'[v].items
        PROVE  /\ worker'[v].pc # "idle"
               /\ \A c \in worker'[v].items : a.id = c.id => a = c
               /\ Running(v)' => a.id # worker'[v].row.id
    <3>1. CASE v = s
      BY <1>5, <1>6, <1>7, <2>1, <2>2, <2>3, <3>1
    <3>2. CASE v # s
      BY <1>0, <1>6, <1>7, <2>3, <3>2 DEF OncePerLoop
    <3> QED BY <3>1, <3>2
  <2> QED BY <2>3 DEF OncePerLoop
<1>19. \A q \in Process : Hands(q)' /\ Memory(q)'
  BY <1>0, <1>10, <1>11, <1>12, <1>13, <1>14, <1>15 DEF Hands, Memory
<1> QED
  BY <1>16, <1>17, <1>18, <1>19 DEF RInv

\* The invariant holds at first: no rows, no loops, no memory.
LEMMA RInitInv == RInit => RInv
<1> SUFFICES ASSUME RInit PROVE RInv
  BY SMTT(30)
<1>1. Ids = {}
  BY SMTT(30) DEF RInit, Init, Ids
<1>2. \A w \in Workers : worker[w] = Resting
  BY DEF RInit, Init
<1>3. \A w \in Workers : worker[w].items = {} /\ worker[w].pc = "idle" /\ ~Running(w)
  BY <1>2, SMTT(30) DEF Resting, Running
<1>4. \A p \in Process : DOMAIN failing[p] = {} /\ saw[p] = {}
  BY SMTT(30) DEF RInit
<1>5. RTypeOK
  BY <1>4 DEF RInit, RTypeOK
<1>6. RowOrder
  BY <1>1 DEF RowOrder
<1>7. OncePerLoop
  BY <1>3 DEF OncePerLoop
<1>8. \A p \in Process : Fast(p) \in Workers /\ Pass(p) \in Workers
  BY DEF Fast, Pass, Workers
<1>9. \A p \in Process : Hands(p)
  BY <1>3, <1>8 DEF Hands, FastFirst, FastRun, PassRead, PassRun
<1>10. \A p \in Process : Memory(p)
  BY <1>4 DEF Memory, Deferred, PassMet, SawFailing
<1> QED
  BY <1>5, <1>6, <1>7, <1>9, <1>10 DEF RInv

\* The bookkeeping changes nothing of what LifecycleOutbox does.
LEMMA Refines == [RNext]_allvars => [Next]_vars
<1> SUFFICES ASSUME [RNext]_allvars PROVE [Next]_vars
  BY SMTT(30)
<1>1. CASE UNCHANGED allvars
  BY <1>1 DEF allvars
<1>2. CASE RNext
  <2>1. CASE RTick
    BY <2>1 DEF RTick, Next
  <2>2. ASSUME NEW p \in Process, RRetry(p) \/ RCrash(p)
        PROVE  Next
    BY <2>2 DEF RRetry, RCrash, Next
  <2>3. ASSUME NEW w \in Workers, RTake(w) \/ RDeliver(w) \/ RBook(w) \/ RFinish(w)
        PROVE  Next
    <3>1. Step(w)
      BY <2>3 DEF RTake, RDeliver, RBook, RFinish, Step
    <3> QED BY <3>1 DEF Next
  <2>4. CASE \/ ReapExpired
             \/ \E p \in Process, s \in Subject, e \in Event : Apply(p, s, e)
             \/ \E t \in Tenant : EraseTenant(t)
    BY <2>4 DEF Next
  <2> QED BY <1>2, <2>1, <2>2, <2>3, <2>4 DEF RNext
<1> QED
  BY <1>1, <1>2

\* Booking a row: one lemma for each outcome.
LEMMA Booked ==
    ASSUME Alone, Inv, RInv, NEW w \in Workers, RBook(w)
    PROVE  RInv'
<1>0. TypeOK
  BY DEF Inv
<1>1. CASE Ack(w) /\ Untrack(w)
  BY <1>0, <1>1, Acknowledged
<1>2. CASE AckFail(w) /\ Track(w, 0)
  <2>1. worker[w].pc = "book" /\ Released(w) /\ outbox' = outbox
    BY <1>2 DEF AckFail
  <2>2. 0 \in Nat
    BY SMTT(30)
  <2> QED BY <1>0, <1>2, <2>1, <2>2, Unacknowledged
<1>3. CASE Defer(w) /\ Track(w, Backoff(worker[w].row.attempts))
  BY <1>3, PutOff
<1> QED
  BY <1>1, <1>2, <1>3 DEF RBook

\* Every step of the only instance keeps the invariant.
LEMMA RStepInv ==
    ASSUME Alone, Inv, RInv, [RNext]_allvars
    PROVE  RInv'
<1>0. TypeOK
  BY DEF Inv
<1>1. CASE UNCHANGED allvars
  <2>1. outbox' = outbox /\ mutations' = mutations /\ worker' = worker /\ UNCHANGED rvars
    BY <1>1 DEF allvars, vars
  <2>2. QuietRows({})
    BY <2>1, RowsQuiet
  <2> QED BY <1>0, <2>1, <2>2, LeftAlone
<1>2. CASE RTick
  BY <1>0, <1>2, Ticked
<1>3. ASSUME NEW p \in Process, RRetry(p) \/ RCrash(p)
      PROVE  RInv'
  BY <1>0, <1>3, Retried, Crashed
<1>4. ASSUME NEW w \in Workers, RTake(w) \/ RDeliver(w) \/ RBook(w) \/ RFinish(w)
      PROVE  RInv'
  <2>1. CASE RTake(w)
    BY <1>0, <2>1, PassedOver, Claimed DEF RTake
  <2>2. CASE RDeliver(w)
    BY <1>0, <2>2, Delivered DEF RDeliver
  <2>3. CASE RBook(w)
    BY <2>3, Booked
  <2>4. CASE RFinish(w)
    BY <1>0, <2>4, Finished
  <2> QED BY <1>4, <2>1, <2>2, <2>3, <2>4
<1>5. CASE /\ \/ ReapExpired
              \/ \E p \in Process, s \in Subject, e \in Event : Apply(p, s, e)
              \/ \E t \in Tenant : EraseTenant(t)
           /\ UNCHANGED rvars
  BY <1>0, <1>5, Removed, Applied
<1> QED
  BY <1>1, <1>2, <1>3, <1>4, <1>5 DEF RNext

\* What a dispatcher remembers decides nothing of what it does: every behaviour with
\* the bookkeeping of Ready is one of the outbox.
THEOREM ReadinessRefines == RSpec => Spec
<1>1. RInit => Init
  BY DEF RInit
<1> QED
  BY <1>1, Refines, PTL DEF RSpec, Spec

\* Ready of the only instance is honest: a row that the instance saw failing, or
\* saw pending when it was already stale, keeps it unready until the row is done,
\* through deferrals, full batches, overlapping fast paths and what forgetDone
\* drops at the end of each pass (Ready, track, watch, forgetDone).
THEOREM ReadyIsHonest ==
    ASSUME Alone
    PROVE  RSpec => []ReadyHonest
<1>1. Inv /\ RInv => ReadyHonest
  <2> SUFFICES ASSUME Inv, RInv, NEW p \in Process, NEW i \in saw[p],
                      Pending(i), outbox[i].age > StaleAfter
               PROVE  ~Ready(p)
    BY DEF ReadyHonest
  <2>1. i \in DOMAIN failing[p] /\ i \in Ids
    BY DEF RInv, Memory, SawFailing, RTypeOK
  <2>2. outbox[i].age \in Nat
    BY <2>1, HandFacts DEF Inv
  <2>3. ~(outbox[i].age <= StaleAfter)
    BY <2>2, ReadinessAssumption, SMTT(30)
  <2> QED BY <2>1, <2>3 DEF Ready
<1>2. RSpec => []Inv
  BY ReadinessRefines, Inductive, PTL
<1>3. Inv /\ RInv /\ [RNext]_allvars => RInv'
  BY RStepInv
<1> QED
  BY <1>1, <1>2, <1>3, RInitInv, PTL DEF RSpec

===============================================================================
