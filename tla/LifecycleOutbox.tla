--------------------------- MODULE LifecycleOutbox ---------------------------
(***************************************************************************)
(* The lifecycle outbox: an applied mutation of an account writes one row  *)
(* per component in its own transaction (store/identity/memory), and the   *)
(* dispatchers of every instance (internal/lifecycle) deliver the rows:    *)
(* at once on the fast path of the request, later in the retry passes of   *)
(* the reaper (internal/reap).                                             *)
(*                                                                         *)
(* Instants are kept relative to the present, so that time can pass for    *)
(* ever in a finite model: a row has an age and the time left until it is  *)
(* due, a worker the time it has run.  Ages stop counting at MaxAge.       *)
(*                                                                         *)
(* What the dispatcher remembers of failing rows, to answer Ready, decides *)
(* nothing here; OutboxReadiness adds it to these actions.                 *)
(***************************************************************************)
EXTENDS Integers, Sequences, FiniteSets

CONSTANTS
    Subject,        \* accounts
    Tenant,         \* tenant ids
    TenantOf,       \* [Subject -> Tenant]
    Event,          \* lifecycle events, "delete" among them
    Process,        \* instances of the library
    Components,     \* components are numbered 1 .. Components, the last is
                    \* ComponentIdentity
    Batch,          \* RetryBatch
    FastPathBudget, FastPathGrace, PassTimeout,
    RetryBase, RetryCap, Retention,
    MaxAge,         \* bound: age from which on rows are alike
    MaxAttempts,    \* bound: attempts from which on the backoff is RetryCap
    MaxMutations,   \* bound: mutations applied
    MaxCrashes,     \* bound: crashes of instances
    MaxErasures     \* bound: tenants erased

ASSUME ComponentsAssumption ==
    /\ Components \in Nat \ {0}
    /\ TenantOf \in [Subject -> Tenant]
    /\ Batch \in Nat \ {0}

ASSUME TimesAssumption ==
    /\ FastPathBudget \in Nat /\ FastPathGrace \in Nat /\ PassTimeout \in Nat
    /\ RetryBase \in Nat \ {0} /\ RetryCap \in Nat \ {0}
    /\ Retention \in Nat
    /\ MaxAge \in Nat /\ FastPathGrace <= MaxAge

ASSUME BoundsAssumption ==
    /\ MaxAttempts \in Nat
    /\ RetryBase * 2 ^ MaxAttempts >= RetryCap
    /\ MaxMutations \in Nat /\ MaxCrashes \in Nat /\ MaxErasures \in Nat

VARIABLES
    account,    \* the account of each subject in the identity store
    outbox,     \* Store.outbox, the row with id i at i
    mutations,  \* number of mutations applied
    worker,     \* the fast path and the retry pass of each process
    inflight,   \* Dispatcher.inflight of each process
    crashes, erasures,
    delivered   \* history: rows some subscriber call succeeded for

vars == <<account, outbox, mutations, worker, inflight, crashes, erasures, delivered>>

Identity == Components
Row == [subject : Subject, event : Event, component : 1 .. Components, mutation : Nat,
        status : {"pending", "done", "gone"}, attempts : 0 .. MaxAttempts,
        wait : Nat, age : 0 .. MaxAge]

\* A row as a worker read it; attempts and age may be out of date when it is run.
Item == [id : Nat, attempts : 0 .. MaxAttempts, age : 0 .. MaxAge]

\* A loop over rows: the ones still to run, the one being run, the time since the
\* loop began and whether the delivery succeeded.
Worker == [pc : {"idle", "next", "deliver", "book"}, items : SUBSET Item, row : Item,
           elapsed : Nat, ok : BOOLEAN]

NoItem == [id |-> 0, attempts |-> 0, age |-> 0]
Resting == [pc |-> "idle", items |-> {}, row |-> NoItem, elapsed |-> 0, ok |-> FALSE]

Workers == Process \X {"fast", "pass"}
Limit(w) == IF w[2] = "fast" THEN FastPathBudget ELSE PassTimeout

Ids == 1 .. Len(outbox)
Pending(i) == outbox[i].status = "pending"

Backoff(attempts) ==
    LET d == RetryBase * 2 ^ attempts
    IN  IF d \in 1 .. RetryCap THEN d ELSE RetryCap

-----------------------------------------------------------------------------
Init ==
    /\ account = [s \in Subject |-> "active"]
    /\ outbox = <<>>
    /\ mutations = 0
    /\ worker = [w \in Workers |-> Resting]
    /\ inflight = [p \in Process |-> {}]
    /\ crashes = 0 /\ erasures = 0
    /\ delivered = {}

\* Time passes.  Subscribers and stores honour the context they are called with,
\* so no worker runs beyond its limit.
Tick ==
    /\ \A w \in Workers : worker[w].pc # "idle" => worker[w].elapsed < Limit(w)
    /\ outbox' = [i \in Ids |->
          [outbox[i] EXCEPT !.wait = IF outbox[i].wait = 0 THEN 0 ELSE outbox[i].wait - 1,
                            !.age = IF outbox[i].age = MaxAge THEN MaxAge
                                    ELSE outbox[i].age + 1]]
    /\ worker' = [w \in Workers |->
          IF worker[w].pc = "idle" THEN worker[w]
          ELSE [worker[w] EXCEPT !.elapsed = worker[w].elapsed + 1]]
    /\ UNCHANGED <<account, mutations, inflight, crashes, erasures, delivered>>

\* OutboxFor: the rows of one mutation, one per component, the account's last.
NewRow(s, e, c) ==
    [subject |-> s, event |-> e, component |-> c, mutation |-> mutations + 1,
     status |-> "pending", attempts |-> 0, wait |-> 0, age |-> 0]

NewItems ==
    {[id |-> i, attempts |-> 0, age |-> 0] : i \in Len(outbox) + 1 .. Len(outbox) + Components}

\* Apply of the identity store, which refuses a tombstoned or erased account, and
\* the start of the fast path in the process that called it.
Apply(p, s, e) ==
    /\ mutations < MaxMutations
    /\ worker[<<p, "fast">>].pc = "idle"
    /\ account[s] = "active"
    /\ account' = [account EXCEPT ![s] = IF e = "delete" THEN "tombstoned" ELSE account[s]]
    /\ outbox' = outbox \o [c \in 1 .. Components |-> NewRow(s, e, c)]
    /\ mutations' = mutations + 1
    /\ worker' = [worker EXCEPT ![<<p, "fast">>] =
                    [pc |-> "next", items |-> NewItems, row |-> NoItem, elapsed |-> 0, ok |-> FALSE]]
    /\ UNCHANGED <<inflight, crashes, erasures, delivered>>

-----------------------------------------------------------------------------
Due == {i \in Ids : Pending(i) /\ outbox[i].wait = 0}

\* PendingOutbox: the due rows, oldest first, at most Batch of them.
PendingOutbox == {i \in Due : Cardinality({j \in Due : j <= i}) <= Batch}

\* Retry reads the rows of a pass.
Retry(p) ==
    /\ worker[<<p, "pass">>].pc = "idle"
    /\ worker' = [worker EXCEPT ![<<p, "pass">>] =
          [pc |-> "next", row |-> NoItem, elapsed |-> 0, ok |-> FALSE,
           items |-> {[id |-> i, attempts |-> outbox[i].attempts, age |-> outbox[i].age] :
                         i \in PendingOutbox}]]
    /\ UNCHANGED <<account, outbox, mutations, inflight, crashes, erasures, delivered>>

\* The loop of w is at the row it.
At(w, it) ==
    /\ worker[w].pc = "next"
    /\ it \in worker[w].items
    /\ \A o \in worker[w].items : it.id <= o.id

LeftAlways(w, it) == w[2] = "pass" /\ it.attempts = 0

\* Retry leaves a row that was never attempted to the fast path of its writer.
LeftToFastPath(w, it) == w[2] = "pass" /\ it.attempts = 0 /\ it.age < FastPathGrace

ClaimAny(p, i) == TRUE

\* claim succeeds when no goroutine of the process runs the row.
Claimable(p, i) == i \notin inflight[p]

\* The loops of Retry and DispatchOutbox come to a row they do not run: it is left
\* to the fast path, or another goroutine of the process runs it.
Skip(w, it) ==
    /\ At(w, it)
    /\ \/ LeftToFastPath(w, it)
       \/ worker[w].elapsed < Limit(w) /\ ~Claimable(w[1], it.id)
    /\ worker' = [worker EXCEPT ![w] = [worker[w] EXCEPT !.items = worker[w].items \ {it}]]
    /\ UNCHANGED <<account, outbox, mutations, inflight, crashes, erasures, delivered>>

\* The context of the loop has ended: nothing more is run.
Cut(w, it) ==
    /\ At(w, it)
    /\ ~LeftToFastPath(w, it)
    /\ worker[w].elapsed >= Limit(w)
    /\ worker' = [worker EXCEPT ![w] = Resting]
    /\ UNCHANGED <<account, outbox, mutations, inflight, crashes, erasures, delivered>>

\* process claims the row.
Claim(w, it) ==
    /\ At(w, it)
    /\ ~LeftToFastPath(w, it)
    /\ worker[w].elapsed < Limit(w)
    /\ Claimable(w[1], it.id)
    /\ inflight' = [inflight EXCEPT ![w[1]] = inflight[w[1]] \cup {it.id}]
    /\ worker' = [worker EXCEPT ![w] = [worker[w] EXCEPT
                    !.pc = "deliver", !.row = it, !.items = worker[w].items \ {it}]]
    /\ UNCHANGED <<account, outbox, mutations, crashes, erasures, delivered>>

-----------------------------------------------------------------------------
WaitingNever(s) == FALSE
WaitingAny(s) == \E i \in Ids : outbox[i].subject = s /\ Pending(i)

\* EraseUser refuses an account of which another component's row is not done.
Waiting(s) ==
    \E i \in Ids : outbox[i].subject = s /\ Pending(i) /\ outbox[i].component # Identity

Erases(row) == row.component = Identity /\ row.event = "delete"

\* deliver: the subscriber call of one row ends with or without an error.  The
\* account row erases the account once nothing else of the subject is pending;
\* an account already erased is done.  A call that is cut off by its timeout may
\* have had its effect.
DeliverOk(w) ==
    LET i == worker[w].row.id IN
    /\ worker[w].pc = "deliver"
    /\ Erases(outbox[i]) => account[outbox[i].subject] = "erased" \/ ~Waiting(outbox[i].subject)
    /\ account' = IF Erases(outbox[i])
                  THEN [account EXCEPT ![outbox[i].subject] = "erased"] ELSE account
    /\ delivered' = delivered \cup {i}
    /\ worker' = [worker EXCEPT ![w] = [worker[w] EXCEPT !.pc = "book", !.ok = TRUE]]
    /\ UNCHANGED <<outbox, mutations, inflight, crashes, erasures>>

DeliverFail(w) ==
    LET i == worker[w].row.id IN
    /\ worker[w].pc = "deliver"
    /\ \/ account' = account
       \/ /\ Erases(outbox[i]) /\ ~Waiting(outbox[i].subject)
          /\ account' = [account EXCEPT ![outbox[i].subject] = "erased"]
    /\ worker' = [worker EXCEPT ![w] = [worker[w] EXCEPT !.pc = "book", !.ok = FALSE]]
    /\ UNCHANGED <<outbox, mutations, inflight, crashes, erasures, delivered>>

\* process releases the row and the loop goes on.
Released(w) ==
    /\ inflight' = [inflight EXCEPT ![w[1]] = inflight[w[1]] \ {worker[w].row.id}]
    /\ worker' = [worker EXCEPT ![w] = [worker[w] EXCEPT !.pc = "next", !.row = NoItem, !.ok = FALSE]]
    /\ UNCHANGED <<account, mutations, crashes, erasures, delivered>>

\* AckOutbox
AckOutbox(i) ==
    IF Pending(i)
    THEN [outbox EXCEPT ![i] = [outbox[i] EXCEPT !.status = "done", !.wait = Retention]]
    ELSE outbox

AckAnyway(w) ==
    LET i == worker[w].row.id IN
    /\ worker[w].pc = "book"
    /\ outbox[i].status # "gone"
    /\ outbox' = AckOutbox(i)
    /\ Released(w)

\* process after a delivery that succeeded: the row is acknowledged.
Ack(w) ==
    LET i == worker[w].row.id IN
    /\ worker[w].pc = "book" /\ worker[w].ok
    /\ outbox[i].status # "gone"
    /\ outbox' = AckOutbox(i)
    /\ Released(w)

\* The acknowledgement fails, because of the store or because the row is gone.
AckFail(w) ==
    LET i == worker[w].row.id IN
    /\ worker[w].pc = "book" /\ worker[w].ok
    /\ outbox' = outbox
    /\ Released(w)

FailOutboxDone(i, next) ==
    [outbox EXCEPT ![i] = [outbox[i] EXCEPT
        !.attempts = IF outbox[i].attempts < MaxAttempts THEN outbox[i].attempts + 1
                     ELSE MaxAttempts,
        !.wait = next]]

\* FailOutbox; a row that is done stays as it is.
FailOutbox(i, next) ==
    IF Pending(i)
    THEN [outbox EXCEPT ![i] = [outbox[i] EXCEPT
            !.attempts = IF outbox[i].attempts < MaxAttempts THEN outbox[i].attempts + 1
                         ELSE MaxAttempts,
            !.wait = next]]
    ELSE outbox

\* process after a delivery that failed: the row is deferred, unless the store
\* fails or has lost the row.
Defer(w) ==
    LET it == worker[w].row IN
    /\ worker[w].pc = "book" /\ ~worker[w].ok
    /\ outbox' \in {outbox, FailOutbox(it.id, Backoff(it.attempts))}
    /\ Released(w)

-----------------------------------------------------------------------------
\* A loop has run its last row.
Finish(w) ==
    /\ worker[w].pc = "next"
    /\ worker[w].items = {}
    /\ worker' = [worker EXCEPT ![w] = Resting]
    /\ UNCHANGED <<account, outbox, mutations, inflight, crashes, erasures, delivered>>

\* ReapExpired deletes the rows that have been done for Retention.
ReapExpired ==
    /\ \E i \in Ids : outbox[i].status = "done" /\ outbox[i].wait = 0
    /\ outbox' = [i \in Ids |->
          IF outbox[i].status = "done" /\ outbox[i].wait = 0
          THEN [outbox[i] EXCEPT !.status = "gone"] ELSE outbox[i]]
    /\ UNCHANGED <<account, mutations, worker, inflight, crashes, erasures, delivered>>

\* EraseTenant of the identity store: the accounts and the rows of the tenant.
EraseTenant(t) ==
    /\ erasures < MaxErasures
    /\ erasures' = erasures + 1
    /\ account' = [s \in Subject |-> IF TenantOf[s] = t THEN "erased" ELSE account[s]]
    /\ outbox' = [i \in Ids |->
          IF TenantOf[outbox[i].subject] = t THEN [outbox[i] EXCEPT !.status = "gone"]
          ELSE outbox[i]]
    /\ UNCHANGED <<mutations, worker, inflight, crashes, delivered>>

\* A process stops at any point and starts again with empty memory.
Crash(p) ==
    /\ crashes < MaxCrashes
    /\ crashes' = crashes + 1
    /\ worker' = [w \in Workers |-> IF w[1] = p THEN Resting ELSE worker[w]]
    /\ inflight' = [inflight EXCEPT ![p] = {}]
    /\ UNCHANGED <<account, outbox, mutations, erasures, delivered>>

Step(w) ==
    \/ \E it \in worker[w].items : Skip(w, it) \/ Cut(w, it) \/ Claim(w, it)
    \/ DeliverOk(w) \/ DeliverFail(w)
    \/ Ack(w) \/ AckFail(w) \/ Defer(w)
    \/ Finish(w)

Next ==
    \/ Tick
    \/ ReapExpired
    \/ \E p \in Process, s \in Subject, e \in Event : Apply(p, s, e)
    \/ \E p \in Process : Retry(p) \/ Crash(p)
    \/ \E w \in Workers : Step(w)
    \/ \E t \in Tenant : EraseTenant(t)

Spec == Init /\ [][Next]_vars

\* Loops go on while they have rows, the reaper's ticker starts a pass again and
\* again, and time passes, but not so fast that the context of every pass has ended
\* before it comes to its first row.  Of the outside world it is assumed that a subscriber
\* called again and again succeeds at last, and so does the acknowledgement.
Fairness ==
    /\ WF_vars(Tick)
    /\ \A p \in Process : WF_vars(Retry(p))
    /\ \A w \in Workers :
          /\ WF_vars(Step(w))
          /\ SF_vars(\E it \in worker[w].items : Claim(w, it))
          /\ SF_vars(DeliverOk(w))
          /\ SF_vars(Ack(w))

FairSpec == Spec /\ Fairness

-----------------------------------------------------------------------------
Running(w) == worker[w].pc \in {"deliver", "book"}

TypeOK ==
    /\ account \in [Subject -> {"active", "tombstoned", "erased"}]
    /\ outbox \in Seq(Row)
    /\ mutations \in Nat
    /\ worker \in [Workers -> Worker]
    /\ \A w \in Workers :
          /\ \A it \in worker[w].items : it.id \in Ids
          /\ Running(w) => worker[w].row.id \in Ids
    /\ inflight \in [Process -> SUBSET Ids]
    /\ crashes \in Nat /\ erasures \in Nat
    /\ delivered \subseteq Ids

\* An account is hard-deleted last: once it is gone no other component has a row of
\* the subject left to run, however retries, crashes and instances interleave
\* (EraseUser, ComponentIdentity).
ErasedLast ==
    \A i \in Ids :
        account[outbox[i].subject] = "erased" /\ Pending(i) => outbox[i].component = Identity

\* A row is done only after a subscriber call for it succeeded; a crash between
\* the two repeats the call and never skips it (process, AckOutbox).
DoneDelivered == \A i \in Ids : outbox[i].status = "done" => i \in delivered

\* A row is run by one goroutine of a process at a time: the fast path and a pass
\* that read the same row never both call its subscriber (claim, release).
OneGoroutinePerRow ==
    \A v, w \in Workers :
        v # w /\ v[1] = w[1] /\ Running(v) /\ Running(w) => worker[v].row.id # worker[w].row.id

StaysFinished(i) ==
    ~Pending(i) => /\ outbox'[i].status # "pending"
                   /\ outbox'[i].attempts = outbox[i].attempts
                   /\ outbox'[i].wait <= outbox[i].wait

\* A finished row stays finished: a late FailOutbox of an instance that lost the race
\* neither puts it back nor postpones its removal (FailOutbox, AckOutbox).
DoneIsFinal == [][\A i \in Ids : StaysFinished(i)]_vars

\* Every row that is written is done at last, or is erased with its tenant, even
\* when the process that wrote it crashed before the fast path reached it.
EveryRowDone ==
    \A i \in 1 .. MaxMutations * Components : (i \in Ids) ~> (i \in Ids /\ ~Pending(i))

\* A deleted account is hard-deleted at last.
TombstonesErased == \A s \in Subject : (account[s] = "tombstoned") ~> (account[s] = "erased")

=============================================================================
