--------------------------- MODULE OutboxReadiness ---------------------------
(***************************************************************************)
(* What a dispatcher remembers of the rows it saw failing, to answer       *)
(* Ready: track, watch, untrack and forgetDone of internal/lifecycle added *)
(* to the steps of LifecycleOutbox that call them.  Nothing here changes   *)
(* what LifecycleOutbox does.                                              *)
(***************************************************************************)
EXTENDS LifecycleOutbox

CONSTANTS StaleAfter, ForgetSlack

ASSUME ReadinessAssumption ==
    /\ StaleAfter \in Nat /\ ForgetSlack \in Nat
    /\ MaxAge = StaleAfter + 1
    /\ FastPathBudget <= FastPathGrace
    /\ Backoff(0) <= ForgetSlack

VARIABLES
    failing,    \* Dispatcher.failing: row id -> time left to tracked.next
    batch,      \* the rows the running pass of a process read, and its horizon
    saw         \* history: rows a process saw failing, or pending when stale, and
                \* has not seen done since

rvars == <<failing, batch, saw>>
allvars == <<vars, rvars>>

Unread == [seen |-> {}, full |-> FALSE, horizon |-> 0]

RInit ==
    /\ Init
    /\ failing = [p \in Process |-> <<>>]
    /\ batch = [p \in Process |-> Unread]
    /\ saw = [p \in Process |-> {}]

\* An entry this far in the past is forgotten by any pass that does not meet it.
Lowest == -(PassTimeout + ForgetSlack + 1)

RTick ==
    /\ Tick
    /\ failing' = [p \in Process |-> [i \in DOMAIN failing[p] |->
                      IF failing[p][i] > Lowest THEN failing[p][i] - 1 ELSE Lowest]]
    /\ UNCHANGED <<batch, saw>>

\* The mutation that wrote the last row of a full batch stands for its CreatedAt.
RRetry(p) ==
    /\ Retry(p)
    /\ batch' = [batch EXCEPT ![p] =
          [seen |-> PendingOutbox,
           full |-> Cardinality(PendingOutbox) >= Batch,
           horizon |-> IF PendingOutbox = {} THEN 0
                       ELSE outbox[CHOOSE i \in PendingOutbox :
                                      \A j \in PendingOutbox : j <= i].mutation]]
    /\ UNCHANGED <<failing, saw>>

With(p, i, next) ==
    [j \in DOMAIN failing[p] \cup {i} |-> IF j = i THEN next ELSE failing[p][j]]
Without(p, ids) == [j \in DOMAIN failing[p] \ ids |-> failing[p][j]]

\* watch: a pass meets a row that is already older than StaleAfter; it counts as due
\* since the pass began.
Watch(w, it) ==
    LET p == w[1]
        i == it.id
        stale == w[2] = "pass" /\ it.age > StaleAfter
    IN  /\ failing' = IF stale /\ i \notin DOMAIN failing[p]
                      THEN [failing EXCEPT ![p] = With(p, i, -(worker[w].elapsed))] ELSE failing
        /\ saw' = IF stale THEN [saw EXCEPT ![p] = saw[p] \cup {i}] ELSE saw
        /\ UNCHANGED batch

RTake(w) ==
    \E it \in worker[w].items :
        /\ Skip(w, it) \/ Cut(w, it) \/ Claim(w, it)
        /\ Watch(w, it)

RDeliver(w) ==
    /\ DeliverOk(w) \/ DeliverFail(w)
    /\ UNCHANGED rvars

Untrack(w) ==
    /\ failing' = [failing EXCEPT ![w[1]] = Without(w[1], {worker[w].row.id})]
    /\ saw' = [saw EXCEPT ![w[1]] = saw[w[1]] \ {worker[w].row.id}]
    /\ UNCHANGED batch

Track(w, next) ==
    /\ failing' = [failing EXCEPT ![w[1]] = With(w[1], worker[w].row.id, next)]
    /\ saw' = [saw EXCEPT ![w[1]] = saw[w[1]] \cup {worker[w].row.id}]
    /\ UNCHANGED batch

RBook(w) ==
    \/ Ack(w) /\ Untrack(w)
    \/ AckFail(w) /\ Track(w, 0)
    \/ Defer(w) /\ Track(w, Backoff(worker[w].row.attempts))

ForgetUnseen(p) ==
    {i \in DOMAIN failing[p] :
        /\ i \notin batch[p].seen
        /\ failing[p][i] < -(worker[<<p, "pass">>].elapsed) - ForgetSlack}

ForgetNever(p) == {}

\* forgetDone: a row the pass would have met if it were still pending, it being
\* older than the last row of the batch, and due for ForgetSlack.
ForgetDone(p) ==
    {i \in DOMAIN failing[p] :
        /\ i \notin batch[p].seen
        /\ batch[p].full => outbox[i].mutation < batch[p].horizon
        /\ failing[p][i] < -(worker[<<p, "pass">>].elapsed) - ForgetSlack}

RFinish(w) ==
    /\ Finish(w)
    /\ \/ w[2] = "fast" /\ UNCHANGED <<failing, batch>>
       \/ /\ w[2] = "pass"
          /\ failing' = [failing EXCEPT ![w[1]] = Without(w[1], ForgetDone(w[1]))]
          /\ batch' = [batch EXCEPT ![w[1]] = Unread]
    /\ UNCHANGED saw

RCrash(p) ==
    /\ Crash(p)
    /\ failing' = [failing EXCEPT ![p] = <<>>]
    /\ batch' = [batch EXCEPT ![p] = Unread]
    /\ saw' = [saw EXCEPT ![p] = {}]

RNext ==
    \/ RTick
    \/ \E p \in Process : RRetry(p) \/ RCrash(p)
    \/ \E w \in Workers : RTake(w) \/ RDeliver(w) \/ RBook(w) \/ RFinish(w)
    \/ /\ \/ ReapExpired
          \/ \E p \in Process, s \in Subject, e \in Event : Apply(p, s, e)
          \/ \E t \in Tenant : EraseTenant(t)
       /\ UNCHANGED rvars

RSpec == RInit /\ [][RNext]_allvars

\* The fairness of LifecycleOutbox, on the steps with their bookkeeping.
RFairness ==
    /\ WF_allvars(RTick)
    /\ \A p \in Process : WF_allvars(RRetry(p))
    /\ \A w \in Workers :
          /\ WF_allvars(RTake(w) \/ RDeliver(w) \/ RBook(w) \/ RFinish(w))
          /\ SF_allvars(\E it \in worker[w].items : Claim(w, it) /\ Watch(w, it))
          /\ SF_allvars(DeliverOk(w) /\ RDeliver(w))
          /\ SF_allvars(Ack(w) /\ RBook(w))

RFairSpec == RSpec /\ RFairness

-----------------------------------------------------------------------------
\* Ready
Ready(p) == \A i \in DOMAIN failing[p] : outbox[i].age <= StaleAfter

\* What the comment of Ready says: a row this process saw failing, or saw pending
\* when it was already older than StaleAfter, keeps the process unready until it
\* has been seen done.
ReadyHonest ==
    \A p \in Process : \A i \in saw[p] :
        Pending(i) /\ outbox[i].age > StaleAfter => ~Ready(p)

\* An instance that saw rows failing is ready again at last once none is pending,
\* whoever ran them (forgetDone).
ReadyRecovers ==
    \A p \in Process :
        (\A i \in Ids : ~Pending(i)) ~> (Ready(p) \/ \E i \in Ids : Pending(i))

=============================================================================
