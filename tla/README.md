# egauth in TLA+

A model of egauth, an authentication library for Go services: what its stores,
caches, sessions, sign-in journeys and background work promise, the runs that check
those promises with TLC, and machine-checked proofs of most of them with TLAPS.

## The system and its parts

An egauth process serves sign-in, sessions and account changes of many tenants.
Several processes share one set of stores; each store has an in-memory and a
PostgreSQL implementation behind one contract.

| part | state | operations that change it |
|---|---|---|
| Refresh-token store (`store/tokens`) | refresh rows, family index, revocation feed | Create, ConsumeForRotation, Reissue, RevokeFamily, RevokeForSubject, DeleteForSubject, EraseTenant, ReapExpired |
| Session store (`store/sessions`) | session rows | Create, Touch, Rotate, Replace, Revoke..., ReapExpired |
| Identity store (`store/identity`) | accounts, identifiers, security epochs, failure counters, lifecycle outbox | Apply (every account mutation), RecordPasswordFailure, AckOutbox, FailOutbox, EraseUser, EraseTenant, ReapExpired |
| Key store and manager (`store/keys`, `internal/keys`) | signing keys of a tenant, tombstones, change feed | Renew, Revoke, erase, reap |
| Ceremony store (`store/ceremony`) | records of unfinished journeys, consumption marks | Put, Consume, RecordFailure, MarkConsumed, DeleteForScope, ReapExpired |
| Factor stores (`store/mfa`, `store/passkey`) | TOTP enrolment, recovery codes, passkeys, attempt counters | enrol, confirm, verify, disable, register, remove |
| Session backends (`internal/session/jwt`, `internal/session/stateful`) | cookies and the stores above | Start, Resume, Reissue, End |
| Revocation caches (`internal/revoke`) | per process: entries, cursor, time of the last poll | get, Forget, Poll, Check |
| Lifecycle dispatcher (`internal/lifecycle`) and maintenance (`internal/reap`) | per process: rows in flight, failing rows | DispatchOutbox (fast path), Retry, EraseTenant, Ready |
| Flows (`internal/issuance`, `flow`, `identitysvc`, `codesvc`, `mfasvc`, `passkeysvc`) | ceremonies between two requests | sign-in steps, second factors, recovery, enrolment, notices and reverts |
| Request edge, configuration, crypto, tools | none shared between requests | |

How they interact. A sign-in collects factors in a journey that is parked in the
ceremony store between requests, and ends in a session of one of the two backends.
Every request checks its session against caches that follow a feed of a store. A
change of an account goes through `Apply` of the identity store, which writes the
change, a new security epoch and one outbox row per component in one transaction; the
dispatcher delivers the rows to the other components (end the sessions, delete the
keys, send a notice), at once or in later passes. A notice carries a link with which
the owner of the address takes the change back.

What makes it hard: store operations decide with a clock read before the lock; caches
are filled by lookups that race the poll; several processes run the same outbox rows;
every flow is a sequence of separate store calls, between which other requests run
and after each of which the process may stop; feeds and marks are pruned; contexts
time out after the effect was made.

## Modules

| module | models | about the state |
|---|---|---|
| `TokenFamilies` | `store/tokens/memory` (refresh half) and how `internal/session/jwt` calls it | `tokens`, `families`, `feed`, `seq` are the fields of `Store`; a method runs under one mutex and is one action. `admitted`, `issued`, `ended` are histories. |
| `RevocationCache` | `internal/revoke` (`follower`, `Epochs.Check`) with the store and feed it follows | `entries`, `cursor`, `lastPoll` are the follower's fields. Critical sections are actions; `poll` and `reader` hold the locals of a Poll and of a get between them. |
| `LifecycleOutbox` | outbox methods of `store/identity/memory`, `internal/lifecycle`, the pass of `internal/reap` | `account` and `outbox` are the store, `worker` the loop of each fast path and pass, `inflight` the claims of each dispatcher. |
| `OutboxReadiness` | `track`, `watch`, `untrack`, `forgetDone`, `Ready` | extends `LifecycleOutbox`; adds `failing` and the rows a pass read, and changes nothing else. |
| `LibraryClock` | the clock and `PollBound` | shared by the session and key modules. |
| `SessionRequests` | `internal/issuance`, `internal/session/renew`, the session transitions of `internal/core`, the changes sessions must follow | a request is a process (`req`), every store access a step; `account` and `enrolled` say since when the account asks for what; `admitted`, `kept` and `left` are histories. |
| `StatefulSessions` | `internal/session/stateful`, `store/sessions/memory` | adds `rows`. |
| `SigningKeys` | `store/keys/memory`, `internal/keys` | `keys`, `dead` are the store; `renewal` the renewals in flight; `past` the keysets instances may still use. |
| `JWTSessions` | `internal/session/jwt` over refresh families, keys and caches | composes `SessionRequests` and `SigningKeys`; adds `fams`, `tokens`, `access`. |
| `SessionContract` | what a backend promises (`internal/session/backend.go`, `backendtest`) | abstract: the epoch, the kept sessions, the stage of each session. |
| `StatefulContract`, `JWTContract` | the two refinement mappings | |
| `Ceremonies` | `store/ceremony` and its memory store | `records`, `marks`. |
| `SecondFactors` | `store/mfa`, `store/passkey` | `totp`, `codes`, `recovery`, `keys`. |
| `SignIn` | password, codes, links, passkeys, second factors, admission | a request is a process, one store call per step. |
| `FactorChanges` | `mfasvc/endpoints`, `passkeysvc/register`, `credentials` | extends `SignIn` with the changes of factors. |
| `SecurityNotices`, `SecurityReverts` | email and phone changes, notices, anchors, tenures, spans, reverts (`identitysvc`) | `records` are the bookkeeping in the ceremony store; `work` the requests and deliveries. |
| `MC...` | the instances TLC checks | |
| `...Proofs`, `...Theorems` | theorems and proofs | |

### TokenFamilies

`Rotation`, `Replace` and `Login` choose the arguments the JWT backend can build: any
token ever handed out may be presented again, with a record of any admitted lineage.
`Recent` is the set of clock readings an operation may decide with: the code reads the
clock before it takes the mutex, so the reading may be older than that of an operation
that already ran. Digests and family ids are random in the code; a request brings one
that was never used. `scope` remembers the tenants the last step was for, which
`TenantIsolation` compares with what that step touched: a request may name tokens,
families and lineages of any tenant. No step reads `scope` or `reply`, so the run's
`VIEW` leaves both out; the action properties are still evaluated on every step. The API keys of the same
store share only the mutex and are left out.

### RevocationCache

A key's state is named by the feed position of its last change. `gen` of the follower
is only compared for equality with a value a lookup recorded, so `gen++` is "every
lookup in flight is void". The evicted entry is any entry. `DetectsGap` tells apart the
key feed, which refuses a cursor older than its pruning, from the feeds that do not.
`Unannounced` are keys the store can remove without an entry.

### LifecycleOutbox and OutboxReadiness

Instants are relative to the present: rows have an age (which stops at `MaxAge`) and a
time until they are due, workers a running time. A delivery is one step that succeeds
or fails; a failed one may have had its effect, as a call cut off by its timeout may.
Acknowledging and deferring may fail. A crash empties the memory of a process. The
passes of one process do not overlap (`Reaper.pass`), hence one "pass" worker for each
process; likewise one fast path.

### Sessions: SessionRequests, StatefulSessions, JWTSessions, SigningKeys

A request logs in, resumes, makes a change and reissues, or logs out; each read or
write of a store is a step. `Abandon` stands for every refusal that changes nothing,
every outage and a crash. Merged into one step: the two reads of the enrolled factors;
the clock reading with the store write that follows it; signing a token with storing
it; the plan of a renewal of keys with its clock and tombstone check. An instance may
use any keyset and any family or epoch state the store held less than `PollBound` ago,
which is what `RevocationCache` establishes of the caches. An access token is
remembered until it expires. Static and imported keys, resealing, the published key
set, custom claims and `Live` are left out. A lineage with two usable families is
"forked", a stage the contract does not have.

### Sign-in: Ceremonies, SecondFactors, SignIn, FactorChanges

Whether a presented code, secret or assertion is right is chosen by the environment.
A TOTP step is one instant. Each verified factor keeps the epoch of its verification.
Merged: finding the user with reading the password row; the two reads of the enrolled
factors; the account check of a passkey step with the ceremony's completion. SMS codes
have the control of emailed codes. `DeleteForScope` removes records; the marks of
stateless handles have no scope and stay. Left out: passkey reauthentication, clashing
credential ids, decoy answers, the cap on the records of a whole tenant.

### Reverts: SecurityNotices, SecurityReverts

One account with a verified email. Every mutation has an instant of its own. A
delivery may run late, twice or be cut off; a revert may be cut off at each call.
Assumed: a revert that is not cut off ends within its lease; time passes only while
no request other than a notice is in flight. Merged: setting the password and the
must-change flag; the peek and the account read of the plan; reading a slot table;
the two reads of `removeFactors`. A recovery email has the control of the phone.
An item is in use or not: an unconfirmed TOTP or a suspended passkey is removed like
any other but does not count as a second factor. Such items are there from the start;
enrolling without confirming, and suspending, during a revert are left out. A passkey
is assumed to be stored within `revertSlack` of its date. `completed` keeps apart the
span a revert recorded, which a full slot table widens, and the time the revert reached
itself. Enabling a disabled account again is left out.

## Runs

| run | instance | question |
|---|---|---|
| `token_families` | 2 tenants with one account each, 2 lineages, 3 families, 3 tokens, 2 clients, 3 instants, lag 1, lifetimes 2 and 3 | do index, token chain, finality of revocation, feed and separation of tenants survive every sequence of calls, racing Reissues included? |
| `token_replay` (violation) | 1 account, 2 lineages, 2 families, 3 tokens, 5 instants | is a consumed token kept as long as its family lives? |
| `cache_follower` | 1 key, 2 calls, capacity 1, pages of 1, at most 2 pages, 2 changes, 4 instants | is no answer older than `PollBound`, whatever polls do; is no change lost; are own writes seen and sealed epochs known? |
| `cache_feed_gap` (violation) | feed pruned before it was read | does `PollBound` hold without the exception for pruned entries? |
| `cache_erased` (violation) | removal without a feed entry | is an erased account refused after `PollBound`? |
| `outbox_instances` | 2 processes, 2 components, 1 mutation, 1 crash, 1 erasure | account last; done means delivered; one goroutine for each row; done is final |
| `outbox_liveness` | 1 process, 2 components, batch 1, 1 crash, 1 erasure, fairness | is a stale failing row always reported, every row done, every deleted account erased, and the instance ready again? |
| `ready_shared` (violation) | 2 processes, 1 component | is a stale failing row reported with a second instance? |
| `stateful_sessions` | 2 requests, up to 2 sessions, 3 epochs, 5 scenes | one row for each session; second factors and changes enforced in time; the contract |
| `jwt_sessions` | 2 requests, 1 session, 3 keys, 2 renewals, 9 scenes | the same for the JWT backend; tokens verify across key renewals; keys stay revoked |
| `sign_in` | 2 requests, 16 scenes | guesses bounded and throttled; proofs used once; one epoch for each admission; enrolments proved |
| `security_reverts` | 2 workers, 2 slots, lifetime 12, lease 9, 20 instants, 9 scenes | links serve their address; changes stay revertible; what a widened span swallows belongs to a disabled account; reverts are complete and final |

A scene (`scene`, chosen in `Init`) bounds what one behaviour may contain: which
operations start, how many epochs, secrets and logins there are, how far the clock
goes. All scenes are explored in one run.

### Bounds and why they are enough

Tokens: three families and three tokens are the least in which a chain forks, a family
is half reaped and a replaced family meets a rotation of the old one; the two lifetimes
let instances with different configuration rotate one family. Cache: with `PollBound` 2
and four instants an entry becomes stale, is trusted again after a late poll and the
feed is pruned in between; the run joins two specifications, one call with a lagging
poller over the whole time and two racing calls over a shorter one. Outbox: two
components are the least in which the account waits; all delays are 1 or 2, so each
order of expiry occurs. Sessions: two requests race on one session, a second session
is there where a change must spare one and end the other; the clock goes past
`RecheckEvery`, `PollBound` and the end of a session. Keys: three kids let a late
renewal retire the winner of an earlier one. Sign-in: each scene has the two journeys
that race and one instant past every lifetime it is about. Reverts: two slots and the
cap of two are the least at which the bookkeeping overflows; the `Gaps` scene starts
with both slots in use, so that one more revert swallows a change of another address. The proofs remove the
bounds for the properties they cover.

### Fairness

`outbox_liveness` assumes: time passes and the reaper's ticker starts passes (weak
fairness of `Tick`, `Retry`); a loop with rows goes on (weak fairness of the steps of a
worker); passes do not always use up their timeout before they come to their first row;
a subscriber, and an acknowledgement, tried again and again succeeds at last (strong
fairness of `Claim`, `DeliverOk`, `Ack`). The last two are assumptions about the
outside world; the code retries for ever and relies on them. No fairness is assumed of
mutations, crashes and erasures.

## Proofs

Checked by TLAPS for every value of the constants, under the `ASSUME`s of the modules.

- `TokenFamiliesProofs`: the inductive invariant `IInv` joins the checked invariants
  with `Ledger`: every held row was issued, to the owner of its lineage, in its family
  (`RowsIssued`); a token that was exchanged for another is marked consumed while it is
  held (`ExchangedConsumed`); a family that was revoked had been issued
  (`EndedIssued`). Without the first, a fresh family id could meet rows of an old one;
  without the second, `NoFork` fails when a consumed row is presented; without the
  third, `RevokedForGood` fails when a new family takes a revoked id. For
  `TenantIsolation`, every request is shown to leave the rows, revocations and family
  entries of the tenants outside its scope as they were (`RequestSpares`). All seven
  properties of `token_families` are theorems, the action properties included.
- `RevocationCacheProofs`: the poll that made the cache fresh had read every change
  older than its own beginning (`PageComplete`, `MarkVouches`, `PollVouches`), and a
  value is cached only while every change it misses is ahead of the cursor
  (`FillsCurrent`, `NoLostChange`). So a trusted entry misses only changes made since
  `lastPoll`, less than `PollBound` ago. Eviction with several keys, which the run's
  single key cannot show, is covered here.
- `LifecycleOutboxProofs`: `ErasedLast`, `DoneDelivered` and `OneGoroutinePerRow` are
  strengthened by "a worker about to acknowledge delivered its row" and "a worker that
  runs a row holds its claim". Action theorem: `FinishedForGood`.
  `ReadinessRefines`: the bookkeeping behind `Ready` never changes what a dispatcher
  does. `ReadyIsHonest` holds of one instance (`Alone`); `ready_shared` shows that it
  fails with two. Its invariant `RInv` says what the loops may still do to the rows they
  have read (`Hands`): while the fast path has time left nobody else touches its rows
  (`FastFirst`), and a row a pass has read is still due or was deferred once, by the
  fast path (`PassRead`, `PassRun`). It also says how far the memory may lag
  (`Memory`): a failing row is due at most `ForgetSlack` after its remembered retry
  (`Deferred`), so one that a pass did not read was not due when the pass began or is
  beyond a full batch (`PassMet`), and `forgetDone` keeps it. Rows are read in the order
  they were written (`RowOrder`). Two facts about the durations carry it, both
  in `ReadinessAssumption`: passes leave a new row alone for longer than a fast path
  starts deliveries (15 s of 30 s), and the first backoff is shorter than `ForgetSlack`
  (5 s of 1 min).
- `SessionRequestsProofs`: the lemmas about requests that both backends use: what each
  step of a request keeps, and the arithmetic of `Timely`.
- `StatefulSessionsProofs` and `StatefulSessionsTheorems`: a session is one row, whose
  lineage, epoch and factors only its own change replaces. A row is changed in place by
  touch and renewal (same lineage, epoch, factors) or removed; ids are fresh; the
  session kept by a change out of an old epoch never changes. From this, `Refinement`:
  every step of the backend is a step of `SessionContract` or leaves it unchanged. The
  bump of the epoch is `Change`, a Start is `Admit`, a Reissue is `Follow`, a
  reauthentication `Prove`, the removal of the row `End`. `Timeliness` states, with the
  instants at which a request began and a row was last checked, that whatever a request
  or a row lacks of what the account now asks was not yet asked then; `FactorEnforced`
  and `ChangesFollowed` follow.
- `JWTSessionsProofs` and `JWTSessionsTheorems`: the same argument for families and
  access tokens. An access token carries what its family carries and expires within
  `RecheckEvery` of its check, so the bounds are those of the stateful backend.
  `RevocationObeyed`: an instance accepts a family as it was less than `PollBound` ago.
  `KeysServed`: every keyset an instance may use holds the key of each unexpired token,
  or its retired form, for as long as the token lasts. A change of the keyset keeps
  this because a retired key is served for `Overlap`, at least `PollBound`,
  `RecheckEvery` and the duration of a renewal together (`KeyAssumption`). What an old
  keyset signs expires before `RecheckEvery` after the keyset falls out of use.
  `TokensVerify`, `KeysStayRevoked` and `SignerStays` follow.

### Model-checked only

- Liveness (`EveryRowDone`, `TombstonesErased`, `ReadyRecovers`): the prover does not
  support `ENABLED` and fairness.
- `KeepsContract` of the JWT backend. The stateful refinement is proved; for the JWT
  backend only the invariants are.
- The properties of `sign_in` and `security_reverts`. They depend on the scene that
  bounds a behaviour and on long sequences of program points.
- The four violations.

## Findings

PROJECT.json quotes the lines that disagree.

1. `token_replay`: the reaper deletes consumed rows at their idle expiry although the
   family lives on, so a later replay is not recognised as reuse.
2. `cache_feed_gap`: a follower at the zero cursor is not told of pruned entries.
3. `cache_erased`: accounts erased with their tenant stay in the epoch caches.
4. `ready_shared`: `forgetDone` forgets a stale row that another instance deferred.

## What the properties leave open

The properties name these cases as exceptions or bounds, because the code has them.

- Password guesses are bounded by the threshold and two for each further concurrent
  request: the counter is read before the comparison and written after it.
- Two requests that opened a stateless passkey handle before it expired can both mark
  it when the mark of the first lapses in between; `ProofUsedOnce` is checked within
  the lifetime.
- An unbound journey verified before a change may be admitted at the new epoch
  (`binds` in `FactorsOfOneEpoch`).
- Disabling the TOTP while the last passkey is removed can leave recovery codes without
  a factor, as the CHANGELOG says; `hasSecondFactor` refuses them.
- `enroll` checks that no TOTP is confirmed and saves in a later call, so an enrolment
  saved after a concurrent confirmation replaces the confirmed one, although
  `mfasvc.go` says of a confirmed TOTP that "it must be disabled first". The steps the
  replaced row had used go with it, so `ProofUsedOnce` speaks of a step as long as its
  enrolment is in place. That the confirmed secret was proved holds all the same.
- The check and the use of a reset are two steps.
- Reverts (`torn`): an anchor may be lost to two overlapping deliveries of one address,
  to a delivery cut off between its two writes, or to a delivery that overlaps a revert;
  a span to a revert cut off between consuming and rewriting it; a tenure to an email
  change committed on an older read of the account. A revert that restores another
  address drops the links and the anchor of the address it replaces, those of changes
  it does not reach included (`Replaced` in `EveryChangeRevertible`). A change made between a revert's
  plan and its end is neither reverted nor revertible.
- A token may outlive its key's own `NotAfter`, and a key younger than `PollBound` may
  be unknown at another instance (the exceptions of `SignedVerifies`).

## What is not modelled

PROJECT.json lists every part with its status. Left out are parts without shared state
(request edge, configuration checks, crypto, password policy, encodings), network
exchanges (federation, mail and SMS delivery), single atomic steps with nothing to
interleave (rate limiter, deployment values), and the PostgreSQL stores, whose SQL and
isolation levels the conformance suites compare with the in-memory stores that are
modelled. Much of the repository's Go is conformance suites, test support, static
analysis tools, construction of the object graph and SQL adapters; the modelled
lines are the stores and flows in which requests, processes and deliveries meet.
