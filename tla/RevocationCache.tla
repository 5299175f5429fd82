--------------------------- MODULE RevocationCache ---------------------------
(***************************************************************************)
(* The lookup-then-follow cache of internal/revoke (type follower), which  *)
(* every process keeps over the session families (Families), the security  *)
(* epochs (Epochs) and the tenant keysets (Keys), together with the store  *)
(* and the change feed it follows.                                         *)
(*                                                                         *)
(* A change of a key and its feed entry commit together, so the state of   *)
(* key k in the store is named by the feed position of its last change,    *)
(* 0 before the first one.  log is every entry the feed ever had; the      *)
(* store retains the positions above pruned.                               *)
(*                                                                         *)
(* The critical sections of follower.mu are the steps.  One Poll runs at a *)
(* time (pollMu).  follower.gen is only ever compared for equality with a  *)
(* value a lookup recorded, so "gen++" is modelled as marking every lookup *)
(* in flight as no longer current.                                         *)
(***************************************************************************)
EXTENDS Integers, Sequences, FiniteSets

CONSTANTS
    Key,            \* cache keys: families, subjects or tenants
    Reader,         \* goroutines of this process that call get
    Unannounced,    \* keys whose removal the store does not put in the feed
    DetectsGap,     \* TRUE when the store refuses a cursor older than its pruning
    Capacity,       \* Config.Capacity
    PollBound,      \* revoke.PollBound
    Retention,      \* age at which a feed entry is pruned
    Page,           \* entries per page of the feed
    MaxPages,       \* maxPagesPerPoll
    Seals,          \* epochs a session given to Check may be sealed under; {0}: get only
    MaxChanges,     \* bound: changes made to the store
    MaxTime         \* bound: the last instant of the clock

ASSUME CacheAssumption ==
    /\ Unannounced \subseteq Key
    /\ DetectsGap \in BOOLEAN
    /\ Capacity \in Nat \ {0}
    /\ Page \in Nat \ {0}
    /\ MaxPages \in Nat \ {0}
    /\ Seals \subseteq Nat
    /\ MaxChanges \in Nat

ASSUME BoundsAssumption ==
    /\ PollBound \in Nat \ {0}
    /\ Retention \in Nat
    /\ PollBound <= Retention
    /\ MaxTime \in Nat \ {0}

VARIABLES
    now,        \* the clock; instant 0 is Go's zero time
    log,        \* every change: its key and when it was made
    val,        \* position of the last change of each key
    gone,       \* when a key was removed from the store, 0 while it exists
    pruned,     \* the last position ReapExpired removed from the feed
    cursor,     \* follower.cursor
    lastPoll,   \* follower.lastPoll, 0 while follower.polled is false
    entries,    \* follower.entries: key -> position it was read at
    poll,       \* the Poll in progress
    reader,     \* the get or Check of each goroutine
    lapsed,     \* history: positions a page skipped because they were pruned
    own         \* history: position of each key when it was last forgotten

vars == <<now, log, val, gone, pruned, cursor, lastPoll, entries, poll, reader, lapsed, own>>
store == <<log, val, gone, pruned>>

Position == 0 .. Len(log)

Logged == [key : Key, at : 1 .. MaxTime]

Idle == [pc |-> "idle", began |-> 0, page |-> {}, next |-> 0, reset |-> FALSE, pages |-> 0]

NoCall(k) == [pc |-> "idle", key |-> k, sealed |-> 0, again |-> FALSE, fresh |-> FALSE,
              since |-> 0, current |-> FALSE, val |-> 0, at |-> 0]

Polling == [pc : {"idle", "read", "apply", "mark"}, began : Nat, page : SUBSET Key,
            next : Position, reset : BOOLEAN, pages : Nat]

Call == [pc : {"idle", "lookup", "fill", "done", "again"}, key : Key, sealed : Position,
         again : BOOLEAN, fresh : BOOLEAN, since : Position, current : BOOLEAN,
         val : Position, at : Nat]

-----------------------------------------------------------------------------
(* The store *)

Init ==
    /\ now = 1
    /\ log = <<>>
    /\ val = [k \in Key |-> 0]
    /\ gone = [k \in Key |-> 0]
    /\ pruned = 0
    /\ cursor = 0
    /\ lastPoll = 0
    /\ entries = [k \in {} |-> 0]
    /\ poll = Idle
    /\ \E k \in Key : reader = [r \in Reader |-> NoCall(k)]
    /\ lapsed = {}
    /\ own = [k \in Key |-> 0]

Tick ==
    /\ now < MaxTime
    /\ now' = now + 1
    /\ UNCHANGED <<log, val, gone, pruned, cursor, lastPoll, entries, poll, reader, lapsed, own>>

\* A change of k, made by any instance: a family is revoked, an epoch bumped, a
\* key rotated.  Its feed entry commits with it.
Change(k) ==
    /\ Len(log) < MaxChanges
    /\ gone[k] = 0
    /\ log' = Append(log, [key |-> k, at |-> now])
    /\ val' = [val EXCEPT ![k] = Len(log) + 1]
    /\ UNCHANGED <<now, gone, pruned, cursor, lastPoll, entries, poll, reader, lapsed, own>>

\* k is erased and the feed says so.
Erase(k) ==
    /\ Len(log) < MaxChanges
    /\ gone[k] = 0
    /\ log' = Append(log, [key |-> k, at |-> now])
    /\ val' = [val EXCEPT ![k] = Len(log) + 1]
    /\ gone' = [gone EXCEPT ![k] = now]
    /\ UNCHANGED <<now, pruned, cursor, lastPoll, entries, poll, reader, lapsed, own>>

\* k is erased and the feed does not say so: identity's EraseTenant deletes the
\* accounts of the tenant together with their rows of the epoch log.
EraseSilently(k) ==
    /\ k \in Unannounced
    /\ gone[k] = 0
    /\ gone' = [gone EXCEPT ![k] = now]
    /\ UNCHANGED <<now, log, val, pruned, cursor, lastPoll, entries, poll, reader, lapsed, own>>

\* The positions ReapExpired may remove: at least Retention old.
Prunable == {p \in 1 .. Len(log) : now - log[p].at >= Retention}

\* The feed half of ReapExpired.
Prune ==
    /\ \E p \in Prunable :
          /\ p > pruned
          /\ \A q \in Prunable : q <= p
          /\ pruned' = p
    /\ UNCHANGED <<now, log, val, gone, cursor, lastPoll, entries, poll, reader, lapsed, own>>

-----------------------------------------------------------------------------
(* Poll *)

\* "gen++": every lookup in flight is void.
Void == [r \in Reader |-> [reader[r] EXCEPT !.current = FALSE]]

Without(keys) == [k \in DOMAIN entries \ keys |-> entries[k]]

PollBegin ==
    /\ poll.pc = "idle"
    /\ poll' = [Idle EXCEPT !.pc = "read", !.began = now]
    /\ UNCHANGED <<now, store, cursor, lastPoll, entries, reader, lapsed, own>>

\* The store no longer retains what follows the cursor, and says so.
Gap == DetectsGap /\ cursor # 0 /\ cursor < pruned

\* The page that follows the cursor is (PageStart, PageEnd].
PageStart == IF cursor < pruned THEN pruned ELSE cursor

PageEnd ==
    CASE PageStart = Len(log)        -> cursor
      [] PageStart + Page <= Len(log) -> PageStart + Page
      [] OTHER                        -> Len(log)

\* The feed answers with the keys of one page.
PollRead ==
    /\ poll.pc = "read"
    /\ ~Gap
    /\ poll' = [poll EXCEPT !.pc = "apply",
                            !.page = {log[p].key : p \in PageStart + 1 .. PageEnd},
                            !.next = PageEnd,
                            !.pages = poll.pages + 1]
    /\ lapsed' = lapsed \cup (cursor + 1 .. pruned)
    /\ UNCHANGED <<now, store, cursor, lastPoll, entries, reader, own>>

\* The poll reads on, or gives up with errBacklog.
NextPage(p) == IF p.pages = MaxPages THEN Idle ELSE [p EXCEPT !.pc = "read"]

\* The feed answers store.ErrNotFound for the first time in this poll.
PollReset ==
    /\ poll.pc = "read"
    /\ Gap
    /\ ~poll.reset
    /\ entries' = Without(DOMAIN entries)
    /\ cursor' = 0
    /\ reader' = Void
    /\ poll' = NextPage([poll EXCEPT !.reset = TRUE, !.pages = poll.pages + 1])
    /\ UNCHANGED <<now, store, lastPoll, lapsed, own>>

\* The feed cannot be read: an error, a deadline, Stop, or a second gap.
PollFail ==
    /\ poll.pc = "read"
    /\ poll' = Idle
    /\ UNCHANGED <<now, store, cursor, lastPoll, entries, reader, lapsed, own>>

\* The page is applied; an empty one ends the poll.
PollApply ==
    /\ poll.pc = "apply"
    /\ entries' = Without(poll.page)
    /\ cursor' = poll.next
    /\ reader' = Void
    /\ poll' = IF poll.page = {} \/ poll.next = cursor
               THEN [poll EXCEPT !.pc = "mark"]
               ELSE NextPage(poll)
    /\ UNCHANGED <<now, store, lastPoll, lapsed, own>>

\* Mutant: the cache vouches for its entries as of the instant the poll ended.
PollMarkLate ==
    /\ poll.pc = "mark"
    /\ lastPoll' = now
    /\ poll' = Idle
    /\ UNCHANGED <<now, store, cursor, entries, reader, lapsed, own>>

\* The cache vouches for its entries as of the instant the poll began.
PollMark ==
    /\ poll.pc = "mark"
    /\ lastPoll' = poll.began
    /\ poll' = Idle
    /\ UNCHANGED <<now, store, cursor, entries, reader, lapsed, own>>

-----------------------------------------------------------------------------
(* get, forget and Check *)

\* freshLocked
Fresh == lastPoll # 0 /\ now - lastPoll < PollBound

\* A call answered from the cache.
Hit(k, sealed, again) ==
    [pc |-> "done", key |-> k, sealed |-> sealed, again |-> again, fresh |-> FALSE,
     since |-> 0, current |-> FALSE, val |-> entries[k], at |-> now]

\* A call that goes to the store and remembers the cursor (and gen).
Miss(k, sealed, again) ==
    [pc |-> "lookup", key |-> k, sealed |-> sealed, again |-> again, fresh |-> Fresh,
     since |-> cursor, current |-> TRUE, val |-> 0, at |-> 0]

\* The first critical section of get.
Access(r, k, sealed, again) ==
    reader' = [reader EXCEPT ![r] = IF Fresh /\ k \in DOMAIN entries
                                    THEN Hit(k, sealed, again)
                                    ELSE Miss(k, sealed, again)]

\* get(k), or Epochs.Check(k, sealed) of a session sealed under an epoch that
\* the store has committed; a plain get has sealed = 0.
Get(r, k, sealed) ==
    /\ reader[r].pc \in {"idle", "done"}
    /\ sealed <= val[k]
    /\ Access(r, k, sealed, FALSE)
    /\ UNCHANGED <<now, store, cursor, lastPoll, entries, poll, lapsed, own>>

Lookup(r) ==
    /\ reader[r].pc = "lookup"
    /\ gone[reader[r].key] = 0
    /\ reader' = [reader EXCEPT ![r] =
                    [@ EXCEPT !.pc = "fill", !.val = val[reader[r].key], !.at = now]]
    /\ UNCHANGED <<now, store, cursor, lastPoll, entries, poll, lapsed, own>>

\* The store has no such key or cannot answer.
LookupFail(r) ==
    /\ reader[r].pc = "lookup"
    /\ reader' = [reader EXCEPT ![r] = NoCall(@.key)]
    /\ UNCHANGED <<now, store, cursor, lastPoll, entries, poll, lapsed, own>>

\* lru.put: when the cache is full another entry makes room.
Put(k, v) ==
    \E kept \in SUBSET (DOMAIN entries \ {k}) :
        /\ \/ kept = DOMAIN entries \ {k} /\ Cardinality(kept) < Capacity
           \/ /\ Cardinality(DOMAIN entries \ {k}) >= Capacity
              /\ Cardinality(kept) = Capacity - 1
        /\ entries' = [x \in kept \cup {k} |-> IF x = k THEN v ELSE entries[x]]

\* Mutant: neither gen nor the cursor is compared.
CacheableAlways(c) == c.fresh /\ Fresh

\* The second critical section of get may cache what the lookup read.
Cacheable(c) == c.fresh /\ c.current /\ c.since = cursor /\ Fresh

Fill(r) ==
    /\ reader[r].pc = "fill"
    /\ IF Cacheable(reader[r])
       THEN Put(reader[r].key, reader[r].val)
       ELSE UNCHANGED entries
    /\ reader' = [reader EXCEPT ![r] = [@ EXCEPT !.pc = "done", !.fresh = FALSE,
                                                 !.since = 0, !.current = FALSE]]
    /\ UNCHANGED <<now, store, cursor, lastPoll, poll, lapsed, own>>

\* Mutant: forget without "gen++".
ForgetEntries(keys) ==
    /\ entries' = Without(keys)
    /\ own' = [k \in Key |-> IF k \in keys THEN val[k] ELSE own[k]]
    /\ UNCHANGED <<now, store, cursor, lastPoll, poll, reader, lapsed>>

\* Forget, ForgetSubject and ForgetTenant, after a write this process made.
Forget(keys) ==
    /\ entries' = Without(keys)
    /\ reader' = Void
    /\ own' = [k \in Key |-> IF k \in keys THEN val[k] ELSE own[k]]
    /\ UNCHANGED <<now, store, cursor, lastPoll, poll, lapsed>>

\* Check finds an epoch older than the sealed one: the cache is behind.
Behind(r) ==
    /\ reader[r].pc = "done"
    /\ ~reader[r].again
    /\ reader[r].val < reader[r].sealed

\* Mutant: the entry is dropped without "gen++".
RecheckEntry(r) ==
    /\ Behind(r)
    /\ entries' = Without({reader[r].key})
    /\ reader' = [reader EXCEPT ![r] = [@ EXCEPT !.pc = "again"]]
    /\ UNCHANGED <<now, store, cursor, lastPoll, poll, lapsed, own>>

\* Check drops the entry ...
Recheck(r) ==
    /\ Behind(r)
    /\ entries' = Without({reader[r].key})
    /\ reader' = [Void EXCEPT ![r] = [Void[r] EXCEPT !.pc = "again"]]
    /\ UNCHANGED <<now, store, cursor, lastPoll, poll, lapsed, own>>

\* ... and asks again.
GetAgain(r) ==
    /\ reader[r].pc = "again"
    /\ Access(r, reader[r].key, reader[r].sealed, TRUE)
    /\ UNCHANGED <<now, store, cursor, lastPoll, entries, poll, lapsed, own>>

-----------------------------------------------------------------------------
Next ==
    \/ Tick
    \/ \E k \in Key : Change(k) \/ Erase(k) \/ EraseSilently(k)
    \/ Prune
    \/ PollBegin \/ PollRead \/ PollReset \/ PollFail \/ PollApply \/ PollMark
    \/ \E r \in Reader, k \in Key, sealed \in Seals : Get(r, k, sealed)
    \/ \E r \in Reader : Lookup(r) \/ LookupFail(r) \/ Fill(r) \/ Recheck(r) \/ GetAgain(r)
    \/ \E keys \in SUBSET Key : Forget(keys)

Spec == Init /\ [][Next]_vars

-----------------------------------------------------------------------------
TypeOK ==
    /\ now \in 1 .. MaxTime
    /\ log \in Seq(Logged)
    /\ val \in [Key -> Position]
    /\ gone \in [Key -> 0 .. MaxTime]
    /\ pruned \in Position
    /\ cursor \in Position
    /\ lastPoll \in 0 .. MaxTime
    /\ DOMAIN entries \subseteq Key
    /\ entries \in [DOMAIN entries -> Position]
    /\ poll \in Polling
    /\ reader \in [Reader -> Call]
    /\ lapsed \subseteq Position
    /\ own \in [Key -> Position]

\* The changes of k later than the one at v: a value read at v is out of date
\* from the first of them on.
Superseding(k, v) == {p \in 1 .. Len(log) : p > v /\ log[p].key = k}

\* An answer read at v and given at t is out of date by less than PollBound.
Recent(k, v, t) == \A p \in Superseding(k, v) : t - log[p].at < PollBound

Answered(r) == reader[r].pc \in {"fill", "done"}

\* PollBound is "the revocation latency bound of both session backends": no call
\* is answered with a value that a change made PollBound or longer before had
\* replaced, whatever polls fail, lag or are overtaken.  The one exception is a
\* change the store pruned before the follower read it without telling it.
BoundedStaleness ==
    \A r \in Reader : Answered(r) =>
        \A p \in Superseding(reader[r].key, reader[r].val) \ lapsed :
            reader[r].at - log[p].at < PollBound

\* The same without the exception.
LatencyBound ==
    \A r \in Reader : Answered(r) => Recent(reader[r].key, reader[r].val, reader[r].at)

\* "The answer is cached only when no poll was applied in between, so a change is
\* never lost to a racing lookup": a change that an entry does not have is still
\* ahead of the cursor, so that a later poll evicts the entry.
NoLostChange ==
    \A k \in DOMAIN entries : \A p \in Superseding(k, entries[k]) \ lapsed : p > cursor

\* Forget: "a write made by this instance is visible to its next Get without
\* waiting for the poll": no entry is older than the last Forget of its key, not
\* even one that a lookup in flight during the Forget would have put back.
OwnWritesSeen == \A k \in DOMAIN entries : entries[k] >= own[k]

\* Epochs.Check never refuses a session as stale because the cache lags: the
\* second answer is at least as new as the epoch the session was sealed under.
SealedEpochKnown ==
    \A r \in Reader : Answered(r) /\ reader[r].again => reader[r].val >= reader[r].sealed


\* Check answers ErrStaleEpoch for a subject that does not exist: no call is
\* answered for a key that left the store PollBound or longer before.
ErasedUnknown ==
    \A r \in Reader :
        LET k == reader[r].key IN
        Answered(r) /\ gone[k] # 0 => reader[r].at - gone[k] < PollBound

-----------------------------------------------------------------------------
(* The inductive invariant behind the properties above. *)

\* val names the last change of each key.
ValExact == \A k \in Key : Superseding(k, val[k]) = {}

\* Nothing happens in the future, and what was pruned is old.
InOrder ==
    /\ \A p \in 1 .. Len(log) : log[p].at <= now
    /\ pruned # 0 => now - log[pruned].at >= Retention
    /\ \A r \in Reader : reader[r].at <= now
    /\ lastPoll <= now
    /\ poll.began <= now
    /\ poll.pc # "idle" => poll.began # 0

\* Every change made before instant t is behind the cursor position c.
ReadUpTo(c, t) == \A p \in (1 .. Len(log)) \ lapsed : log[p].at < t => p <= c

\* While the cache is fresh it has read every change older than its last poll.
PollVouches == Fresh => ReadUpTo(cursor, lastPoll)

\* What the poll in progress has read is all there is between the cursor and next.
PageComplete ==
    poll.pc = "apply" =>
        /\ poll.next >= cursor
        /\ \A p \in (1 .. Len(log)) \ lapsed : p > cursor /\ p <= poll.next => log[p].key \in poll.page
        /\ poll.page = {} \/ poll.next = cursor => ReadUpTo(poll.next, poll.began)

MarkVouches == poll.pc = "mark" => ReadUpTo(cursor, poll.began)

\* A follower that is told of gaps only ever skips positions from the zero cursor.
LapsedBehind ==
    /\ lapsed \subseteq 1 .. pruned
    /\ DetectsGap /\ cursor # 0 => \A p \in lapsed : p <= cursor
    /\ DetectsGap /\ poll.pc = "apply" /\ poll.next # 0 => \A p \in lapsed : p <= poll.next

\* The value a current lookup holds could be cached.
InFlight(r) == reader[r].pc = "fill" /\ reader[r].current

FillsCurrent ==
    \A r \in Reader : InFlight(r) =>
        /\ \A p \in Superseding(reader[r].key, reader[r].val) \ lapsed : p > cursor
        /\ reader[r].val >= own[reader[r].key]

OwnBehind == \A k \in Key : own[k] <= val[k]

\* Between the two halves of a recheck nothing older than the sealed epoch can
\* enter the cache.
RecheckClean ==
    \A r \in Reader :
        /\ reader[r].sealed <= val[reader[r].key]
        /\ reader[r].pc = "again" =>
              /\ reader[r].key \in DOMAIN entries => entries[reader[r].key] >= reader[r].sealed
              /\ \A o \in Reader :
                    InFlight(o) /\ reader[o].key = reader[r].key
                    => reader[o].val >= reader[r].sealed

IInv ==
    /\ TypeOK
    /\ ValExact
    /\ InOrder
    /\ PollVouches
    /\ PageComplete
    /\ MarkVouches
    /\ LapsedBehind
    /\ FillsCurrent
    /\ OwnBehind
    /\ RecheckClean
    /\ BoundedStaleness
    /\ NoLostChange
    /\ OwnWritesSeen
    /\ SealedEpochKnown

=============================================================================
