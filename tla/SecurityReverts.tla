--------------------------- MODULE SecurityReverts ---------------------------
(***************************************************************************)
(* The revert of security changes from the link of a notice                *)
(* (internal/identitysvc/revert.go and revert_mark.go), over the changes   *)
(* and notices of module SecurityNotices.  One revert of an account runs   *)
(* at a time, under a lease in the ceremony store; each of its calls of a  *)
(* store is a step, between which other requests and deliveries run, and   *)
(* after each of which it may fail or its process may stop.                *)
(*                                                                         *)
(* Assumed of time: a revert that is not cut off finishes within its       *)
(* lease, as its calls take far less than the minute of revertLease.       *)
(***************************************************************************)
EXTENDS SecurityNotices

CONSTANT Lease     \* revertLease

ASSUME LeaseAssumption == Lease \in 1 .. TTL

Lock == <<"lock", "", 0>>

Reverting(w) == work[w].op = "revert" /\ ~At(w, "lock")

Covers(s, t) == t >= s.since - Slack

Covered(s, kinds) == {i \in DOMAIN items : i[1] \in kinds /\ Covers(s, items[i].at)}

Factors == {"totp", "passkey"}
Identifiers == {"email", "phone"}

OfKind(kind) == {i \in DOMAIN items : i[1] = kind}

-----------------------------------------------------------------------------
\* Accounts.revertOnce: Peek and GetUser, the lease, and Peek again.

BeginRevert(w) ==
    /\ Free(w) /\ Uses("reverts")
    /\ \E r \in 1 .. Len(rows) :
         /\ Live(Link(r))
         /\ Become(w, [Idle EXCEPT !.op = "revert", !.pc = "lock", !.id = r])
    /\ UNCHANGED <<scene, now, account, taken, items, rows, records, noticed, completed, torn>>

\* lockReverts: the record is dated so that it expires with the lease.
TakeLock(w) ==
    /\ At(w, "lock")
    /\ IF Live(Lock) THEN Become(w, Idle) /\ UNCHANGED records
       ELSE Put(Lock, Mark(0, now + Lease - TTL, "")) /\ Goto(w, "peek")
    /\ UNCHANGED <<scene, now, account, taken, items, rows, spent, noticed, completed, torn>>

Leave(w) == Goto(w, "release")

\* planRevert: the account must be usable, and only the link of an identifier
\* change works from an address the account no longer has.
Plan(w) ==
    LET r == work[w].id
        a == records[Link(r)].addr
        restore == account.email # a
    IN  /\ At(w, "peek")
        /\ IF /\ Live(Link(r))
              /\ ~account.disabled
              /\ restore => rows[r].event \in Identifiers
           THEN Become(w, [work[w] EXCEPT !.pc = "plan", !.addr = a, !.restore = restore,
                    !.email = account.email, !.at = account.at, !.since = rows[r].at,
                    !.seen = items,
                    !.phone = IF OfKind("phone") = {} THEN -1 ELSE items[CHOOSE i \in OfKind("phone") : TRUE].at])
           ELSE Leave(w)
        /\ UNCHANGED <<scene, now, account, taken, items, rows, records, spent, noticed, completed, torn>>

CheckSpans(w) ==
    /\ At(w, "plan")
    /\ IF Superseded(work[w].since) THEN Leave(w) ELSE Goto(w, "anchor")
    /\ UNCHANGED <<scene, now, account, taken, items, rows, records, spent, noticed, completed, torn>>

\* The revert reaches back to the first change the address was told of.
Since(w) ==
    LET s == work[w] IN
    /\ At(w, "anchor")
    /\ Become(w, [s EXCEPT !.pc = "lock_down",
            !.since = IF Held(s.addr) = {} THEN @ ELSE Min({First(s.addr), @})])
    /\ UNCHANGED <<scene, now, account, taken, items, rows, records, spent, noticed, completed, torn>>

-----------------------------------------------------------------------------
\* revertRun.apply

\* lockDown: SetPassword and SetMustChange.
LockDown(w) ==
    /\ At(w, "lock_down")
    /\ Applies("revert", account)
    /\ Become(w, [work[w] EXCEPT !.last = now, !.pc = IF work[w].restore THEN "restore" ELSE "factors"])
    /\ UNCHANGED <<scene, taken, items, records, spent, noticed, completed, torn>>

Restore(w) ==
    LET s == work[w] IN
    /\ At(w, "restore")
    /\ IF s.addr \in taken
       THEN /\ Become(w, [s EXCEPT !.taken = TRUE, !.pc = "factors"])
            /\ UNCHANGED <<now, account, rows, torn>>
       ELSE LET done == [s EXCEPT !.last = now] IN Changed(w, done, [done EXCEPT !.pc = "factors"])
    /\ UNCHANGED <<scene, taken, items, records, spent, noticed, completed>>

\* What is left to do with the factors that s.drop lists.
Has(s, kind) == \E i \in s.drop : i[1] = kind
AfterTotp(s) == IF Has(s, "passkey") THEN "passkeys" ELSE "links"
AfterStrip(s) == IF Has(s, "totp") THEN "totp" ELSE AfterTotp(s)

\* The second factors in use among the items I.
Usable(I) == {i \in DOMAIN I : i[1] \in Factors /\ I[i].active}

\* Mutant: a factor that is not in use counts as kept.
RemoveButIdle(w) ==
    LET drop == Covered(work[w], Factors)
        kept == {i \in DOMAIN items : i[1] \in Factors} \ drop
        s == [work[w] EXCEPT !.drop = drop, !.stripped = Usable(items) # {} /\ kept = {}]
    IN  /\ At(w, "factors")
        /\ Become(w, [s EXCEPT !.pc = IF s.stripped THEN "strip" ELSE AfterStrip(s)])
        /\ UNCHANGED <<scene, now, account, taken, items, rows, records, spent, noticed, completed, torn>>

\* removeFactors: if the account had a second factor in use and keeps none, it is
\* disabled first.
RemoveFactors(w) ==
    LET drop == Covered(work[w], Factors)
        had == Usable(items)
        s == [work[w] EXCEPT !.drop = drop, !.stripped = had # {} /\ had \subseteq drop]
    IN  /\ At(w, "factors")
        /\ Become(w, [s EXCEPT !.pc = IF s.stripped THEN "strip" ELSE AfterStrip(s)])
        /\ UNCHANGED <<scene, now, account, taken, items, rows, records, spent, noticed, completed, torn>>

Disables(w, pc) ==
    /\ Applies("disable", [account EXCEPT !.disabled = TRUE])
    /\ Become(w, [work[w] EXCEPT !.last = now, !.pc = pc])
    /\ UNCHANGED <<scene, taken, items, records, spent, noticed, completed, torn>>

Strip(w) == At(w, "strip") /\ Disables(w, AfterStrip(work[w]))

BumpFactors(w) ==
    /\ At(w, "totp") \/ At(w, "passkeys")
    /\ Applies("factors", account)
    /\ Become(w, [work[w] EXCEPT !.last = now,
            !.pc = IF @ = "totp" THEN "delete_totp" ELSE "delete_passkey"])
    /\ UNCHANGED <<scene, taken, items, records, spent, noticed, completed, torn>>

Remove(I) == items' = Restrict(items, DOMAIN items \ I)

\* Store.DeleteForSubject deletes the enrolment there is.
DeleteTotp(w) ==
    LET s == [work[w] EXCEPT !.drop = {i \in @ : i[1] # "totp"}] IN
    /\ At(w, "delete_totp")
    /\ Remove(OfKind("totp"))
    /\ Become(w, [s EXCEPT !.pc = AfterTotp(s)])
    /\ UNCHANGED <<scene, now, account, taken, rows, records, spent, noticed, completed, torn>>

\* The next of the items a revert has listed, in an order that it has no say in.
DeletePasskey(w) ==
    /\ At(w, "delete_passkey")
    /\ \E i \in work[w].drop :
         /\ Remove({i})
         /\ LET rest == work[w].drop \ {i}
            IN  Become(w, [work[w] EXCEPT !.drop = rest, !.pc = IF rest = {} THEN "links" ELSE @])
    /\ UNCHANGED <<scene, now, account, taken, rows, records, spent, noticed, completed, torn>>

\* removeIdentifiers looks at the account as it was when the revert was planned.
AfterLinks(s) == IF s.phone >= 0 /\ Covers(s, s.phone) THEN "phone" ELSE "keys"

ListLinks(w) ==
    LET links == Covered(work[w], {"link"})
    IN  /\ At(w, "links")
        /\ Become(w, [work[w] EXCEPT !.drop = links,
                !.pc = IF links = {} THEN AfterLinks(work[w]) ELSE "unlink"])
        /\ UNCHANGED <<scene, now, account, taken, items, rows, records, spent, noticed, completed, torn>>

Unlink(w) ==
    /\ At(w, "unlink")
    /\ \E i \in work[w].drop :
         /\ Applies("factors", account)
         /\ Remove({i})
         /\ LET rest == work[w].drop \ {i}
            IN  Become(w, [work[w] EXCEPT !.drop = rest, !.last = now,
                        !.pc = IF rest = {} THEN AfterLinks(work[w]) ELSE @])
    /\ UNCHANGED <<scene, taken, records, spent, noticed, completed, torn>>

RemovePhone(w) ==
    /\ At(w, "phone")
    /\ Applies("phone", account)
    /\ Remove(OfKind("phone"))
    /\ Become(w, [work[w] EXCEPT !.last = now, !.pc = "keys"])
    /\ UNCHANGED <<scene, taken, records, spent, noticed, completed, torn>>

ListKeys(w) ==
    LET keys == Covered(work[w], {"key"})
    IN  /\ At(w, "keys")
        /\ Become(w, [work[w] EXCEPT !.drop = keys, !.pc = IF keys = {} THEN "widens" ELSE "revoke"])
        /\ UNCHANGED <<scene, now, account, taken, items, rows, records, spent, noticed, completed, torn>>

RevokeKey(w) ==
    /\ At(w, "revoke")
    /\ \E i \in work[w].drop :
         /\ Remove({i})
         /\ LET rest == work[w].drop \ {i}
            IN  Become(w, [work[w] EXCEPT !.drop = rest, !.pc = IF rest = {} THEN "widens" ELSE @])
    /\ UNCHANGED <<scene, now, account, taken, rows, records, spent, noticed, completed, torn>>

-----------------------------------------------------------------------------
\* The span that the revert covered is recorded: merged with one it overlaps,
\* else in a free slot, else by widening the latest, which takes changes in
\* between along.

Overlapping(from, to) ==
    {i \in Slot : Live(Span(i)) /\ records[Span(i)].from <= to /\ from <= records[Span(i)].at}

Unused == {i \in Slot : ~Live(Span(i))}

LatestSpan == Min({i \in Slot : \A j \in Slot : records[Span(i)].at >= records[Span(j)].at})

PickSpan(from, to) ==
    IF Overlapping(from, to) # {} THEN Min(Overlapping(from, to))
    ELSE IF Unused # {} THEN Min(Unused) ELSE LatestSpan

Widens(from, to) == Overlapping(from, to) = {} /\ Unused = {}

\* Mutant: the account is disabled only when its address was taken.
SpanWidensEnabled(w) ==
    LET s == work[w] IN
    /\ At(w, "widens")
    /\ Become(w, [s EXCEPT !.end = s.last, !.pc = IF s.taken /\ ~s.stripped THEN "disable" ELSE "span"])
    /\ UNCHANGED <<scene, now, account, taken, items, rows, records, spent, noticed, completed, torn>>

\* The end of the span is fixed before the account is disabled.
SpanWidens(w) ==
    LET s == work[w] IN
    /\ At(w, "widens")
    /\ Become(w, [s EXCEPT !.end = s.last,
            !.pc = IF (s.taken \/ Widens(s.since, s.last)) /\ ~s.stripped THEN "disable" ELSE "span"])
    /\ UNCHANGED <<scene, now, account, taken, items, rows, records, spent, noticed, completed, torn>>

Disable(w) == At(w, "disable") /\ Disables(w, "span")

ReadSpans(w) ==
    LET s == work[w]
        i == PickSpan(s.since, s.end)
        old == records[Span(i)]
    IN  /\ At(w, "span")
        /\ Become(w, [s EXCEPT !.slot = i,
                !.from = IF Live(Span(i)) THEN Min({old.from, s.since}) ELSE s.since,
                !.to = IF Live(Span(i)) THEN Max({old.at, s.end}) ELSE s.end,
                !.pc = IF Live(Span(i)) THEN "clear_span" ELSE "put_span"])
        /\ UNCHANGED <<scene, now, account, taken, items, rows, records, spent, noticed, completed, torn>>

ClearSpan(w) ==
    /\ At(w, "clear_span")
    /\ Consume({Span(work[w].slot)})
    /\ Goto(w, "put_span")
    /\ UNCHANGED <<scene, now, account, taken, items, rows, spent, noticed, completed, torn>>

\* No other revert runs, so the slot is free.
PutSpan(w) ==
    LET s == work[w] IN
    /\ At(w, "put_span")
    /\ Put(Span(s.slot), Mark(s.from, s.to, ""))
    /\ completed' = completed \cup {[from |-> s.from, to |-> s.to, since |-> s.since, end |-> s.end,
                                      replaced |-> IF s.restore /\ ~s.taken THEN s.email ELSE ""]}
    /\ Become(w, [s EXCEPT !.pc = "drop", !.slot = 0])
    /\ UNCHANGED <<scene, now, account, taken, items, rows, spent, noticed, torn>>

\* dropAnchor, slot by slot; s is what follows.
DropSlot(w, a, s) ==
    /\ Consume({Anchor(a, work[w].slot)})
    /\ Become(w, IF work[w].slot = 0 THEN [work[w] EXCEPT !.slot = 1] ELSE s)
    /\ Tears(a, \E o \in Worker : Linking(o, a))
    /\ UNCHANGED <<scene, now, account, taken, items, rows, spent, noticed, completed>>

AfterDrop(s) ==
    IF s.restore /\ ~s.taken THEN [s EXCEPT !.pc = "drop_old", !.slot = 0] ELSE [s EXCEPT !.pc = "consume"]

\* The anchor of the address the link went to, and of the address the revert replaced.
DropAnchor(w) == At(w, "drop") /\ DropSlot(w, work[w].addr, AfterDrop(work[w]))
DropOld(w) == At(w, "drop_old") /\ DropSlot(w, work[w].email, [work[w] EXCEPT !.pc = "drop_links"])

\* dropReverts: the links of the address that the revert replaced.
DropLinks(w) ==
    LET a == work[w].email IN
    /\ At(w, "drop_links")
    /\ Consume({Link(r) : r \in LinksAt(a)})
    /\ Goto(w, "consume")
    /\ Tears(a, \E o \in Worker : Linking(o, a))
    /\ UNCHANGED <<scene, now, account, taken, items, rows, spent, noticed, completed>>

ConsumeLink(w) ==
    /\ At(w, "consume")
    /\ Consume({Link(work[w].id)})
    /\ Goto(w, "release")
    /\ UNCHANGED <<scene, now, account, taken, items, rows, spent, noticed, completed, torn>>

Release(w) ==
    /\ At(w, "release")
    /\ Consume({Lock})
    /\ Become(w, Idle)
    /\ UNCHANGED <<scene, now, account, taken, items, rows, spent, noticed, completed, torn>>

-----------------------------------------------------------------------------

\* The errors of these calls are ignored.
BestEffort == {"tenure", "tenure_clear", "tenure_put", "drop", "drop_old", "drop_links", "consume"}

Skipped(w) ==
    LET s == work[w] IN
    CASE s.pc \in {"drop", "drop_old"} /\ s.slot = 0 -> [s EXCEPT !.slot = 1]
      [] At(w, "drop")       -> AfterDrop(s)
      [] At(w, "drop_old")   -> [s EXCEPT !.pc = "drop_links"]
      [] At(w, "drop_links") -> [s EXCEPT !.pc = "consume"]
      [] At(w, "consume")    -> [s EXCEPT !.pc = "release"]
      [] OTHER               -> AfterTenure(w)

\* What a request that ends here leaves half written.
Tear(w) ==
    torn' = [torn EXCEPT
        !.spans = IF At(w, "put_span") THEN @ \cup {c \in completed : work[w].from <= c.from /\ c.to <= work[w].to}
                  ELSE @,
        !.anchors = IF At(w, "hold_put") THEN @ \cup {work[w].addr} ELSE @]

\* A call of a store fails: the request or delivery ends, and a revert gives
\* its lease back.
Fail(w) ==
    /\ ~Free(w) /\ ~At(w, "release") /\ Uses("faults")
    /\ Become(w, CASE work[w].pc \in BestEffort -> Skipped(w)
                   [] Reverting(w)              -> [work[w] EXCEPT !.pc = "release"]
                   [] OTHER                     -> Idle)
    /\ Tear(w)
    /\ UNCHANGED <<scene, now, account, taken, items, rows, records, noticed, completed>>

\* The process stops: the lease of a revert stays until it expires.
Crash(w) ==
    /\ Reverting(w) \/ work[w].pc \in BestEffort
    /\ Uses("faults")
    /\ Become(w, Idle)
    /\ Tear(w)
    /\ UNCHANGED <<scene, now, account, taken, items, rows, records, noticed, completed>>

\* Time passes to the next instant at which a record or a link lapses; expired
\* records are reaped.
Tick ==
    LET dates == {records[k].at + TTL : k \in DOMAIN records} \cup {rows[r].at + TTL : r \in 1 .. Len(rows)}
        later == {t \in dates : t > now /\ t <= MaxTime}
    IN  /\ scene.waits
        /\ later # {}
        /\ now' = Min(later)
        /\ \A w \in Worker : work[w].op \in {"none", "notice"}
        /\ records' = Restrict(records, {k \in DOMAIN records : records[k].at + TTL > Min(later)})
        /\ UNCHANGED <<scene, account, taken, items, rows, work, spent, noticed, completed, torn>>

RevertStep(w) ==
    \/ BeginRevert(w) \/ TakeLock(w) \/ Plan(w) \/ CheckSpans(w) \/ Since(w)
    \/ LockDown(w) \/ Restore(w) \/ RemoveFactors(w) \/ Strip(w) \/ BumpFactors(w)
    \/ DeleteTotp(w) \/ DeletePasskey(w) \/ ListLinks(w) \/ Unlink(w) \/ RemovePhone(w)
    \/ ListKeys(w) \/ RevokeKey(w) \/ SpanWidens(w) \/ Disable(w)
    \/ ReadSpans(w) \/ ClearSpan(w) \/ PutSpan(w) \/ DropAnchor(w) \/ DropOld(w) \/ DropLinks(w)
    \/ ConsumeLink(w) \/ Release(w) \/ Fail(w) \/ Crash(w)

Next ==
    \/ ChangePassword \/ TakeAddress \/ Tick
    \/ \E w \in Worker : NoticeStep(w) \/ RevertStep(w)

Spec == Init /\ [][Next]_vars

-----------------------------------------------------------------------------
\* Properties.  Each names what it leaves out: bookkeeping spoilt by writes that
\* overlap or are cut off, which torn records.

\* "a late notice never reaches, nor arms, the address that replaced it": whatever
\* email changes and deliveries race, a link is stored for the address the account
\* had when the change was made (SecurityNotice, emailAt).  Left out are tenures
\* that overlap, because a change was committed on an older read of the account
\* and the address had come back meanwhile.
LinkAtItsAddress == torn.tenures \/ \A n \in noticed : n.addr = rows[n.row].email

Within(t, c) == c.from <= t /\ t <= c.to

\* "once a revert already covered the change, it has no link": a change in the span
\* of a finished revert is never reverted again, by an older link, a link that is
\* delivered again or one that was opened before (superseded, recordSpan).  Left
\* out are spans that a revert had consumed when it was cut off.
RevertedForGood ==
    \A w \in Worker : At(w, "lock_down") =>
        \A c \in completed \ torn.spans : ~Within(rows[work[w].id].at, c)

\* A finished revert itself reached the change of instant t; a widened span holds
\* more.
Reverted(t) == \E c \in completed : c.since <= t /\ t <= c.end

\* A change that no revert reached, but that a widened span took along, so that its
\* links are dead, belongs to a disabled account: whoever enables it again has to
\* look at it (pickSpan, spanWidens).
GapsLocked == ~account.disabled => \A r \in 1 .. Len(rows) : Superseded(rows[r].at) => Reverted(rows[r].at)

\* A link of address a works now and reaches back to instant t.
Reached(t, a) ==
    \E r \in LinksAt(a) :
        /\ account.email = a \/ rows[r].event \in Identifiers
        /\ ~Superseded(rows[r].at)
        /\ t >= IF Held(a) = {} THEN rows[r].at ELSE Min({First(a), rows[r].at})

\* The notices of the email changes away from address a, but for the reverted ones,
\* are delivered.
ToldOfMoves(a) ==
    \A r \in 1 .. Len(rows) :
        rows[r].event = "email" /\ rows[r].email = a /\ ~Reverted(rows[r].at)
            => [row |-> r, addr |-> a] \in noticed

\* A revert restored another address over a, and dropped what a had been told until
\* then (dropAnchor, dropReverts).
Replaced(a, t) == \E c \in completed : c.replaced = a /\ t <= c.end

\* "a later security change by the hijacker must not disarm it": a change an address
\* was told of can be reverted from that address for the seven days of its link,
\* through its own link or, once that is evicted, through a later one and the
\* anchor.  Once the account has left the address this takes the link of the move,
\* so it is said when that notice is delivered.  It ends when a revert reaches the
\* change, when the account is disabled, and when a revert from another address
\* replaces this one as the account's email.  Left out are anchors written by two
\* deliveries at once, by a delivery while a revert from or over that address runs,
\* or by one that was cut off.
EveryChangeRevertible ==
    (\A w \in Worker : Free(w)) /\ ~account.disabled =>
        \A n \in noticed :
            LET t == rows[n.row].at IN
            /\ now < t + TTL
            /\ n.addr \notin torn.anchors
            /\ ~Reverted(t) /\ ~Replaced(n.addr, t)
            /\ account.email = n.addr \/ ToldOfMoves(n.addr)
            => Reached(t, n.addr)

\* A revert leaves nothing of what it found and covers, however requests add
\* meanwhile, and never an enabled account without a second factor in use when it
\* found one, an unconfirmed TOTP or a suspended passkey it keeps being none: not
\* even when it is cut off between two removals (revertRun.apply, removeFactors).
RevertComplete ==
    \A w \in Worker :
        LET s == work[w] IN
        /\ At(w, "drop") => \A i \in DOMAIN s.seen \cap DOMAIN items : ~Covers(s, items[i].at)
        /\ Reverting(w) /\ Usable(s.seen) # {} /\ Usable(items) = {} => account.disabled

=============================================================================
