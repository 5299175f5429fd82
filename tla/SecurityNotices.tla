--------------------------- MODULE SecurityNotices ---------------------------
(***************************************************************************)
(* Security changes of one account with a verified email, and the notices  *)
(* the lifecycle outbox delivers about them (internal/identitysvc: email,  *)
(* phone, change, revert, revert_mark).  A notice goes to the address the  *)
(* account had when the change was made and carries a revert link.         *)
(*                                                                         *)
(* The links and all bookkeeping are SecurityRevert records of the         *)
(* ceremony store: the anchor of an address remembers in two slots from    *)
(* when on a revert from that address reaches back, the tenures remember   *)
(* the former addresses, the spans (module SecurityReverts) what reverts   *)
(* already covered.  Every call of a store is a step of its own.           *)
(*                                                                         *)
(* Each mutation of the account has an instant of its own, so the          *)
(* microsecond that separates a revert's end from the next change is less  *)
(* than one unit of time here.                                             *)
(***************************************************************************)
EXTENDS Integers, Sequences, FiniteSets, FiniteSetsExt, Functions, TLC

CONSTANTS
    Worker,        \* goroutines: requests and deliveries, of any instance
    Address,       \* email addresses
    TTL,           \* ceremony.SecurityRevert.TTL
    Cap,           \* its MaxLivePerScope
    Slots,         \* revertSpans: slots of the spans and of the tenures
    Slack,         \* revertSlack
    MaxTime,       \* bound on the clock
    Scenario       \* what the requests of a behaviour may do

HoldTries == 3

VARIABLES
    scene,         \* the scenario of this behaviour
    now,           \* the clock
    account,       \* email, when it was verified, whether disabled
    taken,         \* addresses that another account holds
    items,         \* factor, federated link, phone or API key -> since when, and whether it
                   \* is in use: not so an unconfirmed TOTP or a suspended passkey
    rows,          \* outbox rows of the notices component, as written
    records,       \* SecurityRevert records of the ceremony store
    work,          \* worker -> the call it is running
    spent,         \* how much of the scenario has been used
    noticed,       \* history: rows whose link has been stored
    completed,     \* history: finished reverts: the span recorded, from when to when the revert
                   \* itself reached, and the address it replaced
    torn           \* history: bookkeeping that a race or a fault has spoilt

vars == <<scene, now, account, taken, items, rows, records, work, spent, noticed, completed, torn>>

\* The keys of the records.  A row's link has a handle derived from the row.
Link(r) == <<"link", "", r>>
Anchor(a, i) == <<"anchor", a, i>>
Span(i) == <<"span", "", i>>
Tenure(i) == <<"tenure", "", i>>

Slot == 1 .. Slots

-----------------------------------------------------------------------------
\* The ceremony store.  An expired record is as good as absent.

Live(k) == k \in DOMAIN records /\ now < records[k].at + TTL

Without(K) == Restrict(records, DOMAIN records \ K)

Put(k, mark) == records' = (k :> mark) @@ Without({k})

Consume(K) == records' = Without(K)

LinksAt(a) == {r \in 1 .. Len(rows) : Live(Link(r)) /\ records[Link(r)].addr = a}

\* The links that a Put of row r's link evicts from the scope of address a.
Evicted(r, a) ==
    LET others == LinksAt(a) \ {r}
    IN  IF Cardinality(others) < Cap THEN {}
        ELSE {o \in others : Cardinality({p \in others : p > o}) >= Cap - 1}

Mark(from, at, a) == [from |-> from, at |-> at, addr |-> a]

-----------------------------------------------------------------------------

Idle == [op |-> "none", pc |-> "idle", id |-> 0, email |-> "", at |-> 0, addr |-> "",
         restore |-> FALSE, taken |-> FALSE, stripped |-> FALSE, since |-> 0, last |-> 0,
         end |-> 0, seen |-> <<>>, phone |-> -1, drop |-> {}, slot |-> 0, from |-> 0, to |-> 0, other |-> FALSE, tries |-> 0]

Become(w, s) == work' = [work EXCEPT ![w] = s]
Goto(w, pc) == Become(w, [work[w] EXCEPT !.pc = pc])
At(w, pc) == work[w].pc = pc
Free(w) == At(w, "idle")

Uses(f) == spent[f] < scene[f] /\ spent' = [spent EXCEPT ![f] = @ + 1]

\* Store.Apply: the mutation and its row commit at one instant.
Applies(event, next) ==
    /\ now < MaxTime
    /\ now' = now + 1
    /\ account' = next
    /\ rows' = Append(rows, [event |-> event, at |-> now, email |-> account.email])

Init ==
    /\ scene \in Scenario
    /\ now = 1
    /\ account = [email |-> scene.email, at |-> 0, disabled |-> FALSE]
    /\ taken = {}
    /\ items = scene.items
    /\ rows = <<>>
    /\ records = scene.records
    /\ work = [w \in Worker |-> Idle]
    /\ spent = [f \in {"passwords", "changes", "adds", "takes", "notices", "reverts", "faults"} |-> 0]
    /\ noticed = {} /\ completed = scene.completed /\ torn = [anchors |-> {}, spans |-> {}, tenures |-> FALSE]

-----------------------------------------------------------------------------
\* Changes of the account.

ChangePassword ==
    /\ Uses("passwords")
    /\ ~account.disabled
    /\ Applies("password", account)
    /\ UNCHANGED <<scene, taken, items, records, work, noticed, completed, torn>>

\* Another account takes an address that this one does not have.
TakeAddress ==
    /\ Uses("takes")
    /\ \E a \in Address \ (taken \cup {account.email}) : taken' = taken \cup {a}
    /\ UNCHANGED <<scene, now, account, items, rows, records, work, noticed, completed, torn>>

\* A signed-in request adds a factor, a phone or a key: it checks the account,
\* bumps the epoch and stores the item.  A passkey is dated before the bump, which
\* is assumed to follow within revertSlack.
BeginAdd(w) ==
    /\ Free(w) /\ Uses("adds")
    /\ ~account.disabled
    /\ \E kind \in scene.kinds :
         Become(w, [Idle EXCEPT !.op = kind, !.id = spent.adds + 1, !.at = now,
                        !.pc = IF kind = "key" THEN "save" ELSE "add"])
    /\ UNCHANGED <<scene, now, account, taken, items, rows, records, noticed, completed, torn>>

Single == {"totp", "phone"}

Kept(kind) == {i \in DOMAIN items : kind \in Single => i[1] # kind}

With(w, at) ==
    items' = (<<work[w].op, work[w].id>> :> [at |-> at, active |-> TRUE]) @@ Restrict(items, Kept(work[w].op))

AddApply(w) ==
    /\ At(w, "add")
    /\ work[w].op = "passkey" => now - work[w].at <= Slack
    /\ Applies(IF work[w].op = "phone" THEN "phone" ELSE "factors", account)
    /\ IF work[w].op \in {"phone", "link"} THEN With(w, now) /\ Become(w, Idle)
       ELSE Goto(w, "save") /\ UNCHANGED items
    /\ UNCHANGED <<scene, taken, records, spent, noticed, completed, torn>>

AddSave(w) ==
    /\ At(w, "save")
    /\ With(w, IF work[w].op = "passkey" THEN work[w].at ELSE now)
    /\ Become(w, Idle)
    /\ UNCHANGED <<scene, now, account, taken, rows, records, spent, noticed, completed, torn>>

\* consumeBound: the confirmation link, bound at the current epoch, is consumed
\* and the account is read.
BeginChange(w) ==
    /\ Free(w) /\ Uses("changes")
    /\ ~account.disabled
    /\ \E a \in Address \ {account.email} :
         Become(w, [Idle EXCEPT !.op = "change", !.pc = "change", !.addr = a,
                        !.email = account.email, !.at = account.at])
    /\ UNCHANGED <<scene, now, account, taken, items, rows, records, noticed, completed, torn>>

\* Accounts.changeEmail up to the commit.  The tenure that ended is recorded
\* next if the account that was read had the address that was replaced.
Changed(w, s, next) ==
    LET kept == account.email = s.email /\ s.at < now
    IN  /\ Applies("email", [account EXCEPT !.email = s.addr, !.at = now])
        /\ Become(w, IF kept THEN [s EXCEPT !.pc = "tenure", !.to = now, !.tries = 0] ELSE next)
        /\ torn' = [torn EXCEPT !.tenures = @ \/ (kept /\ account.at # s.at)]

ChangeEmail(w) ==
    /\ At(w, "change")
    /\ IF work[w].addr \in taken
       THEN Become(w, Idle) /\ UNCHANGED <<now, account, rows, torn>>
       ELSE Changed(w, work[w], Idle)
    /\ UNCHANGED <<scene, taken, items, records, spent, noticed, completed>>

\* What a worker does once the tenure is recorded.
AfterTenure(w) ==
    IF work[w].op = "change" THEN Idle ELSE [work[w] EXCEPT !.pc = "factors"]

\* oldestTenure
TenureSlot ==
    LET dead == {i \in Slot : ~Live(Tenure(i))}
        older(i) == \A j \in Slot : records[Tenure(i)].at <= records[Tenure(j)].at
    IN  IF dead # {} THEN Min(dead) ELSE Min({i \in Slot : older(i)})

TenureRead(w) ==
    /\ At(w, "tenure")
    /\ Become(w, [work[w] EXCEPT !.slot = TenureSlot,
                     !.pc = IF Live(Tenure(TenureSlot)) THEN "tenure_clear" ELSE "tenure_put"])
    /\ UNCHANGED <<scene, now, account, taken, items, rows, records, spent, noticed, completed, torn>>

TenureClear(w) ==
    /\ At(w, "tenure_clear")
    /\ Consume({Tenure(work[w].slot)})
    /\ Goto(w, "tenure_put")
    /\ UNCHANGED <<scene, now, account, taken, items, rows, spent, noticed, completed, torn>>

TenurePut(w) ==
    LET s == work[w]
        k == Tenure(s.slot)
    IN  /\ At(w, "tenure_put")
        /\ IF Live(k)
           THEN /\ Become(w, IF s.tries + 1 < Slots
                             THEN [s EXCEPT !.pc = "tenure", !.tries = @ + 1] ELSE AfterTenure(w))
                /\ UNCHANGED records
           ELSE Put(k, Mark(s.at, s.to, s.email)) /\ Become(w, AfterTenure(w))
        /\ UNCHANGED <<scene, now, account, taken, items, rows, spent, noticed, completed, torn>>

-----------------------------------------------------------------------------
\* Accounts.SecurityNotice, for a row the outbox delivers, perhaps late and
\* perhaps again.

Noticeable == {"password", "factors", "phone", "email"}

BeginNotice(w) ==
    /\ Free(w) /\ Uses("notices")
    /\ \E r \in 1 .. Len(rows) :
         LET row == rows[r] IN
         /\ row.event \in Noticeable
         /\ Become(w, [Idle EXCEPT !.op = "notice", !.id = r,
                !.addr = IF row.event = "email" THEN row.email ELSE account.email,
                !.pc = IF row.event # "email" /\ account.at > row.at THEN "history" ELSE "linked"])
    /\ UNCHANGED <<scene, now, account, taken, items, rows, records, noticed, completed, torn>>

\* Mutant: without a tenure of that time the link goes to the current address.
HistoryCurrent(w) ==
    LET t == rows[work[w].id].at
        held == {i \in Slot : Live(Tenure(i)) /\ records[Tenure(i)].from <= t /\ t < records[Tenure(i)].at}
    IN  /\ At(w, "history")
        /\ Become(w, [work[w] EXCEPT !.pc = "linked",
                         !.addr = IF held = {} THEN @ ELSE records[Tenure(Min(held))].addr])
        /\ UNCHANGED <<scene, now, account, taken, items, rows, records, spent, noticed, completed, torn>>

\* Accounts.emailAt: without a tenure of that time the notice goes out without
\* a link.
History(w) ==
    LET t == rows[work[w].id].at
        held == {i \in Slot : Live(Tenure(i)) /\ records[Tenure(i)].from <= t /\ t < records[Tenure(i)].at}
    IN  /\ At(w, "history")
        /\ Become(w, IF held = {} THEN Idle
                     ELSE [work[w] EXCEPT !.addr = records[Tenure(Min(held))].addr, !.pc = "linked"])
        /\ UNCHANGED <<scene, now, account, taken, items, rows, records, spent, noticed, completed, torn>>

\* Mutant: the first change of a span is left out of it.
SupersededAfter(t) == \E i \in Slot : Live(Span(i)) /\ records[Span(i)].from < t /\ t <= records[Span(i)].at

\* Accounts.superseded
Superseded(t) == \E i \in Slot : Live(Span(i)) /\ records[Span(i)].from <= t /\ t <= records[Span(i)].at

Linked(w) ==
    LET t == rows[work[w].id].at
    IN  /\ At(w, "linked")
        /\ IF now < t + TTL /\ ~Superseded(t) THEN Goto(w, "hold") ELSE Become(w, Idle)
        /\ UNCHANGED <<scene, now, account, taken, items, rows, records, spent, noticed, completed, torn>>

\* Accounts.anchor: the slots in use, and from when to when they reach.
Held(a) == {i \in 0 .. 1 : Live(Anchor(a, i))}
First(a) == Min({records[Anchor(a, i)].from : i \in Held(a)})
Last(a) == Max({records[Anchor(a, i)].at : i \in Held(a)})

\* The slots are read and written in several steps: an anchor may lose what one of
\* two overlapping writes recorded, or what a revert did not see.
Holding(w, a) == work[w].addr = a /\ work[w].pc \in {"hold_clear", "hold_put", "hold_drop"}
Linking(w, a) == work[w].addr = a /\ (Holding(w, a) \/ At(w, "link"))
RevertsFrom(w, a) == work[w].op = "revert" /\ a \in {work[w].addr, work[w].email}

Tears(a, overlaps) == torn' = IF overlaps THEN [torn EXCEPT !.anchors = @ \cup {a}] ELSE torn

\* Mutant: the anchor forgets the earlier changes.
HoldLatest(w) ==
    LET s == work[w]
        t == rows[s.id].at
        a == s.addr
        slot == IF 0 \in Held(a) THEN 1 ELSE 0
    IN  /\ At(w, "hold")
        /\ IF Held(a) # {} /\ First(a) <= t /\ Last(a) >= t THEN Goto(w, "link")
           ELSE Become(w, [s EXCEPT !.slot = slot, !.other = 1 - slot \in Held(a),
                    !.from = t,
                    !.to = IF Held(a) = {} THEN t ELSE Max({Last(a), t}),
                    !.pc = IF slot \in Held(a) THEN "hold_clear" ELSE "hold_put"])
        /\ UNCHANGED <<scene, now, account, taken, items, rows, records, spent, noticed, completed, torn>>

\* Accounts.holdAnchor: the anchor is widened by writing the other slot first.
HoldRead(w) ==
    LET s == work[w]
        t == rows[s.id].at
        a == s.addr
        slot == IF 0 \in Held(a) THEN 1 ELSE 0
    IN  /\ At(w, "hold")
        /\ IF Held(a) # {} /\ First(a) <= t /\ Last(a) >= t THEN Goto(w, "link")
           ELSE Become(w, [s EXCEPT !.slot = slot, !.other = 1 - slot \in Held(a),
                    !.from = IF Held(a) = {} THEN t ELSE Min({First(a), t}),
                    !.to = IF Held(a) = {} THEN t ELSE Max({Last(a), t}),
                    !.pc = IF slot \in Held(a) THEN "hold_clear" ELSE "hold_put"])
        /\ UNCHANGED <<scene, now, account, taken, items, rows, records, spent, noticed, completed, torn>>

HoldClear(w) ==
    /\ At(w, "hold_clear")
    /\ Consume({Anchor(work[w].addr, work[w].slot)})
    /\ Goto(w, "hold_put")
    /\ UNCHANGED <<scene, now, account, taken, items, rows, spent, noticed, completed, torn>>

HoldPut(w) ==
    LET s == work[w]
        k == Anchor(s.addr, s.slot)
    IN  /\ At(w, "hold_put")
        /\ IF Live(k)
           THEN /\ Become(w, IF s.tries + 1 < HoldTries
                             THEN [s EXCEPT !.pc = "hold", !.tries = @ + 1] ELSE Idle)
                /\ UNCHANGED records
           ELSE /\ Put(k, Mark(s.from, s.to, s.addr))
                /\ Goto(w, IF s.other THEN "hold_drop" ELSE "link")
        /\ Tears(s.addr, \E o \in Worker \ {w} : Holding(o, s.addr) \/ RevertsFrom(o, s.addr))
        /\ UNCHANGED <<scene, now, account, taken, items, rows, spent, noticed, completed>>

HoldDrop(w) ==
    /\ At(w, "hold_drop")
    /\ Consume({Anchor(work[w].addr, 1 - work[w].slot)})
    /\ Goto(w, "link")
    /\ UNCHANGED <<scene, now, account, taken, items, rows, spent, noticed, completed, torn>>

\* The link is stored, unless an earlier delivery of the row did, and mailed.
PutLink(w) ==
    LET r == work[w].id
        a == work[w].addr
    IN  /\ At(w, "link")
        /\ records' = IF Live(Link(r)) THEN records
                      ELSE (Link(r) :> Mark(rows[r].at, rows[r].at, a))
                             @@ Without({Link(r)} \cup {Link(o) : o \in Evicted(r, a)})
        /\ noticed' = noticed \cup {[row |-> r, addr |-> a]}
        /\ Become(w, Idle)
        /\ Tears(a, \E o \in Worker : RevertsFrom(o, a))
        /\ UNCHANGED <<scene, now, account, taken, items, rows, spent, completed>>

-----------------------------------------------------------------------------

NoticeStep(w) ==
    \/ BeginAdd(w) \/ AddApply(w) \/ AddSave(w)
    \/ BeginChange(w) \/ ChangeEmail(w) \/ TenureRead(w) \/ TenureClear(w) \/ TenurePut(w)
    \/ BeginNotice(w) \/ History(w) \/ Linked(w)
    \/ HoldRead(w) \/ HoldClear(w) \/ HoldPut(w) \/ HoldDrop(w) \/ PutLink(w)

=============================================================================
