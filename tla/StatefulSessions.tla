--------------------------- MODULE StatefulSessions ---------------------------
(***************************************************************************)
(* The stateful backend: the sessions store (store/sessions/memory) and    *)
(* Backend.Resume, Start, Reissue and End (internal/session/stateful),     *)
(* under the requests and account changes of module SessionRequests.  A    *)
(* session token is known by the id of its row: the backend draws both     *)
(* together.                                                               *)
(***************************************************************************)
EXTENDS SessionRequests

VARIABLE
    rows        \* Store.rows: id -> session row

vars == <<sharedVars, rows>>

Row == [attrs : Attrs, checked : Nat, idle : Nat]

\* The row of a record that NewRecord builds at instant t, t < end.
NewRow(a, t, end) == [attrs |-> a, checked |-> t, idle |-> IdleUntil(t, end)]

\* The idle expiry is never later than the absolute one.
Live(i) == i \in DOMAIN rows /\ now < rows[i].idle

Without(S) == [i \in DOMAIN rows \ S |-> rows[i]]

With(tbl, i, row) == [j \in DOMAIN tbl \cup {i} |-> IF j = i THEN row ELSE tbl[j]]

-----------------------------------------------------------------------------

Init == InitRequests /\ rows = [i \in {} |-> NoAttrs]

\* OnCredentialRotated, OnFactorsChanged, OnDisabled: the outbox delivers the
\* revocation of a committed change at some later time, perhaps repeatedly
\* (module LifecycleOutbox).
Deliver ==
    /\ \E e \in 1 .. account.epoch - 1 :
         rows' = Without({i \in DOMAIN rows : rows[i].attrs.lineage # kept[e]})
    /\ UNCHANGED <<now, accountVars, req, admitted, issued>>

\* End, RevokeSession and OnSessionEnded.
Revoke ==
    /\ "end" \in scene.ops
    /\ \E i \in DOMAIN rows : rows' = Without({i})
    /\ UNCHANGED <<now, accountVars, req, admitted, issued>>

\* DeleteForSubject and EraseTenant.
Erase ==
    /\ "end" \in scene.ops
    /\ DOMAIN rows # {}
    /\ rows' = Without(DOMAIN rows)
    /\ UNCHANGED <<now, accountVars, req, admitted, issued>>

ReapExpired ==
    /\ \E i \in DOMAIN rows : ~Live(i)
    /\ rows' = Without({i \in DOMAIN rows : ~Live(i)})
    /\ UNCHANGED <<now, accountVars, req, admitted, issued>>

-----------------------------------------------------------------------------
\* Backend.load reads the row of the presented token once, Resume reads the
\* clock and asks the epoch cache, and the row's last check decides between
\* Touch and a renewal.  One step: a cache that accepts the epoch later would
\* have accepted it when the row was read.
BeginResume(q) ==
    /\ Free(q)
    /\ \E i \in DOMAIN rows :
         /\ Live(i)
         /\ CheckEpoch(rows[i].attrs.epoch)
         /\ Reads(q, [Idle EXCEPT !.op = "resume", !.at = now, !.id = i, !.attrs = rows[i].attrs,
                          !.pc = IF now - rows[i].checked >= RecheckEvery THEN "state" ELSE "touch"])
    /\ UNCHANGED rows

\* Store.Touch extends the idle expiry of a row that is still live, never
\* shortens it, and Resume answers with the attributes loaded before.
Touch(q) ==
    LET i == req[q].id
        until == IdleUntil(req[q].at, End(req[q].attrs.lineage))
    IN  /\ req[q].pc = "touch"
        /\ Live(i)
        /\ rows' = IF until > rows[i].idle THEN [rows EXCEPT ![i] = [rows[i] EXCEPT !.idle = until]]
                   ELSE rows
        /\ Writes(q, [req[q] EXCEPT !.pc = "answered"])
        /\ UNCHANGED <<admitted, issued>>

\* core.Admit at some instant of the request, FetchClaims and Backend.Start.
Start(q) ==
    LET l == Len(admitted) + 1
        a == [req[q].attrs EXCEPT !.lineage = l]
    IN  /\ Cleared(q, "login", a.multi)
        /\ l <= scene.logins /\ issued < scene.rows
        /\ \E t \in req[q].at .. now :
             /\ now < t + MaxLifetime
             /\ admitted' = Append(admitted, [at |-> t, epoch |-> a.epoch])
             /\ rows' = With(rows, issued + 1, NewRow(a, now, t + MaxLifetime))
        /\ issued' = issued + 1
        /\ Writes(q, Idle)

\* Backend.renew: the row keeps its id, its end and the instant read before
\* the account was; a concurrent renewal is overwritten.
Rotate(q) ==
    LET r == req[q] IN
    /\ Cleared(q, "resume", r.attrs.multi)
    /\ Live(r.id)
    /\ rows' = [rows EXCEPT ![r.id] = NewRow(r.attrs, r.at, End(r.attrs.lineage))]
    /\ Writes(q, [r EXCEPT !.pc = "answered", !.required = FALSE])
    /\ UNCHANGED <<admitted, issued>>

\* What Store.Replace asks of the previous row.
Replaceable(i) == Live(i)

\* Mutant: Replace inserts the next row and leaves the previous one.
ReplaceKeepsPrevious(q, next) ==
    /\ Replaceable(req[q].id)
    /\ now < End(next.lineage)
    /\ issued < scene.rows
    /\ rows' = With(rows, issued + 1, NewRow(next, now, End(next.lineage)))
    /\ issued' = issued + 1
    /\ Writes(q, Idle)
    /\ UNCHANGED admitted

\* Backend.Reissue: the previous row ends and the next one is inserted, or
\* nothing happens.
Replace(q, next) ==
    /\ Replaceable(req[q].id)
    /\ now < End(next.lineage)
    /\ issued < scene.rows
    /\ rows' = With(Without({req[q].id}), issued + 1, NewRow(next, now, End(next.lineage)))
    /\ issued' = issued + 1
    /\ Writes(q, Idle)
    /\ UNCHANGED admitted

\* Issuer.ReauthenticateAll: the factors proved in this request decide.
Reauthenticate(q) ==
    \E multi \in BOOLEAN :
        /\ Cleared(q, "reauth", multi)
        /\ Replace(q, [req[q].attrs EXCEPT !.multi = req[q].attrs.multi \/ multi])

\* Issuer.Reissue after the request's own change.
Reissue(q) == req[q].pc = "reissue" /\ Replace(q, req[q].attrs)

\* Backend.revokeUnknown: the claims source no longer knows the subject.
RevokeUnknown(q) ==
    /\ req[q].pc = "reissue" \/ \E op \in {"resume", "reauth"} : Cleared(q, op, TRUE)
    /\ req[q].id \in DOMAIN rows
    /\ rows' = Without({req[q].id})
    /\ Writes(q, Idle)
    /\ UNCHANGED <<admitted, issued>>

-----------------------------------------------------------------------------

Step(q) ==
    \/ BeginResume(q) \/ Touch(q) \/ Start(q) \/ Rotate(q)
    \/ Reauthenticate(q) \/ Reissue(q) \/ RevokeUnknown(q)

Next ==
    /\ \/ /\ Tick \/ AccountStep \/ \E q \in Request : RequestStep(q)
          /\ UNCHANGED rows
       \/ Deliver \/ Revoke \/ Erase \/ ReapExpired
       \/ \E q \in Request : Step(q)
    /\ UNCHANGED scene

Spec == Init /\ [][Next]_vars

-----------------------------------------------------------------------------
\* Properties.

\* Type correctness; the idle expiry of a row never passes its absolute expiry
\* (NewRecord, Touch and Rotate cut it there).
TypeOK ==
    /\ StateType
    /\ \A i \in DOMAIN rows :
         rows[i] \in Row /\ rows[i].idle <= End(rows[i].attrs.lineage)

\* A session is one row: however many Reissues and renewals of a lineage race,
\* Replace and Rotate leave at most one row of it.
OneRowPerLineage ==
    \A i, j \in DOMAIN rows : rows[i].attrs.lineage = rows[j].attrs.lineage => i = j

\* What a request r knows of its session: its row, while it exists, is still of
\* the lineage, the epoch and the factors that the request read, and the epoch that
\* a Reissue takes up is the one that the session itself left the row's epoch for.
Matches(r, table, ids, lineages, epoch, keeps) ==
    /\ r.attrs.epoch <= epoch
    /\ r.op = "login" => /\ r.pc \in {"idle", "state", "factors"}
                         /\ r.pc = "factors" => r.attrs.epoch >= 1
    /\ r.op # "login" =>
         /\ r.id \in 1 .. ids
         /\ r.attrs.lineage \in 1 .. lineages
         /\ r.attrs.epoch >= 1
         /\ r.id \in DOMAIN table =>
              /\ table[r.id].attrs.lineage = r.attrs.lineage
              /\ r.pc # "reissue" => /\ table[r.id].attrs.epoch = r.attrs.epoch
                                     /\ table[r.id].attrs.multi = r.attrs.multi
              /\ r.pc = "reissue" => /\ table[r.id].attrs.epoch = r.attrs.epoch - 1
                                     /\ table[r.id].attrs.multi => r.attrs.multi
         /\ r.pc = "reissue" => r.attrs.epoch >= 2 /\ keeps[r.attrs.epoch - 1] = r.attrs.lineage
         /\ r.pc = "factor_write" => r.op \in {"enrol", "remove"}
         /\ r.op \in {"password", "enrol"} /\ r.pc \in {"state", "factor_write"} =>
              \E e \in Epoch : r.attrs.epoch <= e /\ e < epoch /\ keeps[e] = r.attrs.lineage

\* Rows of admitted lineages, one each, of no later epoch than the account's.
RowsOK(table, ids, adm, epoch) ==
    /\ table = [i \in DOMAIN table |-> table[i]]
    /\ DOMAIN table \subseteq 1 .. ids
    /\ \A i \in DOMAIN table :
         /\ table[i] \in Row
         /\ table[i].attrs.lineage \in 1 .. Len(adm)
         /\ table[i].idle <= adm[table[i].attrs.lineage].at + MaxLifetime
         /\ table[i].attrs.epoch \in 1 .. epoch
    /\ \A i, j \in DOMAIN table : table[i].attrs.lineage = table[j].attrs.lineage => i = j

\* The inductive invariant: well-typed state, RowsOK and Matches.
IInv ==
    /\ StateType
    /\ RowsOK(rows, issued, admitted, account.epoch)
    /\ \A q \in Request : Matches(req[q], rows, issued, Len(admitted), account.epoch, kept)

\* A row that lacks the flag or the factor that the account asks for was last
\* checked by a request that began before.
TimelyRow(row, t, acc, enr, lefts) ==
    /\ row.checked <= t
    /\ Suspended(row.attrs.epoch, acc, lefts)
    /\ ~row.attrs.must /\ acc.must # 0 => row.checked <= acc.must + scene.lasts
    /\ \A f \in Factor : ~row.attrs.multi /\ enr[f] # 0 => row.checked <= enr[f] + scene.lasts

\* The inductive invariant of the times, beside IInv and RequestInv.
Timely == \A i \in DOMAIN rows : TimelyRow(rows[i], now, account, enrolled, left)

=============================================================================
