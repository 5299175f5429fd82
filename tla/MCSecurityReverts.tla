-------------------------- MODULE MCSecurityReverts --------------------------
(* SecurityReverts over a few requests and deliveries of each kind.          *)
EXTENDS SecurityReverts

None == [i \in {} |-> 0]

Quiet == [email |-> "x", items |-> None, records |-> None, completed |-> {}, kinds |-> {}, waits |-> FALSE,
          passwords |-> 0, changes |-> 0, adds |-> 0, takes |-> 0, notices |-> 0, reverts |-> 0, faults |-> 0]

\* More links than an address may have, delivered late, twice or not at all.
Deliveries == [Quiet EXCEPT !.passwords = 3, !.notices = 3, !.faults = 1, !.waits = TRUE]
\* Email changes race each other, their tenures and a late delivery.
Moves == [Quiet EXCEPT !.passwords = 1, !.changes = 3, !.notices = 1]
\* Two reverts race each other and deliveries; one may be cut off.
Reverts == [Quiet EXCEPT !.passwords = 2, !.notices = 2, !.reverts = 2, !.faults = 1, !.waits = TRUE]
\* More reverts than there are slots for their spans.
Spans == [Quiet EXCEPT !.passwords = 3, !.notices = 3, !.reverts = 3]
\* Earlier reverts have left no slot, and two addresses are told of changes.
Past(from, to) == [from |-> from, to |-> to, since |-> from, end |-> to, replaced |-> ""]
Gaps == [Quiet EXCEPT !.passwords = 2, !.changes = 1, !.notices = 2, !.reverts = 1,
             !.records = Span(1) :> Mark(-4, -3, "") @@ Span(2) :> Mark(-2, -1, ""),
             !.completed = {Past(-4, -3), Past(-2, -1)}]
\* A revert restores an address, unless another account took it.
Restores == [Quiet EXCEPT !.passwords = 1, !.changes = 1, !.notices = 2, !.reverts = 1, !.takes = 1, !.faults = 1]
\* A revert restores an address over one that had been told of a change before.
Returns == [Quiet EXCEPT !.changes = 2, !.notices = 3, !.reverts = 2]
\* A revert removes factors and identifiers while requests add them.
Adds == [Quiet EXCEPT !.passwords = 1, !.adds = 2, !.notices = 1, !.reverts = 1, !.faults = 1,
             !.kinds = {"totp", "passkey", "phone", "link", "key"},
             !.items = <<"passkey", 0>> :> [at |-> 0, active |-> TRUE]]
\* The only factors from before the changes are not in use.
Idles == [Adds EXCEPT !.adds = 1, !.kinds = {"totp", "passkey"},
              !.items = <<"passkey", 0>> :> [at |-> -1, active |-> FALSE]
                          @@ <<"totp", 0>> :> [at |-> -1, active |-> FALSE]]

MCScenario == {Deliveries, Moves, Reverts, Spans, Gaps, Restores, Returns, Adds, Idles}

SameWorkers == Permutations(Worker)

=============================================================================
