-------------------------- MODULE StatefulContract --------------------------
(***************************************************************************)
(* The session that the rows of a lineage stand for: the stateful backend  *)
(* as an implementation of the contract of sessions (SessionContract).     *)
(***************************************************************************)
EXTENDS StatefulSessions

RowsOf(table, l) == {i \in DOMAIN table : table[i].attrs.lineage = l}

SessionOf(table, l) ==
    IF RowsOf(table, l) = {} THEN [stage |-> "ended", epoch |-> 0, multi |-> FALSE]
    ELSE LET a == table[CHOOSE i \in RowsOf(table, l) : TRUE].attrs
         IN  [stage |-> "live", epoch |-> a.epoch, multi |-> a.multi]

Session(l) == IF l \in 1 .. Len(admitted) THEN SessionOf(rows, l)
              ELSE [stage |-> "none", epoch |-> 0, multi |-> FALSE]

Contract == INSTANCE SessionContract WITH
    epoch <- account.epoch, session <- [l \in Lineage |-> Session(l)]

\* The backend keeps the contract of sessions: whatever Reissues, renewals,
\* logins and revocations race, a lineage is admitted once, ends for good, takes
\* up a new epoch only from its own change and keeps its second factor.
KeepsContract == Contract!Spec

=============================================================================
