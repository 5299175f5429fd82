----------------------------- MODULE JWTContract -----------------------------
(***************************************************************************)
(* The session that the families of a lineage stand for: the JWT backend   *)
(* as an implementation of the contract of sessions (SessionContract).     *)
(***************************************************************************)
EXTENDS JWTSessions

\* A lineage with two families that can both go on is no session of the contract.
SessionOf(F) ==
    IF F = {} THEN [stage |-> "ended", epoch |-> 0, multi |-> FALSE]
    ELSE LET f == CHOOSE f \in F : TRUE
         IN  [stage |-> IF Cardinality(F) = 1 THEN "live" ELSE "forked",
              epoch |-> fams[f].epoch, multi |-> fams[f].multi]

Session(l) ==
    IF l \in DOMAIN admitted
    THEN SessionOf({f \in DOMAIN fams : fams[f].lineage = l /\ fams[f].revoked = 0 /\ Stored(f)})
    ELSE [stage |-> "none", epoch |-> 0, multi |-> FALSE]

Contract == INSTANCE SessionContract WITH
    epoch <- account.epoch, session <- [l \in Lineage |-> Session(l)]

\* The JWT backend keeps the contract of sessions: whatever Reissues, rotations,
\* replays, logins and revocations race, a lineage is admitted once, has one
\* family, ends for good, takes up a new epoch only from its own change and
\* keeps its second factor.
KeepsContract == Contract!Spec

=============================================================================
