-------------------------- MODULE MCRevocationCache --------------------------
(* RevocationCache over a few keys, readers and changes.                     *)
EXTENDS RevocationCache, TLC

SameReaders == Permutations(Reader)

\* What the run of the cache explores: one call at a time while the poller lags and
\* falls behind the feed, or racing calls and own writes in a shorter time.
OneCall ==
    /\ \A r, o \in Reader : reader[r].pc # "idle" /\ reader[o].pc # "idle" => r = o
    /\ \A r \in Reader : reader[r].sealed = 0
    /\ \A k \in Key : own[k] = 0

Racing == now <= 3 /\ Len(log) <= 1 /\ pruned = 0 /\ \A k \in Key : gone[k] = 0

ExploredNext == Next /\ (OneCall \/ Racing)'

ExploredSpec == Init /\ [][ExploredNext]_vars

=============================================================================
