--------------------------- MODULE MCTokenFamilies ---------------------------
(* TokenFamilies on small sets of tenants, lineages, families and tokens.    *)
EXTENDS TokenFamilies, TLC

CONSTANTS t1, t2, s1, s2, l1, l2

\* One account with two sessions.
OneTenantOf == s1 :> t1
OneOwner == l1 :> s1 @@ l2 :> s1

\* Two accounts of two tenants, one session each.
TwoTenantOf == s1 :> t1 @@ s2 :> t2
TwoOwner == l1 :> s1 @@ l2 :> s2

\* What an operation returned, and for whom, decides no later step.
StoreView == <<now, tokens, families, feed, seq, history>>

FreshIds == Permutations(Hash) \cup Permutations(Family) \cup Permutations(Client)

=============================================================================
