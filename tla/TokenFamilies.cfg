\* Two accounts of two tenants: rotation, grace, reuse, Reissue, revocation, erasure and reaping.
SPECIFICATION Spec
CONSTANTS
    t1 = t1  t2 = t2  s1 = s1  s2 = s2  l1 = l1  l2 = l2
    Tenant = {t1, t2}
    Subject = {s1, s2}
    TenantOf <- TwoTenantOf
    Lineage = {l1, l2}
    Owner <- TwoOwner
    Family = {f1, f2, f3}
    Hash = {h1, h2, h3}
    Client = {c1, c2}
    NoClient = NoClient
    Root = Root
    NoLineage = NoLineage
    IdleTTL = 2
    Lifetimes = {2, 3}
    MaxLife = 3
    ReuseGrace = 1
    MaxLag = 1
    MaxTime = 3
SYMMETRY FreshIds
VIEW StoreView
INVARIANTS
    FamilyUniform
    NoFork
    RevokedForGood
    FeedComplete
    OneLiveFamilyPerLineage
PROPERTIES
    LineageEndsForGood TenantIsolation
