\* The replay of a consumed token after the reaper ran.
SPECIFICATION Spec
CONSTANTS
    t1 = t1  t2 = t2  s1 = s1  s2 = s2  l1 = l1  l2 = l2
    Tenant = {t1}
    Subject = {s1}
    TenantOf <- OneTenantOf
    Lineage = {l1, l2}
    Owner <- OneOwner
    Family = {f1, f2}
    Hash = {h1, h2, h3}
    Client = {c1}
    NoClient = NoClient
    Root = Root
    NoLineage = NoLineage
    IdleTTL = 2
    Lifetimes = {3, 4}
    MaxLife = 4
    ReuseGrace = 1
    MaxLag = 1
    MaxTime = 5
INVARIANTS
    ConsumedKept
