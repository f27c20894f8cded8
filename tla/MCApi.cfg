SPECIFICATION Spec
CONSTANTS
    Requests = {r1, r2, r3, r4}
    t1 = t1
    t2 = t2
    k1 = k1
    k2 = k2
    Tenants = {t1, t2}
    Keys = {k1, k2}
    TenantOf <- MCTenantOf
    Limit = 2
    Window = 3
    Second = 2
    MaxDelay = 1
    MaxNow = 3
    None = None
INVARIANTS TypeOK EffectiveWindow OnlyForItsTenant
PROPERTIES RetryIsNearlyEnough
SYMMETRY Symmetry
CHECK_DEADLOCK FALSE
