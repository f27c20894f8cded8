SPECIFICATION FairSpec
CONSTANTS
    c1 = c1  c2 = c2  x = x  y = y
    Ids = {i1}
    Tenants = {t1}
    Codes = {c1}
    Targets = {x, y}
    None = None  Keep = Keep
    DemoTenant = None  DemoMaxTTL = 0
    Requests = {r1, r2}
    Calls = {k1, k2}
    Workers = {w1}
    Absent = Absent  Purged = Purged  Miss = Miss  Neg = Neg
    CreateBodies <- CacheCreates
    UpdateBodies <- CacheUpdates
    MaxCollision = 2
    BufferSize = 1
    BatchSize = 1
    Retention = 0
    RedisFails = TRUE
    DbFails = TRUE
    MaxNow = 0
    MaxCount = 2
INVARIANT StaleIsExplained
PROPERTIES EventuallyCoherent CountsNeverFall
