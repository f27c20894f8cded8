SPECIFICATION Spec
CONSTANTS
    c1 = c1  c2 = c2  x = x  y = y
    Ids = {i1, i2}
    Tenants = {t1, t2}
    Codes = {c1}
    Targets = {x, y}
    None = None  Keep = Keep
    DemoTenant = t1  DemoMaxTTL = 1
    Requests = {r1}
    Calls = {k1, k2, k3}
    Workers = {}
    Absent = Absent  Purged = Purged  Miss = Miss  Neg = Neg
    CreateBodies <- TableCreates
    UpdateBodies <- TableUpdates
    MaxCollision = 2
    BufferSize = 0
    BatchSize = 1
    Retention = 0
    RedisFails = FALSE
    DbFails = TRUE
    MaxNow = 2
    MaxCount = 0
INVARIANTS TypeOK UniqueLiveCode DemoExpiryCapped
PROPERTIES DeleteIsFinal TenantIsolation PurgedWereDead
SYMMETRY Symmetry
