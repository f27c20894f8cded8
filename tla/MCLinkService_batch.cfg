SPECIFICATION Spec
CONSTANTS
    c1 = c1  c2 = c2  x = x  y = y
    Ids = {i1, i2}
    Tenants = {t1, t2}
    Codes = {c1, c2}
    Targets = {x, y}
    None = None  Keep = Keep
    DemoTenant = t1  DemoMaxTTL = 1
    Requests = {r1}
    Calls = {k1, k2}
    Workers = {w1}
    Absent = Absent  Purged = Purged  Miss = Miss  Neg = Neg
    CreateBodies <- BatchCreates
    UpdateBodies <- NoUpdates
    MaxCollision = 1
    BufferSize = 2
    BatchSize = 2
    Retention = 0
    RedisFails = FALSE
    DbFails = FALSE
    MaxNow = 2
    MaxCount = 1
PROPERTY PurgedClicksSkipped
SYMMETRY Symmetry
