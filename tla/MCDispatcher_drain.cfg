SPECIFICATION Spec
CONSTANTS
    Events = {e1}
    Hooks = {h1}
    t1 = t1  t2 = t2
    Tenants = {t1}
    TenantOf <- OfT1  TypeOf <- Clicked
    Bodies <- PlainBody
    Senders = {s1}
    QueueSize = 1
    MaxRetries = 1
    DisableAfter = 2
    None = None
INVARIANT QueuedEventsDelivered
SYMMETRY Symmetry
CHECK_DEADLOCK FALSE
