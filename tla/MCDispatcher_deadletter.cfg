SPECIFICATION Spec
CONSTANTS
    Events = {e1, e2, e3, e4}
    Hooks = {h1}
    t1 = t1  t2 = t2
    Tenants = {t1}
    TenantOf <- OfT1  TypeOf <- Clicked
    Bodies <- PlainBody
    Senders = {s1}
    QueueSize = 4
    MaxRetries = 0
    DisableAfter = 2
    None = None
PROPERTY DeadLetterIsFinal
SYMMETRY Symmetry
CHECK_DEADLOCK FALSE
