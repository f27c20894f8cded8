SPECIFICATION FairSpec
CONSTANTS
    Events = {e1, e2}
    Hooks = {h1}
    t1 = t1  t2 = t2
    Tenants = {t1, t2}
    TenantOf <- OfT1  TypeOf <- Clicked
    Bodies <- AllBodies
    Senders = {s1, s2}
    QueueSize = 1
    MaxRetries = 1
    DisableAfter = 2
    None = None
INVARIANTS TypeOK OnlyToSubscribers OneOutcome DeadLetterConsistent
PROPERTIES IsHandoff EventuallySettled LoopsExit
CHECK_DEADLOCK FALSE
