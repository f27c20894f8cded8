SPECIFICATION FairServerSpec
CONSTANTS
    Clicks = {e1, e2, e3}
    Workers = {w1, w2}
    Queries = {q1}
    Loops = {l1}
    BufferSize = 1
    BatchSize = 2
INVARIANTS NothingLeftBehind FinalWebhooksHeard
PROPERTIES ShutdownEnds
CHECK_DEADLOCK FALSE
