SPECIFICATION FairSpec
CONSTANTS
    Clicks = {e1, e2, e3}
    Workers = {w1, w2}
    BufferSize = 1
    BatchSize = 2
INVARIANTS TypeOK Accounting DrainKeepsPromise HookFollowsCommit
PROPERTIES IsHandoff EventuallyFlushed EnqueueReturns WorkersExit
CHECK_DEADLOCK FALSE
