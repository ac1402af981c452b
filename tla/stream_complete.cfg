\* Two queue operations, a reconciliation, a stale resume and a cancellation; pages of one.
CONSTANTS
    q1 = q1
    q2 = q2
    reconcile = reconcile
    resume = resume
    cancel = cancel
    None = None
    QueueOp <- TwoQueueOps
    RunOp <- MCRunOp
    EndingOp = cancel
    EarlyReader <- MCEarlyReader
    Touches <- MCTouches
    Attempts <- MCAttempts
    PageSize = 1
    MaxDisconnects = 1
SPECIFICATION Spec
INVARIANTS
    StreamIsComplete
CHECK_DEADLOCK FALSE
