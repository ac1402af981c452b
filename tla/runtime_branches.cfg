\* A condition beside a parallel branch, joined at the end; two slots and a recovery loop with a stale snapshot.
CONSTANTS
    in = in
    a = a
    b = b
    d = d
    out = out
    s1 = s1
    s2 = s2
    w1 = w1
    k1 = k1
    k2 = k2
    k3 = k3
    k4 = k4
    k5 = k5
    c1 = c1
    c2 = c2
    r1 = r1
    r2 = r2
    None = None
    Task <- ForkTasks
    Parking <- ForkParking
    Kind <- ForkKind
    Edge <- ForkEdges
    Input <- Inputs
    MaxAttempts <- OnceEach
    Slot <- TwoSlots
    Worker <- OneWorker
    WorkerOf <- SlotOwner
    Token <- FourTokens
    LeaseTicks = 1
    MaxFaults = 0
    Client <- OneClient
    Op <- StartOnly
    Recoverer <- OneRecoverer
SPECIFICATION RuntimeSpec
SYMMETRY Symmetric
INVARIANTS
    OnlySelectedRun
    CompletedRunIsExact
CHECK_DEADLOCK FALSE
