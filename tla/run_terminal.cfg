\* A cancellation commits between the snapshot and the lock of the second transaction of another request.
CONSTANTS
    in = in
    a = a
    b = b
    d = d
    out = out
    s1 = s1
    s2 = s2
    w1 = w1
    k1 = k1
    k2 = k2
    k3 = k3
    k4 = k4
    k5 = k5
    c1 = c1
    c2 = c2
    r1 = r1
    r2 = r2
    None = None
    Task <- ParallelTasks
    Parking <- ParallelParking
    Kind <- ParallelKind
    Edge <- ParallelEdges
    Input <- Inputs
    MaxAttempts <- OnceEach
    Slot <- OneSlot
    Worker <- OneWorker
    WorkerOf <- SlotOwner
    Token <- ThreeTokens
    LeaseTicks = 1
    MaxFaults = 0
    Client <- TwoClients
    Op <- StartDecideCancel
    Recoverer <- NoRecoverer
SPECIFICATION RuntimeSpec

PROPERTIES
    RunTerminalStable
CHECK_DEADLOCK FALSE
