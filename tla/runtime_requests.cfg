\* A condition with an approval on one branch; one API request at a time, each of two transactions, races with a slot.
CONSTANTS
    in = in
    a = a
    b = b
    d = d
    out = out
    s1 = s1
    s2 = s2
    w1 = w1
    k1 = k1
    k2 = k2
    k3 = k3
    k4 = k4
    k5 = k5
    c1 = c1
    c2 = c2
    r1 = r1
    r2 = r2
    None = None
    Task <- DiamondTasks
    Parking <- DiamondParking
    Kind <- DiamondKind
    Edge <- DiamondEdges
    Input <- Inputs
    MaxAttempts <- OnceEach
    Slot <- OneSlot
    Worker <- OneWorker
    WorkerOf <- SlotOwner
    Token <- FiveTokens
    LeaseTicks = 1
    MaxFaults = 1
    Client <- OneClient
    Op <- AllOps
    Recoverer <- NoRecoverer
SPECIFICATION RuntimeSpec
SYMMETRY Symmetric
INVARIANTS
    RuntimeInv
PROPERTIES
    ImplementsQueue
    RunTerminalStable
CHECK_DEADLOCK FALSE
