\* A timer followed by an ordinary node; requests and slots may die between two transactions, the recovery loop repairs.
CONSTANTS
    in = in
    a = a
    b = b
    d = d
    out = out
    s1 = s1
    s2 = s2
    w1 = w1
    k1 = k1
    k2 = k2
    k3 = k3
    k4 = k4
    k5 = k5
    c1 = c1
    c2 = c2
    r1 = r1
    r2 = r2
    None = None
    Task <- TimerTasks
    Parking <- TimerParking
    Kind <- TimerKind
    Edge <- TimerEdges
    Input <- Inputs
    MaxAttempts <- TimerAttempts
    Slot <- OneSlot
    Worker <- OneWorker
    WorkerOf <- SlotOwner
    Token <- TwoTokens
    LeaseTicks = 1
    MaxFaults = 1
    Client <- OneClient
    Op <- PauseOps
    Recoverer <- OneRecoverer
SPECIFICATION RuntimeFairSpec

PROPERTIES
    PausedIsFrozen
    RunProgresses
    TimersFire
    LeasesEnd
    PendingIsClaimed
CHECK_DEADLOCK FALSE
