\* A task that may be retried beside a task that parks, two slots of one Worker process,
\* a crash or a lost lease: an abandoned execution survives while its successor runs.
CONSTANTS
    t1 = t1
    t2 = t2
    s1 = s1
    s2 = s2
    w1 = w1
    k1 = k1
    k2 = k2
    k3 = k3
    None = None
    Task <- TwoTasks
    Parking <- ParkingTask
    MaxAttempts <- Attempts
    Slot <- TwoSlots
    Worker <- OneWorker
    WorkerOf <- SlotOwner
    Token <- ThreeTokens
    LeaseTicks = 1
    MaxFaults = 2
SPECIFICATION Spec
SYMMETRY Symmetric
INVARIANTS
    OwnerIsCurrent
    AttemptsDistinct
    AttemptBudget
    IInv
PROPERTIES
    PublishFenced
    TerminalStable
    ImplementsLeasedWork
CHECK_DEADLOCK FALSE
