\* The two slots of the target Runner, one retry, one fault, one operator request.
CONSTANTS
    r1 = r1
    r2 = r2
    e1 = e1
    e2 = e2
    k1 = k1
    k2 = k2
    k3 = k3
    k4 = k4
    None = None
    Runner <- OneRunner
    Exec <- TwoExecs
    RunnerOf <- SameRunner
    Token <- ThreeTokens
    Target = r1
    MaxAttempts = 2
    Local = FALSE
    MaxFaults = 1
    MaxAdmin = 1
SPECIFICATION FairSpec
INVARIANTS
    OwnerHasLastAttempt
    ProtocolInv
PROPERTIES
    ResultFenced
    RunnerImplementsLeasedWork
    RunnerLeasesEnd
    CleanupEnds
CHECK_DEADLOCK FALSE
