\* Two concurrent requests, four in all.
CONSTANTS
    a1 = a1
    a2 = a2
    v1 = v1
    x1 = x1
    c1 = c1
    n1 = n1
    p1 = p1
    p2 = p2
    None = None
    Agent <- MCAgent
    Service <- MCService
    Action <- MCAction
    ServiceOf <- MCServiceOf
    Credential <- MCCredential
    Name <- MCName
    Graph <- MCGraph
    Request <- MCRequest
    MaxRequests = 4
SPECIFICATION Spec
INVARIANTS
    ControlInv
    RunIsExecutable
PROPERTIES
    VersionIsDraft
CHECK_DEADLOCK FALSE
