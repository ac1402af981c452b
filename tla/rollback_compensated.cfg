\* A Worker's result and a Runner's upload, without any fault.
CONSTANTS
    None = None
    Art <- MCArt
    Lease <- MCLease
    PerResult = 1
    Candidates <- MCCandidates
    MaxFaults = 0
SPECIFICATION Spec
INVARIANTS
    RolledBackIsDeleted
CHECK_DEADLOCK FALSE
