\* Two attempts of a Runner's task beside a Worker's result, two faults.
CONSTANTS
    None = None
    Art <- MCArt
    Lease <- MCLease
    PerResult = 1
    Candidates <- MCCandidates
    MaxFaults = 2
SPECIFICATION FairSpec
INVARIANTS
    ArtifactInv
    ReferencedIsReadable
PROPERTIES
    UploadSettles
CHECK_DEADLOCK FALSE
