\* Nine families of graphs of up to eight nodes, each validated and, if accepted, run.
CONSTANT
    Graphs <- MCGraphs
SPECIFICATION FairSpec
INVARIANTS
    ReachabilityExact
    CompletedHasOutput
    RefsSettled
    OutputAfterMerge
    GraphInv
    MappedInputFits
PROPERTIES
    RunEnds
CHECK_DEADLOCK FALSE
