\* Every use of two data objects by three nodes, and every way to link four nodes by three
\* virtual objects, with every choice of some kernels.
CONSTANTS
    d0 = d0
    d1 = d1
    d2 = d2
    d3 = d3
    Count = 4
    Data <- FourData
    Graphs <- AllGraphs
    Virtual <- Virtuals
    Cases <- AllCases
    DefaultTarget = "gpu"
SPECIFICATION AllocFairSpec
INVARIANT WritersRunFirst
INVARIANT VerdictIsRight
INVARIANT GroupsAreReady
INVARIANT UniformLinksHold
PROPERTY VerdictIsReached
\* The computation ends.
CHECK_DEADLOCK FALSE
