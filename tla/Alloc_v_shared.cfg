\* Four nodes linked by three virtual objects, some of them kernels that are fused.
CONSTANTS
    d0 = d0
    d1 = d1
    d2 = d2
    d3 = d3
    Count = 4
    Data <- FourData
    Graphs <- LinkedGraphs
    Virtual <- Virtuals
    Cases <- Mixed
    DefaultTarget = "gpu"
SPECIFICATION AllocSpec
INVARIANT LinksHold
\* The computation ends.
CHECK_DEADLOCK FALSE
