\* Graphs whose data goes from the GPU to the CPU and back, and applications that map it.
CONSTANTS
    a = a
    b = b
    c = c
    Data <- ThreeData
    Mapped <- OnlyB
    Parts = {1, 2}
    Graphs <- SmallGraphs
    Builds = {"OpenCL", "HIP"}
    MaxQueue = 2
SPECIFICATION Spec
INVARIANT NoStaleRead
INVARIANT NothingLost
INVARIANT ReturnsFinished
\* The application may stop calling with a full queue of a graph that failed.
CHECK_DEADLOCK FALSE
