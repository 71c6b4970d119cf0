\* Sessions on one device and on two; both pools of buffers go round more than once.
CONSTANTS
    MaxGPUs = 2
    Requests <- SmallRequests
    Detected = {0, 2}
    BatchSize = 2
    DecThreads = 2
    TagDepth = 6
    InputDepth = 2
    PipeDepth = 2
    PacketMax = 2
SPECIFICATION FairSpec
INVARIANT TagMatchesResult
INVARIANT OneDeviceAnswersAll
INVARIANT NothingLeaked
INVARIANT InputWithinLimit
INVARIANT NothingIsStuck
PROPERTY SessionEnds
\* The session ends.
CHECK_DEADLOCK FALSE
