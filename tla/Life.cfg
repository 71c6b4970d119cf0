\* An application that does anything at any time, with callbacks that fail, and two disciplined ones.
CONSTANTS
    u1 = u1
    u2 = u2
    n1 = n1
    n2 = n2
    User <- Users
    Vision <- Visions
    Applications <- SmallApplications
SPECIFICATION Spec
INVARIANT SoundIsPrepared
INVARIANT SuccessRanEverything
INVARIANT HooksAlternate
INVARIANT NothingLeftUp
PROPERTY FollowsGraphStates
SYMMETRY NodeSymmetry
\* The application may stop calling, and a released graph has no calls left.
CHECK_DEADLOCK FALSE
