\* POSIX emulation: scheduled executions and others by vxProcessGraph.
CONSTANTS
    c1 = c1
    c2 = c2
    t = t
    Actors <- OneClient
    Thread <- t
    NoOwner = NoOwner
    Win32 = FALSE
    SemLimit = 1
    Threaded = TRUE
    Starts <- OneByThree
    MaxCalls = 3
SPECIFICATION Spec
INVARIANT GraphExclusive
\* Clients may stop calling, and the code can hang: a state without a step is legal.
CHECK_DEADLOCK FALSE
