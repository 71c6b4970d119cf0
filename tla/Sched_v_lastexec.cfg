\* Windows: schedule, wait, schedule, wait.
CONSTANTS
    c1 = c1
    c2 = c2
    t = t
    Actors <- OneClient
    Thread <- t
    NoOwner = NoOwner
    Win32 = TRUE
    SemLimit = 2
    Threaded = TRUE
    Starts <- OneByFour
    MaxCalls = 4
SPECIFICATION Spec
INVARIANT WaitSeesLastExecution
\* Clients may stop calling, and the code can hang: a state without a step is legal.
CHECK_DEADLOCK FALSE
