\* Windows, every call by two application threads, more calls by one of them, and two that wait.
CONSTANTS
    c1 = c1
    c2 = c2
    t = t
    Actors <- TwoClients
    Thread <- t
    NoOwner = NoOwner
    Win32 = TRUE
    SemLimit = 2
    Threaded = TRUE
    Starts <- Windows
    MaxCalls = 3
SPECIFICATION FairSpec
INVARIANT GraphExclusive
INVARIANT LastHolderDestroys
INVARIANT NoLostSchedule
INVARIANT ExecutesOnlyVerified
PROPERTY WaitReturns
\* Clients may stop calling, and the code can hang: a state without a step is legal.
CHECK_DEADLOCK FALSE
