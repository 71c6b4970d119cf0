\* The graph is verified once; the ring turns more than twice, before that too.
CONSTANTS
    p1 = p1
    p2 = p2
    Params <- TwoParams
    Slots = 3
    VerifyOnce = TRUE
    MaxAge = 7
SPECIFICATION Spec
INVARIANT RingIsRotated
INVARIANT ReadsItsSlot
INVARIANT AgesOncePerExecution
SYMMETRY ParamSymmetry
