\* A handle is released after the verification.
CONSTANTS
    u1 = u1
    u2 = u2
    n1 = n1
    n2 = n2
    User <- Users
    Vision <- Visions
    Applications <- SmallApplication
SPECIFICATION Spec
PROPERTY ValidGraphVerifies
\* The application may stop calling, and a released graph has no calls left.
CHECK_DEADLOCK FALSE
