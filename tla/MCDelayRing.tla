------------------------------ MODULE MCDelayRing ------------------------------
\* A delay with a few slots and two node parameters for TLC.
EXTENDS DelayRing, TLC

CONSTANTS p1, p2

TwoParams == {p1, p2}
ParamSymmetry == Permutations(Params)
================================================================================
