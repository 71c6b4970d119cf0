--------------------------- MODULE MCGraphLifecycle ---------------------------
\* Small graphs for TLC: user nodes u1, u2 and vision nodes n1, n2.
EXTENDS GraphLifecycle, TLC

CONSTANTS u1, u2, n1, n2

Users == {u1, u2}
Visions == {n1, n2}
AllHooks == {"initialize", "deinitialize"}
\* Two divisions lose the re-verification mark; two user nodes are something to stop between.
Reckless == [users |-> 1, visions |-> 2, hooks |-> AllHooks, late |-> TRUE]
Fragile == [users |-> 2, visions |-> 1, hooks |-> {"initialize"}, late |-> FALSE]
Careful == [users |-> 2, visions |-> 1, hooks |-> {}, late |-> FALSE]
SmallApplications == {Reckless, Fragile, Careful}
SmallApplication == {[users |-> 1, visions |-> 1, hooks |-> {}, late |-> FALSE]}
NodeSymmetry == Permutations(User) \cup Permutations(Vision)
================================================================================
