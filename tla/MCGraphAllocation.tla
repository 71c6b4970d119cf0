-------------------------- MODULE MCGraphAllocation --------------------------
\* Small graphs for TLC: of three nodes in any roles, and of four nodes over three virtual
\* objects, with every choice of a few kernels.
EXTENDS GraphAllocation

CONSTANTS d0, d1, d2, d3

FourData == {d0, d1, d2, d3}
Virtuals == {d1, d2, d3}

\* Every use of d0 and d1 by the last three nodes.
AnyGraphs == {[n \in Node |-> [d \in Data |-> IF n > 1 /\ d \in {d0, d1} THEN f[n][d] ELSE "none"]]:
                 f \in [2 .. 4 -> [{d0, d1} -> Roles]]}

\* A virtual object's writer and its readers, created after what they read.
Links == {l \in Node \X SUBSET Node: l[2] # {} /\ \A n \in l[2]: l[1] < n}
Linked(l) == [n \in Node |-> [d \in Data |->
                 IF d = d0 THEN "none" ELSE IF n = l[d][1] THEN "out" ELSE IF n \in l[d][2] THEN "in" ELSE "none"]]
\* One of the graphs that differ only in the names of the data.
Key(l) == 100 * l[1] + Cardinality(l[2]) * 20 + (IF 2 \in l[2] THEN 2 ELSE 0) + (IF 4 \in l[2] THEN 3 ELSE 0)
LinkedGraphs == {g \in {Linked(l): l \in {k \in [Virtuals -> Links]: Key(k[d1]) <= Key(k[d2]) /\ Key(k[d2]) <= Key(k[d3])}}:
                    \A n \in Node: \E d \in Data: g[n][d] # "none"}

Host == [cpu |-> "host", gpu |-> "no", size |-> 1]
Access == [cpu |-> "access", gpu |-> "no", size |-> 1]
Full == [cpu |-> "host", gpu |-> "full", size |-> 1]
R2R == [cpu |-> "no", gpu |-> "r2r", size |-> 1]
M2R == [cpu |-> "no", gpu |-> "m2r", size |-> 1]
LargeR2R == [cpu |-> "no", gpu |-> "r2r", size |-> 2]
LargeFull == [cpu |-> "no", gpu |-> "full", size |-> 2]

Unasked == {[target |-> "any", group |-> 0]}
Asked == {[target |-> "any", group |-> 0], [target |-> "gpu", group |-> 1]}

\* Any graph on the host; linked nodes that can be fused or not, that ask for a group, and
\* that all use the device.
AllGraphs == AnyGraphs \cup LinkedGraphs
AllCases(g) ==
    IF \E n \in Node: g[n][d2] # "none"
      THEN [build: {"OpenCL"}, kernels: {{Host, R2R, M2R}, {R2R, LargeR2R}}, affinities: {Unasked}]
             \cup [build: {"OpenCL"}, kernels: {{Full}, {R2R}}, affinities: {Asked}]
             \cup [build: {"HIP"}, kernels: {{Access, LargeFull}}, affinities: {Unasked}]
      ELSE [build: {"HIP"}, kernels: {{Host}}, affinities: {Unasked}]

\* Kernels that can be fused, and others.
Mixed(g) == [build: {"OpenCL"}, kernels: {{Full, R2R}}, affinities: {Unasked}]
================================================================================
