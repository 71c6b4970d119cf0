--------------------------- MODULE GraphAllocation ---------------------------
(***************************************************************************)
(* From a sorted graph to its execution, as agoOptimizeDramaAlloc and      *)
(* agoExecuteGraph do it: every node gets a target; kernels on the GPU     *)
(* that can be fused get a group, and groups are merged; with OpenCL each  *)
(* group becomes a supernode, a single kernel.  Virtual data that nodes on *)
(* the device use share buffers when their lives are apart.  Then the      *)
(* nodes run level by level, in each level those on the GPU first.         *)
(*                                                                         *)
(* Data are images.  A node's images have the node's dimensions, and a     *)
(* node without outputs here writes an image that nobody else uses.        *)
(* Kernels take effect in the order in which they are queued.              *)
(***************************************************************************)
EXTENDS GraphHierarchy

CONSTANTS Cases(_),       \* for every graph: the builds, the kernels of its nodes and the
                          \* affinities to consider
          DefaultTarget   \* AGO_DEFAULT_TARGET

\* What a kernel supports: on the GPU as a kernel of its own ("full") or as part of one,
\* reading pixel by pixel ("r2r") or gathering pixels ("m2r").  On the CPU it may use the
\* device's buffers (opencl_buffer_access_enable).
Kernels == [cpu: {"no", "host", "access"}, gpu: {"no", "full", "r2r", "m2r"}, size: Nat]

\* attr_affinity: a target, and on the GPU a group or 0.
Affinities == [target: {"any", "cpu", "gpu"}, group: Nat]

ASSUME AllocationAssumption ==
    /\ \A g \in Graphs: \A c \in Cases(g):
          /\ c \in [build: {"OpenCL", "HIP"}, kernels: SUBSET Kernels, affinities: SUBSET Affinities]
          /\ \A k \in c.kernels: k.cpu # "no" \/ k.gpu # "no"
    /\ DefaultTarget \in {"cpu", "gpu"}

VARIABLES given,               \* the case
          kind, size,          \* of each node: how it runs, its dimensions
          group,               \* attr_affinity.group
          todo, buffer,        \* the data that still have to get a buffer; the buffer
          ran, host, dev,      \* the nodes visited; the copies that the flags call complete
          resident,            \* the data whose value is in their buffer
          early, misread       \* history: reads of data not computed, or overwritten

targets == <<kind, size, group>>
sharing == <<todo, buffer>>
running == <<ran, host, dev, resident, early, misread>>
allocVars == <<vars, given, targets, sharing, running>>

AllocInit ==
    /\ Init
    /\ given \in Cases(role)
    /\ kind = [n \in Node |-> "host"] /\ size = [n \in Node |-> 0]
    /\ group = [n \in Node |-> 0]
    /\ todo = {} /\ buffer = [d \in Data |-> 0]
    /\ ran = {} /\ host = {} /\ dev = {} /\ resident = {}
    /\ early = {} /\ misread = {}

Hierarchy == Next /\ UNCHANGED <<given, targets, sharing, running>>

------------------------------------------------------------------------------
(* Targets *)

\* The target for a kernel: the one asked for, else the other one.
Chosen(k, request) ==
    LET wanted == IF request.target = "any" THEN DefaultTarget ELSE request.target
    IN  IF wanted = "gpu" THEN IF k.gpu # "no" THEN k.gpu ELSE k.cpu
                          ELSE IF k.cpu # "no" THEN k.cpu ELSE k.gpu

Fusible == {"r2r", "m2r"}
OnGpu == Fusible \cup {"full"}

\* agoOptimizeDramaAllocSetDefaultTargets: a group that the application asked for on the GPU
\* is kept, other fusible nodes get the next unused number each.
SetDefaultTargets ==
    /\ pc = "sorted"
    /\ \E k \in [Node -> given.kernels], r \in [Node -> given.affinities]:
          LET on == [n \in Node |-> Chosen(k[n], r[n])]
              kept == [n \in Node |-> IF r[n].target = "gpu" /\ on[n] \in OnGpu THEN r[n].group ELSE 0]
              asked == {0} \cup {r[n].group: n \in {m \in Node: r[m].target = "gpu"}}
              unused == 1 + (CHOOSE g \in asked: \A h \in asked: h <= g)
              Numbered(j) == on[nodeList[j]] \in Fusible /\ kept[nodeList[j]] = 0
          IN  /\ kind' = on
              /\ size' = [n \in Node |-> k[n].size]
              /\ group' = [n \in Node |->
                     LET j == CHOOSE l \in Node: nodeList[l] = n
                     IN  IF Numbered(j) THEN unused + Cardinality({l \in 1 .. j - 1: Numbered(l)})
                                        ELSE kept[n]]
              /\ pc' = IF \E n \in Node: on[n] = "full" /\ kept[n] # 0 THEN "failed" ELSE "merge"
    /\ i' = 1
    /\ UNCHANGED <<role, nodeList, levels, changed, given, sharing, running>>

Grouped(n) == kind[n] \in OnGpu /\ group[n] > 0
Members(g) == {n \in Node: Grouped(n) /\ group[n] = g}
GroupInputs(g) == UNION {Inputs(n): n \in Members(g)}
GroupOutputs(g) == UNION {Outputs(n): n \in Members(g)}

MinOf(S) == CHOOSE x \in S: \A y \in S: x <= y
MaxOf(S) == CHOOSE x \in S: \A y \in S: x >= y
FirstLevel(g) == MinOf({hierarchical_level[n]: n \in Members(g)})
LastLevel(g) == MaxOf({hierarchical_level[n]: n \in Members(g)})

\* Seeded fault: the levels of the inputs do not matter.
ConflictIgnoresLevels(p, c) ==
    \/ kind[p] = "m2r" /\ kind[c] = "m2r"
    \/ size[p] # size[c]
    \/ kind[c] = "m2r" /\ GroupInputs(group[c]) \cap GroupOutputs(group[p]) # {}

\* Why the group of node c cannot join the group of p: two gather, the dimensions
\* differ, or an input is not computed by p's group and comes too late for it, or
\* is computed by it and gathered.
Conflict(p, c) ==
    \/ kind[p] = "m2r" /\ kind[c] = "m2r"
    \/ size[p] # size[c]
    \/ \E d \in GroupInputs(group[c]):
          IF d \in GroupOutputs(group[p]) THEN kind[c] = "m2r"
                                          ELSE dataLevel[d] > FirstLevel(group[p])

\* agoOptimizeDramaAllocMergeSuperNodes, for the i-th node.
MergeNode ==
    LET c == nodeList[i]
        fits == {j \in 1 .. i - 1: /\ Grouped(nodeList[j]) /\ group[nodeList[j]] # group[c]
                                   /\ ~ Conflict(nodeList[j], c)}
    IN  /\ pc = "merge" /\ i <= Count
        /\ group' = IF Grouped(c) /\ fits # {}
                       THEN [n \in Node |-> IF group[n] = group[c] THEN group[nodeList[MinOf(fits)]]
                                                                   ELSE group[n]]
                       ELSE group
        /\ i' = i + 1
        /\ UNCHANGED <<role, nodeList, levels, pc, changed, given, kind, size, sharing, running>>

------------------------------------------------------------------------------
(* Buffers *)

\* Supernodes exist with OpenCL only.
InSuperNode(n) == given.build = "OpenCL" /\ Grouped(n)
UsesDevice(n) == kind[n] \in OnGpu \cup {"access"}
Users(d) == {n \in Node: role[n][d] # "none"}

\* Virtual data that only one supernode uses needs no buffer.
Internal(d) == \E n \in Users(d): InSuperNode(n) /\ Users(d) \subseteq Members(group[n])
DeviceUsers(d) == {n \in Users(d): UsesDevice(n)}
OnDevice == {d \in Virtual: DeviceUsers(d) # {} /\ ~ Internal(d)}

\* The images that a group shows have the same dimensions (agoGpuOclSuperNodeUpdate).  Its
\* test of the levels never fails: it compares two variables that keep their first values.
ReadIn(g) == {d \in Data: \E n \in Members(g): role[n][d] \in {"in", "loop"}}
Shows(n) == Outputs(n) \ ReadIn(group[n]) # {} \/ Outputs(n) = {}
SameDimensions ==
    \A m, n \in Node: /\ InSuperNode(m) /\ InSuperNode(n) /\ group[m] = group[n]
                      /\ Shows(m) /\ Shows(n)
                      => size[m] = size[n]

MakeSuperNodes ==
    /\ pc = "merge" /\ i > Count
    /\ IF SameDimensions THEN pc' = "share" /\ todo' = OnDevice
                         ELSE pc' = "failed" /\ UNCHANGED todo
    /\ UNCHANGED <<role, nodeList, levels, i, changed, given, targets, buffer, running>>

\* hierarchical_life_start and _end: a supernode spans the levels of its nodes.
Start(n) == IF InSuperNode(n) THEN FirstLevel(group[n]) ELSE hierarchical_level[n]
End(n) == IF InSuperNode(n) THEN LastLevel(group[n]) ELSE hierarchical_level[n]
LifeStart(d) == MinOf({Start(n): n \in Users(d)})
LifeEnd(d) == MaxOf({End(n): n \in Users(d)})

\* The order in which agoGpuAllocBuffers collects the data: those of the supernodes, the
\* latest first, then those of the other nodes in the order of the list.
Place(n) == CHOOSE k \in Node: nodeList[k] = n
Collected(m, n) ==
    \/ InSuperNode(m) /\ ~ InSuperNode(n)
    \/ InSuperNode(m) /\ InSuperNode(n) /\ group[m] > group[n]
    \/ /\ InSuperNode(m) <=> InSuperNode(n)
       /\ InSuperNode(m) => group[m] = group[n]
       /\ Place(m) < Place(n)
IsNext(d) ==
    \E n \in DeviceUsers(d): \A e \in todo: \A m \in DeviceUsers(e): ~ Collected(m, n)

Sharers(b) == {d \in Data: buffer[d] = b}
Buffers == {buffer[d]: d \in Data} \ {0}

\* Seeded fault: the end of one life may be the start of the next.
ApartLoosely(d, e) == /\ ~ (LifeStart(e) <= LifeStart(d) /\ LifeStart(d) < LifeEnd(e))
                      /\ ~ (LifeStart(e) < LifeEnd(d) /\ LifeEnd(d) <= LifeEnd(e))

\* isMergePossible: neither end of d's life falls into the life of e.
Apart(d, e) == /\ ~ (LifeStart(e) <= LifeStart(d) /\ LifeStart(d) <= LifeEnd(e))
               /\ ~ (LifeStart(e) <= LifeEnd(d) /\ LifeEnd(d) <= LifeEnd(e))

\* A data object is as large as the dimensions of its writer.
Bytes(d) == MaxOf({size[n]: n \in Writers(d)})
Cost(b, d) == MaxOf({Bytes(e): e \in Sharers(b) \cup {d}})

\* The next data object joins the buffer that gets least large, or has one of its own.
ShareBuffer ==
    /\ pc = "share"
    /\ \E d \in todo:
          LET possible == {b \in Buffers: \A e \in Sharers(b): Apart(d, e)}
              cheapest == {b \in possible: \A c \in possible: Cost(b, d) <= Cost(c, d)}
          IN  /\ IsNext(d)
              /\ buffer' = [buffer EXCEPT ![d] = IF possible = {} THEN Cardinality(Buffers) + 1
                                                                  ELSE MinOf(cheapest)]
              /\ todo' = todo \ {d}
    /\ UNCHANGED <<role, nodeList, levels, pc, i, changed, given, targets, running>>

BuffersDone ==
    /\ pc = "share" /\ todo = {}
    /\ pc' = "run"
    /\ UNCHANGED <<role, nodeList, levels, i, changed, given, targets, sharing, running>>

------------------------------------------------------------------------------
(* The execution *)

\* m comes before n: level by level, and in a level the GPU's nodes first.
Sooner(m, n) ==
    \/ hierarchical_level[m] < hierarchical_level[n]
    \/ /\ hierarchical_level[m] = hierarchical_level[n]
       /\ IF (kind[m] \in OnGpu) = (kind[n] \in OnGpu) THEN Place(m) < Place(n)
                                                      ELSE kind[m] \in OnGpu
IsDue(n) == n \notin ran /\ \A m \in Node \ (ran \cup {n}): Sooner(n, m)

\* The nodes whose results exist: a supernode runs as a whole with its first node.
Launched(n) == n \in ran \/ (InSuperNode(n) /\ Members(group[n]) \cap ran # {})
NotComputed(S) == {d \in S: \E n \in Writers(d): ~ Launched(n)}

\* The data of S that go through a shared buffer.
Buffered(S) == {d \in S: buffer[d] # 0}

\* S is written into its buffers; of data that meet in one buffer none survives.
Load(S, in) == {d \in in: \A e \in S: buffer[e] # buffer[d]}
                   \cup {d \in S: \A e \in S \ {d}: buffer[e] # buffer[d]}

\* Kernels that read and write the device's buffers: what the host has newer is copied first.
OnTheDevice(n, reads, writes) ==
    LET copied == (Buffered(reads \cup Inputs(n)) \cap host) \ dev
        in == Load(copied, resident)
    IN  /\ resident' = Load(Buffered(writes), in)
        /\ dev' = dev \cup copied \cup Buffered(writes)
        /\ host' = host \ Buffered(writes)
        /\ early' = early \cup NotComputed(reads)
        /\ misread' = misread \cup (Buffered(reads) \ in)

Visit(n) ==
    /\ pc = "run" /\ IsDue(n)
    /\ ran' = ran \cup {n}
    /\ UNCHANGED <<vars, given, targets, sharing>>

LaunchSingle(n) ==
    /\ kind[n] \in OnGpu /\ ~ InSuperNode(n)
    /\ Visit(n)
    /\ OnTheDevice(n, Inputs(n), Outputs(n))

LaunchSuperNode(n) ==
    /\ InSuperNode(n) /\ Members(group[n]) \cap ran = {}
    /\ Visit(n)
    /\ OnTheDevice(n, GroupInputs(group[n]) \ GroupOutputs(group[n]), GroupOutputs(group[n]))

PassLaunched(n) ==
    /\ InSuperNode(n) /\ Members(group[n]) \cap ran # {}
    /\ Visit(n)
    /\ OnTheDevice(n, {}, {})

RunWithAccess(n) ==
    /\ kind[n] = "access"
    /\ Visit(n)
    /\ OnTheDevice(n, Inputs(n), Outputs(n))

\* A node on the CPU: what the device has newer is copied first.
RunOnHost(n) ==
    LET copied == (Buffered(Inputs(n)) \cap dev) \ host
    IN  /\ kind[n] = "host"
        /\ Visit(n)
        /\ host' = host \cup copied \cup Buffered(Outputs(n))
        /\ dev' = dev \ Outputs(n)
        /\ early' = early \cup NotComputed(Inputs(n))
        /\ misread' = misread \cup (copied \ resident)
        /\ UNCHANGED resident

Execute == \E n \in Node: \/ LaunchSingle(n) \/ LaunchSuperNode(n) \/ PassLaunched(n)
                          \/ RunWithAccess(n) \/ RunOnHost(n)

AllocNext ==
    \/ Hierarchy
    \/ SetDefaultTargets \/ MergeNode \/ MakeSuperNodes
    \/ ShareBuffer \/ BuffersDone
    \/ Execute

AllocSpec == AllocInit /\ [][AllocNext]_allocVars
AllocFairSpec == AllocSpec /\ WF_allocVars(AllocNext)

------------------------------------------------------------------------------
\* Fusing kernels does not break the order of the graph: when a node or a group is launched,
\* everything it reads and does not compute itself has been computed; and no kernel gathers
\* from an image that another kernel of its group computes.  (For the groups that the
\* optimiser makes; groups that the application asks for are not examined.)
AutoGroups == \A a \in given.affinities: a.group = 0
GroupsAreReady ==
    AutoGroups =>
        /\ early = {}
        /\ pc \in {"share", "run"} =>
              \A m, n \in Node: InSuperNode(n) /\ kind[n] = "m2r" /\ m \in Members(group[n]) \ {n}
                                    => ~ DependsOn(n, m)

\* A virtual object links nodes: each of them reads what the writer wrote, although the
\* object may share its buffer with others.
LinksHold == misread = {}

\* This holds when every node uses the device and none is part of a supernode.
Uniform == \A n \in Node: UsesDevice(n) /\ ~ InSuperNode(n)
UniformLinksHold == Uniform => LinksHold
================================================================================
