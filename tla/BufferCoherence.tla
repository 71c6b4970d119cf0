---------------------------- MODULE BufferCoherence ----------------------------
(***************************************************************************)
(* A data object has a copy in host memory and, once a graph with a GPU    *)
(* node that uses it was verified, one in device memory.  Which copy is    *)
(* newer is in buffer_sync_flags; whoever is about to read a copy first    *)
(* transfers the other one if the flags say so.                            *)
(*                                                                         *)
(* The data are abstracted to freshness: host[d] and dev[d] are the parts  *)
(* of d for which that copy is as good as the newest value.  GPU kernels   *)
(* are queued in order, and run when the device likes.                     *)
(*                                                                         *)
(* One application thread: it maps data only while no graph runs and runs  *)
(* graphs only while nothing is mapped.  There are places where the flags  *)
(* lose track of the newest data; "lapsed" collects the objects to which   *)
(* one of them has happened, and everything else is about the others.      *)
(***************************************************************************)
EXTENDS Integers, Sequences, FiniteSets

CONSTANTS Data,
          Mapped,        \* bound: the data that the application accesses
          Parts,         \* of every object: what an application maps
          Graphs,        \* the nodes of each graph in the order of their execution:
                         \* [device, level, reads, writes]; "access" nodes run on the
                         \* CPU and use the device buffers (opencl_buffer_access_enable)
          Builds,        \* ENABLE_OPENCL, ENABLE_HIP
          MaxQueue       \* bound: kernels in the queue

\* What the hierarchy gives: levels in order, a writer per object, below its readers.
ASSUME GraphsAssumption ==
    \A g \in Graphs:
        /\ g \in Seq([device: {"gpu", "access", "cpu"}, level: Nat \ {0},
                      reads: SUBSET Data, writes: SUBSET Data])
        /\ \A i, j \in DOMAIN g:
              /\ i < j => g[i].level <= g[j].level /\ g[i].writes \cap g[j].writes = {}
              /\ g[i].writes \cap g[j].reads # {} => g[i].level < g[j].level

ASSUME BuildsAssumption ==
    /\ Mapped \subseteq Data
    /\ Builds \subseteq {"OpenCL", "HIP"}
    /\ MaxQueue \in Nat

VARIABLES
    build,
    host, dev,
    allocated,             \* the data with a device buffer
    dirty, synched,        \* buffer_sync_flags: who wrote last, and DIRTY_SYNCHED
    byWrite,               \* DIRTY_BY_WRITE, which nothing clears
    maps,                  \* the patches that are mapped
    graph, at,             \* the graph that runs and its next node
    launchedLevel,         \* nodeLaunchHierarchicalLevel
    access,                \* the local opencl_buffer_access_enable
    queue,                 \* the command queue of the graphs
    lapsed, misread        \* history

copies == <<host, dev>>
sync == <<dirty, synched, byWrite>>
execution == <<graph, at, launchedLevel, access>>
history == <<lapsed, misread>>
vars == <<build, copies, allocated, sync, maps, execution, queue, history>>

Init ==
    /\ build \in Builds
    /\ host = [d \in Data |-> Parts] /\ dev = [d \in Data |-> Parts]   \* nobody has written
    /\ allocated = {}
    /\ dirty = [d \in Data |-> "none"] /\ synched = {} /\ byWrite = {}
    /\ maps = {}
    /\ graph = <<>> /\ at = 1 /\ launchedLevel = 0 /\ access = FALSE
    /\ queue = <<>>
    /\ lapsed = {} /\ misread = {}

Running == graph # <<>>
Nodes(g) == {g[i]: i \in DOMAIN g}
OnDevice(g) == UNION {n.reads \cup n.writes: n \in {m \in Nodes(g): m.device # "cpu"}}
Queued == UNION {k.reads \cup k.writes: k \in Nodes(queue)}

\* The device copy alone is up to date.
DeviceNewer(d) == d \in allocated /\ dirty[d] = "node_cl" /\ d \notin synched
\* The host copy alone is.
HostNewer(d) == d \in allocated /\ dirty[d] \in {"commit", "node"} /\ d \notin synched

Reads(usage) == usage # "write"
Writes(usage) == usage # "read"
BeingWritten(d) == \E m \in maps: m.data = d /\ Writes(m.usage)

\* host' and dev' after the data D have been copied.
ToHost(D) == host' = [d \in Data |-> IF d \in D THEN dev[d] ELSE host[d]]
ToDevice(D) == [d \in Data |-> IF d \in D THEN host[d] ELSE dev[d]]

\* What is marked as written by "who".
Marked(D, who) == dirty' = [d \in Data |-> IF d \in D THEN who ELSE dirty[d]]

------------------------------------------------------------------------------
\* vxVerifyGraph: device buffers for what the GPU uses.  They are filled with
\* zeros: what a CPU node wrote before is not marked, and not copied later.
Verify(g) ==
    /\ ~Running
    /\ allocated' = allocated \cup OnDevice(g)
    /\ lapsed' = lapsed \cup {d \in allocated' \ allocated:
                                 dirty[d] = "none" /\ dev[d] # Parts /\ ~BeingWritten(d)}
    /\ UNCHANGED <<build, copies, sync, maps, execution, queue, misread>>

\* vxVerifyGraph of a graph that uses a region of interest of d on the GPU:
\* after a write-only map the host copy goes to the device, newer or not.
VerifyRegion(d) ==
    /\ ~Running /\ d \in allocated
    /\ IF d \in byWrite
          THEN /\ dev' = ToDevice({d})
               /\ lapsed' = IF DeviceNewer(d) THEN lapsed \cup {d} ELSE lapsed
          ELSE UNCHANGED <<dev, lapsed>>
    /\ UNCHANGED <<build, host, allocated, sync, maps, execution, queue, misread>>

------------------------------------------------------------------------------
\* The application: vxMapImagePatch ("map") and vxAccessImagePatch ("access").

\* Seeded fault: only readers are synchronised that do not write.
SynchsReadOnly(api, usage) == usage = "read"

Synchs(api, usage) == Reads(usage) \/ (build = "HIP" /\ api = "map")

\* A patch that is written overlaps with no other; the same pointer is refused.
MayMap(d, patch, usage) ==
    \A m \in maps: m.data = d =>
        /\ m.patch # patch
        /\ m.patch \cap patch # {} => ~Writes(m.usage) /\ ~Writes(usage)

\* Write-only access to a part of an object whose newest data is on the device:
\* the rest of the host copy stays old, and the commit declares it new.
LosesRest(d, patch, api, usage) ==
    DeviceNewer(d) /\ ~Reads(usage) /\ ~(build = "HIP" /\ api = "map") /\ patch # Parts

Map(d, patch, api, usage) ==
    LET stale == IF DeviceNewer(d) /\ Synchs(api, usage) THEN {d} ELSE {}
    IN  /\ ~Running
        /\ MayMap(d, patch, usage)
        /\ ToHost(stale)
        /\ synched' = synched \cup stale
        /\ byWrite' = IF api = "map" /\ usage = "write" THEN byWrite \cup {d} ELSE byWrite
        /\ maps' = maps \cup {[data |-> d, patch |-> patch, usage |-> usage, filled |-> FALSE]}
        /\ lapsed' = IF LosesRest(d, patch, api, usage) THEN lapsed \cup {d} ELSE lapsed
        /\ misread' = IF Reads(usage) /\ ~(patch \subseteq host'[d]) THEN misread \cup {d} ELSE misread
        /\ UNCHANGED <<build, dev, allocated, dirty, execution, queue>>

\* The application writes through the pointer.
Fill(m) ==
    /\ m \in maps /\ Writes(m.usage) /\ ~m.filled
    /\ host' = [host EXCEPT ![m.data] = @ \cup m.patch]
    /\ dev' = [dev EXCEPT ![m.data] = @ \ m.patch]
    /\ maps' = (maps \ {m}) \cup {[m EXCEPT !.filled = TRUE]}
    /\ UNCHANGED <<build, allocated, sync, execution, queue, history>>

\* Seeded fault: DIRTY_SYNCHED is not part of DIRTY_MASK.
UnmapSynched(m) ==
    /\ m \in maps /\ (Writes(m.usage) => m.filled)
    /\ maps' = maps \ {m}
    /\ IF Writes(m.usage) THEN Marked({m.data}, "commit") ELSE UNCHANGED dirty
    /\ UNCHANGED <<build, copies, allocated, synched, byWrite, execution, queue, history>>

\* vxUnmapImagePatch, vxCommitImagePatch
Unmap(m) ==
    /\ m \in maps /\ (Writes(m.usage) => m.filled)
    /\ maps' = maps \ {m}
    /\ IF Writes(m.usage)
          THEN Marked({m.data}, "commit") /\ synched' = synched \ {m.data}
          ELSE UNCHANGED <<dirty, synched>>
    /\ UNCHANGED <<build, copies, allocated, byWrite, execution, queue, history>>

\* vxSwapImageHandle: other host memory, with other data.
SwapHandle(d) ==
    /\ ~Running /\ \A m \in maps: m.data # d
    /\ host' = [host EXCEPT ![d] = Parts] /\ dev' = [dev EXCEPT ![d] = {}]
    /\ Marked({d}, "commit") /\ synched' = synched \ {d}
    /\ UNCHANGED <<build, allocated, byWrite, maps, execution, queue, history>>

\* agoDirective(VX_DIRECTIVE_AMD_COPY_TO_OPENCL / _HIPMEM): unconditional.
CopyToDevice(d) ==
    /\ ~Running /\ d \in allocated /\ \A m \in maps: m.data # d
    /\ dev' = ToDevice({d})
    /\ synched' = synched \cup {d}
    /\ lapsed' = IF DeviceNewer(d) THEN lapsed \cup {d} ELSE lapsed
    /\ UNCHANGED <<build, host, allocated, dirty, byWrite, maps, execution, queue, misread>>

Application ==
    \/ \E g \in Graphs: Verify(g)
    \/ \E d \in Mapped: VerifyRegion(d) \/ SwapHandle(d) \/ CopyToDevice(d)
    \/ \E d \in Mapped, patch \in (SUBSET Parts) \ {{}}, api \in {"map", "access"}, usage \in {"read", "write", "both"}:
          Map(d, patch, api, usage)
    \/ \E m \in maps: Fill(m) \/ Unmap(m)

------------------------------------------------------------------------------
\* agoExecuteGraph
Begin(g) ==
    /\ ~Running /\ maps = {}
    /\ g # <<>> /\ OnDevice(g) \subseteq allocated
    /\ graph' = g /\ at' = 1
    /\ launchedLevel' = 0 /\ access' = FALSE
    /\ UNCHANGED <<build, copies, allocated, sync, maps, queue, history>>

Return == graph' = <<>> /\ at' = 1 /\ launchedLevel' = 0 /\ access' = FALSE

Node == graph[at]
IsNode(devices) == Running /\ at <= Len(graph) /\ Node.device \in devices

\* A node that computes on the device: its inputs are copied, its kernel is
\* queued, its outputs are marked.  An "access" node queues its own commands, and
\* its callback may abandon the graph.  A launch that fails has queued nothing.
Launch(result) ==
    LET n == Node
        stale == {d \in n.reads: HostNewer(d)}
        written == IF result = "failed" THEN {} ELSE n.writes
    IN  /\ IsNode({"gpu", "access"}) /\ (result = "abandoned" => n.device = "access")
        /\ Len(queue) < MaxQueue
        /\ queue' = IF result = "failed" THEN queue ELSE Append(queue, n)
        /\ host' = [d \in Data |-> IF d \in written THEN {} ELSE host[d]]
        /\ dev' = [d \in Data |-> IF d \in written THEN {} ELSE ToDevice(stale)[d]]
        /\ Marked(written, "node_cl")
        /\ synched' = (synched \cup stale) \ written
        /\ IF result = "done"
              THEN /\ launchedLevel' = IF n.device = "gpu" /\ launchedLevel = 0 THEN n.level ELSE launchedLevel
                   /\ access' = (access \/ n.device = "access")
                   /\ at' = at + 1
                   /\ UNCHANGED <<graph, lapsed>>
              ELSE Return /\ lapsed' = lapsed \cup Queued'
        /\ UNCHANGED <<build, allocated, byWrite, maps, misread>>

\* A CPU node waits for the kernels launched in lower levels.
Waits(level) == 0 < launchedLevel /\ launchedLevel < level

\* It has waited, and has what it reads: a transfer waits for the queue too.
Ready(stale) == queue = <<>> \/ (~Waits(Node.level) /\ ~access /\ stale = {})

\* A CPU node: its inputs are copied to the host, it runs, and its outputs are
\* marked if they have a device buffer.  If the kernel fails they are not; if it
\* fails, or the node's callback abandons the graph, the execution returns
\* without waiting for the kernels that it has launched.
Compute(result) ==
    LET n == Node
        stale == {d \in n.reads: DeviceNewer(d)}
        read == [d \in Data |-> IF d \in stale THEN dev[d] ELSE host[d]]
        marked == IF result = "failed" THEN {} ELSE n.writes \cap allocated
    IN  /\ IsNode({"cpu"}) /\ Ready(stale)
        /\ host' = [d \in Data |-> IF d \notin n.writes THEN read[d]
                                  ELSE IF result = "failed" THEN {} ELSE Parts]
        /\ dev' = [d \in Data |-> IF d \in n.writes THEN {} ELSE dev[d]]
        /\ Marked(marked, "node")
        /\ synched' = (synched \cup stale) \ marked
        /\ misread' = misread \cup {d \in n.reads: read[d] # Parts}
        /\ lapsed' = CASE result = "done" -> lapsed
                       [] result = "failed" -> lapsed \cup Queued \cup n.writes
                       [] result = "abandoned" -> lapsed \cup Queued
        /\ IF result = "done"
              THEN /\ launchedLevel' = IF Waits(n.level) THEN 0 ELSE launchedLevel
                   /\ access' = FALSE
                   /\ at' = at + 1
                   /\ UNCHANGED graph
              ELSE Return
        /\ UNCHANGED <<build, allocated, byWrite, maps, queue>>

\* agoWaitForNodesCompletion, by a CPU node or at the end: the callback of a GPU
\* node that is done abandons the graph, and the others are not waited for.
WaitAbandoned ==
    LET waited == {i \in 1..at - 1: graph[i].device = "gpu" /\ graph[i].level >= launchedLevel}
    IN  /\ Running /\ launchedLevel > 0
        /\ at <= Len(graph) => Node.device = "cpu" /\ Waits(Node.level)
        /\ Cardinality(waited) > Cardinality({i \in DOMAIN queue: queue[i].device = "gpu"})
        /\ lapsed' = lapsed \cup Queued
        /\ Return
        /\ UNCHANGED <<build, copies, allocated, sync, maps, queue, misread>>

\* Seeded fault: the end waits for the access nodes only.
EndEarly ==
    /\ Running /\ at > Len(graph)
    /\ access => queue = <<>>
    /\ Return
    /\ UNCHANGED <<build, copies, allocated, sync, maps, queue, history>>

End ==
    /\ Running /\ at > Len(graph)
    /\ launchedLevel > 0 \/ access => queue = <<>>
    /\ Return
    /\ UNCHANGED <<build, copies, allocated, sync, maps, queue, history>>

\* The device.
KernelCompletes ==
    LET k == Head(queue)
    IN  /\ queue # <<>>
        /\ queue' = Tail(queue)
        /\ misread' = misread \cup {d \in k.reads: dev[d] # Parts}
        /\ dev' = [d \in Data |-> IF d \in k.writes THEN Parts ELSE dev[d]]
        /\ UNCHANGED <<build, host, allocated, sync, maps, execution, lapsed>>

Next ==
    \/ Application
    \/ \E g \in Graphs: Begin(g)
    \/ \E result \in {"done", "failed", "abandoned"}: Launch(result) \/ Compute(result)
    \/ WaitAbandoned \/ End
    \/ KernelCompletes

Spec == Init /\ [][Next]_vars

------------------------------------------------------------------------------
Patches == [data: Data, patch: (SUBSET Parts) \ {{}}, usage: {"read", "write", "both"}, filled: BOOLEAN]

TypeOK ==
    /\ build \in Builds
    /\ host \in [Data -> SUBSET Parts] /\ dev \in [Data -> SUBSET Parts]
    /\ allocated \subseteq Data
    /\ dirty \in [Data -> {"none", "commit", "node", "node_cl"}]
    /\ synched \subseteq Data /\ byWrite \subseteq Data
    /\ maps \subseteq Patches
    /\ graph \in Graphs \cup {<<>>} /\ at \in 1..Len(graph) + 1
    /\ launchedLevel \in Nat /\ access \in BOOLEAN
    /\ queue \in Seq(UNION {Nodes(g): g \in Graphs})
    /\ lapsed \subseteq Data /\ misread \subseteq Data

\* Neither a node nor the application ever reads a part of an object of which
\* the copy it reads is not the newest, whatever wrote it last and wherever.
NoStaleRead == misread \subseteq lapsed

\* The newest value of every part is somewhere: in a copy, or in a queued kernel.
Written == UNION {k.writes: k \in Nodes(queue)}
NothingLost == \A d \in Data \ (lapsed \cup Written): host[d] \cup dev[d] = Parts

\* An execution that returns has finished on the device too.
ReturnsFinished == ~Running => Queued \subseteq lapsed
================================================================================
