------------------------ MODULE BufferCoherence_proofs ------------------------
(***************************************************************************)
(* The copies stay coherent for any data, graphs, patches and builds.  The *)
(* inductive invariant says, of every object that has not lapsed, which    *)
(* copy is complete for which value of the flags, what the kernels in the  *)
(* queue may rely on, and that the maps that write an object whose newest  *)
(* copy is on the device cover the whole object.                           *)
(***************************************************************************)
EXTENDS BufferCoherence, TLAPS

Fresh(d) == dirty[d] = "none" \/ d \in synched \/ dirty[d] = "node_cl"
BeingFilled(d) == \E m \in maps: m.data = d /\ Writes(m.usage) /\ m.filled

\* Nothing is mapped while a graph runs, whose device data have a buffer.
Apart == Running => maps = {} /\ OnDevice(graph) \subseteq allocated

\* Without a device buffer nothing is on the device.
HostOnly == \A d \in Data \ allocated: dirty[d] # "node_cl" /\ d \notin synched

HostComplete ==
    \A d \in Data \ lapsed: dirty[d] # "node_cl" \/ d \in synched => host[d] = Parts

DeviceComplete ==
    \A d \in allocated \ (lapsed \cup Written):
        /\ (dirty[d] = "none" \/ d \in synched) /\ ~BeingWritten(d) => dev[d] = Parts
        /\ DeviceNewer(d) /\ ~BeingFilled(d) => dev[d] = Parts

\* What is written over newer device data is written as a whole.
WholeMaps ==
    \A m \in maps: m.data \notin lapsed /\ Writes(m.usage) /\ DeviceNewer(m.data) =>
        /\ m.patch = Parts
        /\ m.filled => host[m.data] = Parts

\* A kernel in the queue is a node of the running graph, or left over.
LeftOver(k) == k.reads \cup k.writes \subseteq lapsed
Launched(k) == Running /\ \E j \in 1..at - 1: k = graph[j]
QueueIsOwn == \A i \in DOMAIN queue: LeftOver(queue[i]) \/ Launched(queue[i])

\* What it reads is on the device, or will be when it runs.
ReadsAreFresh ==
    \A i \in DOMAIN queue: \A d \in queue[i].reads \ lapsed: d \in allocated /\ Fresh(d)
WritersFirst ==
    \A i, j \in DOMAIN queue: i <= j => queue[i].reads \cap queue[j].writes \subseteq lapsed
WrittenOnDevice == \A d \in Written \ lapsed: DeviceNewer(d)

\* Somebody will wait for the kernels that are not left over.
WaitIsDue == launchedLevel = 0 /\ ~access => Queued \subseteq lapsed

Flags == HostOnly /\ HostComplete /\ DeviceComplete /\ WholeMaps
Kernels == QueueIsOwn /\ ReadsAreFresh /\ WritersFirst /\ WrittenOnDevice /\ WaitIsDue
IInv == TypeOK /\ Apart /\ Flags /\ Kernels /\ ReturnsFinished /\ NoStaleRead
------------------------------------------------------------------------------
USE GraphsAssumption, BuildsAssumption

Devices == {"gpu", "access", "cpu"}
Results == {"done", "failed", "abandoned"}
NodeType == [device: Devices, level: Nat \ {0}, reads: SUBSET Data, writes: SUBSET Data]

LEMMA NodesTyped == \A g \in Graphs \cup {<<>>}: Nodes(g) \subseteq NodeType
<1> SUFFICES ASSUME NEW g \in Graphs \cup {<<>>}, NEW i \in DOMAIN g PROVE g[i] \in NodeType
    BY DEF Nodes
<1>1. CASE g \in Graphs
    <2>1. g \in Seq(NodeType)
        BY <1>1 DEF NodeType, Devices
    <2> QED
        BY <2>1
<1>2. CASE g = <<>>
    BY <1>2
<1> QED
    BY <1>1, <1>2

LEMMA KernelsTyped ==
    ASSUME queue \in Seq(UNION {Nodes(g): g \in Graphs})
    PROVE  /\ queue \in Seq(NodeType) /\ \A i \in DOMAIN queue: queue[i] \in NodeType
           /\ Queued \subseteq Data /\ Written \subseteq Queued
<1>1. UNION {Nodes(g): g \in Graphs} \subseteq NodeType
    BY NodesTyped
<1>2. queue \in Seq(NodeType)
    BY <1>1
<1>3. \A i \in DOMAIN queue: queue[i] \in NodeType
    BY <1>2
<1>4. Queued \subseteq Data
    <2>1. \A k \in NodeType: k.reads \cup k.writes \subseteq Data
        BY DEF NodeType
    <2> QED
        BY <1>3, <2>1 DEF Queued, Nodes
<1> QED
    BY <1>2, <1>3, <1>4 DEF Queued, Written

LEMMA DeviceDataTyped == \A g \in Graphs \cup {<<>>}: OnDevice(g) \subseteq Data
<1>1. \A k \in NodeType: k.reads \cup k.writes \subseteq Data
    BY DEF NodeType
<1> QED
    BY NodesTyped, <1>1 DEF OnDevice

\* The node at hand is one of a graph.
LEMMA NodeTyped ==
    ASSUME TypeOK, NEW D, IsNode(D)
    PROVE  /\ graph \in Graphs /\ graph \in Seq(NodeType) /\ at \in DOMAIN graph
           /\ Node \in NodeType /\ at + 1 \in 1..Len(graph) + 1
           /\ Node \in Nodes(graph)
<1>1. graph \in Graphs /\ graph \in Seq(NodeType)
    BY DEF TypeOK, IsNode, Running, NodeType, Devices
<1>2. Len(graph) \in Nat /\ DOMAIN graph = 1..Len(graph) /\ at \in DOMAIN graph
    BY <1>1 DEF TypeOK, IsNode
<1> QED
    BY <1>1, <1>2 DEF Node, Nodes

LEMMA TypeInit == Init => TypeOK
<1> SUFFICES ASSUME Init PROVE TypeOK
    OBVIOUS
<1>1. queue \in Seq(UNION {Nodes(g): g \in Graphs})
    BY DEF Init
<1>2. graph \in Graphs \cup {<<>>} /\ at \in 1..Len(graph) + 1
    BY DEF Init
<1> QED
    BY <1>1, <1>2 DEF Init, TypeOK

LEMMA TypeReturns ==
    ASSUME Return
    PROVE  /\ graph' \in Graphs \cup {<<>>} /\ at' \in 1..Len(graph') + 1
           /\ launchedLevel' \in Nat /\ access' \in BOOLEAN
<1>1. at' \in 1..Len(graph') + 1
    <2>1. Len(graph') = 0 /\ at' = 1
        BY DEF Return
    <2> QED
        BY <2>1
<1> QED
    BY <1>1 DEF Return

LEMMA TypeStep == TypeOK /\ [Next]_vars => TypeOK'
<1> SUFFICES ASSUME TypeOK, [Next]_vars PROVE TypeOK'
    OBVIOUS
<1> build' = build
    BY DEF Next, vars, Application, Verify, VerifyRegion, SwapHandle, CopyToDevice, Map, Fill, Unmap,
           Begin, Launch, Compute, WaitAbandoned, End, KernelCompletes
<1> USE DEF TypeOK
<1>1. ASSUME NEW g \in Graphs, Verify(g) PROVE TypeOK'
    BY <1>1, DeviceDataTyped DEF Verify, copies, sync, execution
<1>2. ASSUME NEW d \in Mapped, VerifyRegion(d) PROVE TypeOK'
    BY <1>2 DEF VerifyRegion, ToDevice, sync, execution
<1>3. ASSUME NEW d \in Mapped, SwapHandle(d) PROVE TypeOK'
    BY <1>3 DEF SwapHandle, Marked, execution, history
<1>4. ASSUME NEW d \in Mapped, CopyToDevice(d) PROVE TypeOK'
    BY <1>4 DEF CopyToDevice, ToDevice, execution
<1>5. ASSUME NEW d \in Mapped, NEW patch \in (SUBSET Parts) \ {{}}, NEW api \in {"map", "access"},
             NEW usage \in {"read", "write", "both"}, Map(d, patch, api, usage) PROVE TypeOK'
    <2>1. maps' \subseteq Patches
        <3>1. [data |-> d, patch |-> patch, usage |-> usage, filled |-> FALSE] \in Patches
            BY DEF Patches
        <3> QED
            BY <1>5, <3>1 DEF Map
    <2>2. host' \in [Data -> SUBSET Parts]
        BY <1>5 DEF Map, ToHost
    <2> QED
        BY <1>5, <2>1, <2>2 DEF Map, execution
<1>6. ASSUME NEW m \in maps, Fill(m) PROVE TypeOK'
    <2>1. maps' \subseteq Patches
        BY <1>6 DEF Fill, Patches
    <2>2. m.data \in Data /\ m.patch \subseteq Parts
        BY DEF Patches
    <2>3. host' \in [Data -> SUBSET Parts] /\ dev' \in [Data -> SUBSET Parts]
        BY <1>6, <2>2 DEF Fill
    <2> QED
        BY <1>6, <2>1, <2>3 DEF Fill, sync, execution, history
<1>7. ASSUME NEW m \in maps, Unmap(m) PROVE TypeOK'
    BY <1>7 DEF Unmap, Marked, copies, execution, history
<1>8. ASSUME NEW g \in Graphs, Begin(g) PROVE TypeOK'
    <2>1. graph' \in Graphs /\ Len(graph') \in Nat
        BY <1>8 DEF Begin
    <2>2. at' \in 1..Len(graph') + 1
        BY <1>8, <2>1 DEF Begin
    <2> QED
        BY <1>8, <2>1, <2>2 DEF Begin, copies, sync, history
<1>9. ASSUME NEW result \in Results, Launch(result) PROVE TypeOK'
    <2>n. IsNode({"gpu", "access"})
        BY <1>9 DEF Launch
    <2>1. /\ graph \in Graphs /\ Node \in NodeType /\ Node \in Nodes(graph)
          /\ at + 1 \in 1..Len(graph) + 1
        BY <2>n, NodeTyped
    <2>2. queue' \in Seq(UNION {Nodes(g): g \in Graphs})
        <3>1. Node \in UNION {Nodes(g): g \in Graphs}
            BY <2>1
        <3> QED
            BY <1>9, <3>1 DEF Launch
    <2>3. host' \in [Data -> SUBSET Parts] /\ dev' \in [Data -> SUBSET Parts]
        BY <1>9 DEF Launch, ToDevice
    <2>4. dirty' \in [Data -> {"none", "commit", "node", "node_cl"}] /\ synched' \subseteq Data
        BY <1>9, <2>1 DEF Launch, Marked, NodeType
    <2>5. /\ graph' \in Graphs \cup {<<>>} /\ at' \in 1..Len(graph') + 1
          /\ launchedLevel' \in Nat /\ access' \in BOOLEAN
        <3>1. CASE result = "done"
            BY <1>9, <2>1, <3>1 DEF Launch, NodeType
        <3>2. CASE result # "done"
            BY <1>9, <3>2, TypeReturns DEF Launch
        <3> QED
            BY <3>1, <3>2
    <2>6. lapsed' \subseteq Data
        <3>1. Queued' \subseteq Data
            <4>1. Nodes(queue') \subseteq NodeType
                <5>1. UNION {Nodes(g): g \in Graphs} \subseteq NodeType
                    BY NodesTyped
                <5> QED
                    BY <2>2, <5>1 DEF Nodes
            <4>2. \A k \in NodeType: k.reads \cup k.writes \subseteq Data
                BY DEF NodeType
            <4> QED
                BY <4>1, <4>2 DEF Queued
        <3> QED
            BY <1>9, <3>1 DEF Launch
    <2> QED
        BY <1>9, <2>2, <2>3, <2>4, <2>5, <2>6 DEF Launch
<1>q. Queued \subseteq Data
    BY KernelsTyped
<1>10. ASSUME NEW result \in Results, Compute(result) PROVE TypeOK'
    <2>n. IsNode({"cpu"})
        BY <1>10 DEF Compute
    <2>1. graph \in Graphs /\ Node \in NodeType /\ at + 1 \in 1..Len(graph) + 1
        BY <2>n, NodeTyped
    <2>2. host' \in [Data -> SUBSET Parts] /\ dev' \in [Data -> SUBSET Parts]
        BY <1>10 DEF Compute
    <2>3. dirty' \in [Data -> {"none", "commit", "node", "node_cl"}] /\ synched' \subseteq Data
        BY <1>10, <2>1 DEF Compute, Marked, NodeType
    <2>4. /\ graph' \in Graphs \cup {<<>>} /\ at' \in 1..Len(graph') + 1
          /\ launchedLevel' \in Nat /\ access' \in BOOLEAN
        <3>1. CASE result = "done"
            <4>1. graph' = graph /\ at' = at + 1 /\ access' = FALSE
                BY <1>10, <3>1 DEF Compute
            <4>2. launchedLevel' \in Nat
                BY <1>10, <3>1 DEF Compute
            <4> QED
                BY <2>1, <4>1, <4>2
        <3>2. CASE result # "done"
            BY <1>10, <3>2, TypeReturns DEF Compute
        <3> QED
            BY <3>1, <3>2
    <2>5. lapsed' \subseteq Data /\ misread' \subseteq Data
        BY <1>10, <1>q, <2>1 DEF Compute, NodeType, Results
    <2> QED
        BY <1>10, <2>2, <2>3, <2>4, <2>5 DEF Compute
<1>11. CASE WaitAbandoned
    BY <1>11, <1>q, TypeReturns DEF WaitAbandoned, copies, sync
<1>12. CASE End
    BY <1>12, TypeReturns DEF End, copies, sync, history
<1>13. CASE KernelCompletes
    <2>1. queue' \in Seq(UNION {Nodes(g): g \in Graphs})
        BY <1>13 DEF KernelCompletes
    <2>2. dev' \in [Data -> SUBSET Parts]
        BY <1>13 DEF KernelCompletes
    <2>3. Head(queue) \in UNION {Nodes(g): g \in Graphs}
        BY <1>13 DEF KernelCompletes
    <2>4. Head(queue).reads \subseteq Data
        BY <2>3, NodesTyped DEF NodeType
    <2> QED
        BY <1>13, <2>1, <2>2, <2>4 DEF KernelCompletes, sync, execution
<1>14. CASE UNCHANGED vars
    BY <1>14 DEF vars, copies, sync, execution, history
<1>a. ASSUME Application PROVE TypeOK'
    <2>1. CASE \E g \in Graphs: Verify(g)
        BY <2>1, <1>1
    <2>2. CASE \E d \in Mapped: VerifyRegion(d) \/ SwapHandle(d) \/ CopyToDevice(d)
        BY <2>2, <1>2, <1>3, <1>4
    <2>3. CASE \E d \in Mapped, patch \in (SUBSET Parts) \ {{}}, api \in {"map", "access"},
                  usage \in {"read", "write", "both"}: Map(d, patch, api, usage)
        <3>1. PICK d \in Mapped, patch \in (SUBSET Parts) \ {{}}, api \in {"map", "access"},
                   usage \in {"read", "write", "both"}: Map(d, patch, api, usage)
            BY <2>3
        <3> HIDE DEF TypeOK
        <3> QED
            BY <3>1, <1>5
    <2>4. CASE \E m \in maps: Fill(m) \/ Unmap(m)
        BY <2>4, <1>6, <1>7
    <2> QED
        BY <1>a, <2>1, <2>2, <2>3, <2>4 DEF Application
<1> QED
    BY <1>a, <1>8, <1>9, <1>10, <1>11, <1>12, <1>13, <1>14 DEF Next, Results

\* Every variable keeps its type, whatever the graphs and the data are.
THEOREM TypeCorrect == Spec => []TypeOK
BY TypeInit, TypeStep, PTL DEF Spec

------------------------------------------------------------------------------
\* When no graph runs, every kernel in the queue is left over.
LEMMA IdleKernels == ~Running /\ Queued \subseteq lapsed => Apart /\ Kernels /\ ReturnsFinished
<1> SUFFICES ASSUME ~Running, Queued \subseteq lapsed PROVE Apart /\ Kernels /\ ReturnsFinished
    OBVIOUS
<1>1. \A i \in DOMAIN queue: queue[i].reads \cup queue[i].writes \subseteq lapsed
    BY DEF Queued, Nodes
<1>2. QueueIsOwn
    BY <1>1 DEF QueueIsOwn, LeftOver
<1>3. ReadsAreFresh /\ WritersFirst
    BY <1>1 DEF ReadsAreFresh, WritersFirst
<1>4. WrittenOnDevice
    BY DEF WrittenOnDevice, Written, Queued
<1> QED
    BY <1>2, <1>3, <1>4 DEF Apart, Kernels, WaitIsDue, ReturnsFinished

\* What the application does between the executions changes nothing of that.
LEMMA StaysIdle ==
    ASSUME ReturnsFinished, ~Running, UNCHANGED <<queue, execution>>, lapsed \subseteq lapsed'
    PROVE  Apart' /\ Kernels' /\ ReturnsFinished' /\ Written \subseteq lapsed /\ Written' = Written
<1>1. Queued \subseteq lapsed /\ Written \subseteq Queued
    BY DEF ReturnsFinished, Queued, Written
<1>2. Queued' = Queued /\ Written' = Written /\ Running' = Running
    BY DEF Queued, Written, Running, Nodes, execution
<1>3. ~Running' /\ Queued' \subseteq lapsed'
    BY <1>1, <1>2
<1>4. (~Running /\ Queued \subseteq lapsed => Apart /\ Kernels /\ ReturnsFinished)'
    BY IdleKernels, PTL
<1> QED
    BY <1>1, <1>2, <1>3, <1>4

LEMMA InvInit == Init => IInv
<1> SUFFICES ASSUME Init PROVE IInv
    OBVIOUS
<1>1. ~Running /\ Queued = {}
    BY DEF Init, Running, Queued, Nodes
<1>2. Apart /\ Kernels /\ ReturnsFinished
    BY <1>1, IdleKernels
<1>3. Flags
    BY DEF Init, Flags, HostOnly, HostComplete, DeviceComplete, WholeMaps
<1>4. NoStaleRead
    BY DEF Init, NoStaleRead
<1> QED
    BY <1>2, <1>3, <1>4, TypeInit DEF IInv

LEMMA VerifyKeeps == ASSUME IInv, NEW g \in Graphs, Verify(g) PROVE IInv'
<1> USE DEF IInv, Flags
<1>1. TypeOK'
    BY TypeStep DEF Next, Application
<1>2. Apart' /\ Kernels' /\ ReturnsFinished' /\ Written \subseteq lapsed /\ Written' = Written
    BY StaysIdle DEF Verify
<1>3. /\ dirty' = dirty /\ synched' = synched /\ maps' = maps /\ host' = host /\ dev' = dev
      /\ misread' = misread /\ lapsed \subseteq lapsed' /\ allocated \subseteq allocated'
    BY DEF Verify, sync, copies
<1>4. HostOnly' /\ HostComplete' /\ NoStaleRead'
    BY <1>3 DEF HostOnly, HostComplete, NoStaleRead
<1>5. \A d \in Data: DeviceNewer(d)' <=> DeviceNewer(d)
    BY <1>3 DEF DeviceNewer, HostOnly
<1>6. WholeMaps'
    BY <1>3, <1>5 DEF WholeMaps, Writes, TypeOK, Patches
<1>7. DeviceComplete'
    <2> SUFFICES ASSUME NEW d \in allocated', d \notin lapsed', d \notin Written'
                 PROVE  /\ (dirty[d] = "none" \/ d \in synched) /\ ~BeingWritten(d)' => dev[d] = Parts
                        /\ DeviceNewer(d)' /\ ~BeingFilled(d)' => dev[d] = Parts
        BY <1>3 DEF DeviceComplete
    <2>1. BeingWritten(d)' = BeingWritten(d) /\ BeingFilled(d)' = BeingFilled(d)
        BY <1>3 DEF BeingWritten, BeingFilled
    <2>2. CASE d \in allocated
        BY <1>2, <1>3, <1>5, <2>1, <2>2 DEF DeviceComplete, TypeOK
    <2>3. CASE d \notin allocated
        <3>1. d \in Data
            BY <1>1 DEF TypeOK
        <3>2. dirty[d] # "node_cl" /\ d \notin synched
            BY <2>3, <3>1 DEF HostOnly
        <3>3. ~DeviceNewer(d)'
            BY <1>3, <3>2 DEF DeviceNewer
        <3>4. dirty[d] = "none" /\ ~BeingWritten(d) => dev[d] = Parts
            BY <2>3 DEF Verify
        <3> QED
            BY <2>1, <3>2, <3>3, <3>4
    <2> QED
        BY <2>2, <2>3
<1> QED
    BY <1>1, <1>2, <1>4, <1>6, <1>7

LEMMA VerifyRegionKeeps == ASSUME IInv, NEW d \in Mapped, VerifyRegion(d) PROVE IInv'
<1> USE DEF IInv, Flags
<1>1. TypeOK'
    BY TypeStep DEF Next, Application
<1>2. Apart' /\ Kernels' /\ ReturnsFinished' /\ Written \subseteq lapsed /\ Written' = Written
    BY StaysIdle DEF VerifyRegion
<1>3. /\ dirty' = dirty /\ synched' = synched /\ maps' = maps /\ host' = host /\ allocated' = allocated
      /\ misread' = misread /\ lapsed \subseteq lapsed' /\ d \in allocated /\ d \in Data
      /\ dev' = IF d \in byWrite THEN ToDevice({d}) ELSE dev
      /\ d \in byWrite /\ DeviceNewer(d) => d \in lapsed'
    BY DEF VerifyRegion, sync, copies
<1>4. HostOnly' /\ HostComplete' /\ NoStaleRead'
    BY <1>3 DEF HostOnly, HostComplete, NoStaleRead
<1>5. /\ \A e \in Data: DeviceNewer(e)' = DeviceNewer(e)
      /\ \A e \in Data: BeingWritten(e)' = BeingWritten(e) /\ BeingFilled(e)' = BeingFilled(e)
    BY <1>3 DEF DeviceNewer, BeingWritten, BeingFilled
<1>6. WholeMaps'
    BY <1>3, <1>5 DEF WholeMaps, Writes, TypeOK, Patches
<1>7. DeviceComplete'
    <2> SUFFICES ASSUME NEW e \in allocated, e \notin lapsed', e \notin Written
                 PROVE  /\ (dirty[e] = "none" \/ e \in synched) /\ ~BeingWritten(e) => dev'[e] = Parts
                        /\ DeviceNewer(e) /\ ~BeingFilled(e) => dev'[e] = Parts
        BY <1>2, <1>3, <1>5 DEF DeviceComplete, TypeOK
    <2>1. CASE e = d /\ d \in byWrite
        <3>1. host[d] = Parts
            BY <1>3, <2>1 DEF HostComplete, DeviceNewer, TypeOK
        <3> QED
            BY <1>3, <2>1, <3>1 DEF ToDevice, TypeOK
    <2>2. CASE ~(e = d /\ d \in byWrite)
        <3>1. dev'[e] = dev[e]
            BY <1>3, <2>2 DEF ToDevice, TypeOK
        <3> QED
            BY <1>3, <3>1 DEF DeviceComplete
    <2> QED
        BY <2>1, <2>2
<1> QED
    BY <1>1, <1>2, <1>4, <1>6, <1>7

LEMMA SwapHandleKeeps == ASSUME IInv, NEW d \in Mapped, SwapHandle(d) PROVE IInv'
<1> USE DEF IInv, Flags
<1>1. TypeOK'
    BY TypeStep DEF Next, Application
<1>2. Apart' /\ Kernels' /\ ReturnsFinished' /\ Written \subseteq lapsed /\ Written' = Written
    BY StaysIdle DEF SwapHandle, history
<1>3. /\ dirty'[d] = "commit" /\ \A e \in Data \ {d}: dirty'[e] = dirty[e]
      /\ synched' = synched \ {d} /\ maps' = maps /\ allocated' = allocated
      /\ host'[d] = Parts /\ \A e \in Data \ {d}: host'[e] = host[e] /\ dev'[e] = dev[e]
      /\ misread' = misread /\ lapsed' = lapsed /\ d \in Data
    BY DEF SwapHandle, Marked, history, TypeOK
<1>4. HostOnly' /\ HostComplete' /\ NoStaleRead'
    BY <1>3 DEF HostOnly, HostComplete, NoStaleRead
<1>5. /\ \A e \in Data \ {d}: DeviceNewer(e)' = DeviceNewer(e)
      /\ ~DeviceNewer(d)'
      /\ \A e \in Data: BeingWritten(e)' = BeingWritten(e) /\ BeingFilled(e)' = BeingFilled(e)
    BY <1>3 DEF DeviceNewer, BeingWritten, BeingFilled
<1>6. WholeMaps'
    <2> SUFFICES ASSUME NEW m \in maps, m.data \notin lapsed, Writes(m.usage), DeviceNewer(m.data)'
                 PROVE  m.patch = Parts /\ (m.filled => host'[m.data] = Parts)
        BY <1>3 DEF WholeMaps
    <2>1. m.data \in Data
        BY DEF TypeOK, Patches
    <2> QED
        BY <1>3, <1>5, <2>1 DEF WholeMaps
<1>7. DeviceComplete'
    <2> SUFFICES ASSUME NEW e \in allocated, e \notin lapsed, e \notin Written
                 PROVE  /\ (dirty'[e] = "none" \/ e \in synched') /\ ~BeingWritten(e) => dev'[e] = Parts
                        /\ DeviceNewer(e)' /\ ~BeingFilled(e) => dev'[e] = Parts
        BY <1>2, <1>3, <1>5 DEF DeviceComplete, TypeOK
    <2> QED
        BY <1>3, <1>5 DEF DeviceComplete, TypeOK
<1> QED
    BY <1>1, <1>2, <1>4, <1>6, <1>7

LEMMA CopyToDeviceKeeps == ASSUME IInv, NEW d \in Mapped, CopyToDevice(d) PROVE IInv'
<1> USE DEF IInv, Flags
<1>1. TypeOK'
    BY TypeStep DEF Next, Application
<1>2. Apart' /\ Kernels' /\ ReturnsFinished' /\ Written \subseteq lapsed /\ Written' = Written
    BY StaysIdle DEF CopyToDevice
<1>3. /\ dirty' = dirty /\ synched' = synched \cup {d} /\ maps' = maps /\ host' = host
      /\ allocated' = allocated /\ d \in allocated /\ d \in Data
      /\ dev'[d] = host[d] /\ \A e \in Data \ {d}: dev'[e] = dev[e]
      /\ misread' = misread /\ lapsed \subseteq lapsed'
      /\ DeviceNewer(d) => d \in lapsed'
    BY DEF CopyToDevice, ToDevice, TypeOK
<1>s. d \notin lapsed' => host[d] = Parts
    BY <1>3 DEF HostComplete, DeviceNewer
<1>4. HostOnly' /\ HostComplete' /\ NoStaleRead'
    BY <1>3, <1>s DEF HostOnly, HostComplete, NoStaleRead
<1>5. /\ \A e \in Data \ {d}: DeviceNewer(e)' = DeviceNewer(e)
      /\ ~DeviceNewer(d)'
      /\ \A e \in Data: BeingWritten(e)' = BeingWritten(e) /\ BeingFilled(e)' = BeingFilled(e)
    BY <1>3 DEF DeviceNewer, BeingWritten, BeingFilled
<1>6. WholeMaps'
    <2> SUFFICES ASSUME NEW m \in maps, m.data \notin lapsed', Writes(m.usage), DeviceNewer(m.data)'
                 PROVE  m.patch = Parts /\ (m.filled => host'[m.data] = Parts)
        BY <1>3 DEF WholeMaps
    <2>1. m.data \in Data
        BY DEF TypeOK, Patches
    <2> QED
        BY <1>3, <1>5, <2>1 DEF WholeMaps
<1>7. DeviceComplete'
    <2> SUFFICES ASSUME NEW e \in allocated, e \notin lapsed', e \notin Written
                 PROVE  /\ (dirty'[e] = "none" \/ e \in synched') /\ ~BeingWritten(e) => dev'[e] = Parts
                        /\ DeviceNewer(e)' /\ ~BeingFilled(e) => dev'[e] = Parts
        BY <1>2, <1>3, <1>5 DEF DeviceComplete, TypeOK
    <2> QED
        BY <1>3, <1>5, <1>s DEF DeviceComplete, TypeOK
<1> QED
    BY <1>1, <1>2, <1>4, <1>6, <1>7

LEMMA MapKeeps ==
    ASSUME IInv, NEW d \in Mapped, NEW patch \in (SUBSET Parts) \ {{}}, NEW api \in {"map", "access"},
           NEW usage \in {"read", "write", "both"}, Map(d, patch, api, usage)
    PROVE  IInv'
<1> USE DEF IInv, Flags
<1>1. TypeOK'
    BY TypeStep DEF Next, Application
<1>2. Apart' /\ Kernels' /\ ReturnsFinished' /\ Written \subseteq lapsed /\ Written' = Written
    BY StaysIdle DEF Map
<1> DEFINE new == [data |-> d, patch |-> patch, usage |-> usage, filled |-> FALSE]
           reading == DeviceNewer(d) /\ Synchs(api, usage)
<1>3. /\ dirty' = dirty /\ dev' = dev /\ allocated' = allocated /\ maps' = maps \cup {new}
      /\ synched' = synched \cup (IF reading THEN {d} ELSE {})
      /\ host'[d] = (IF reading THEN dev[d] ELSE host[d])
      /\ \A e \in Data \ {d}: host'[e] = host[e]
      /\ lapsed \subseteq lapsed' /\ d \in Data
      /\ LosesRest(d, patch, api, usage) => d \in lapsed'
      /\ misread' = IF Reads(usage) /\ ~(patch \subseteq host'[d]) THEN misread \cup {d} ELSE misread
    BY DEF Map, ToHost, TypeOK
<1>4. /\ \A e \in Data \ {d}: DeviceNewer(e)' = DeviceNewer(e)
      /\ DeviceNewer(d)' <=> (DeviceNewer(d) /\ ~reading)
    BY <1>3 DEF DeviceNewer
<1>5. \A e \in Data: /\ BeingFilled(e)' = BeingFilled(e)
                     /\ BeingWritten(e) => BeingWritten(e)'
                     /\ e # d => BeingWritten(e)' = BeingWritten(e)
    BY <1>3 DEF BeingWritten, BeingFilled
\* The device copy that is transferred is complete: nobody has written over it.
<1>6. d \notin lapsed /\ reading => dev[d] = Parts
    <2> SUFFICES ASSUME d \notin lapsed, reading PROVE dev[d] = Parts
        OBVIOUS
    <2>1. ~BeingFilled(d)
        <3> SUFFICES ASSUME NEW m \in maps, m.data = d, Writes(m.usage), m.filled PROVE FALSE
            BY DEF BeingFilled
        <3>1. m.patch = Parts
            BY DEF WholeMaps
        <3>2. m.patch \cap patch # {}
            <4>1. patch \in SUBSET Parts /\ patch # {}
                OBVIOUS
            <4> QED
                BY <3>1, <4>1
        <3> QED
            BY <3>2 DEF Map, MayMap
    <2> QED
        BY <1>2, <2>1 DEF DeviceComplete, DeviceNewer
<1>7. HostOnly'
    BY <1>3 DEF HostOnly, DeviceNewer
<1>8. HostComplete'
    <2> SUFFICES ASSUME NEW e \in Data, e \notin lapsed', dirty[e] # "node_cl" \/ e \in synched'
                 PROVE  host'[e] = Parts
        BY <1>3 DEF HostComplete
    <2>1. CASE e = d /\ reading
        BY <1>3, <1>6, <2>1
    <2>2. CASE ~(e = d /\ reading)
        BY <1>3, <2>2 DEF HostComplete
    <2> QED
        BY <2>1, <2>2
<1>9. DeviceComplete'
    <2> SUFFICES ASSUME NEW e \in allocated, e \notin lapsed', e \notin Written
                 PROVE  /\ (dirty[e] = "none" \/ e \in synched') /\ ~BeingWritten(e)' => dev[e] = Parts
                        /\ DeviceNewer(e)' /\ ~BeingFilled(e) => dev[e] = Parts
        BY <1>2, <1>3, <1>5 DEF DeviceComplete, TypeOK
    <2> QED
        BY <1>3, <1>4, <1>5, <1>6 DEF DeviceComplete, TypeOK
<1>10. WholeMaps'
    <2> SUFFICES ASSUME NEW m \in maps', m.data \notin lapsed', Writes(m.usage), DeviceNewer(m.data)'
                 PROVE  m.patch = Parts /\ (m.filled => host'[m.data] = Parts)
        BY DEF WholeMaps
    <2>1. CASE m = new
        <3>1. DeviceNewer(d) /\ ~Synchs(api, usage) /\ d \notin lapsed'
            BY <1>4, <2>1
        <3>2. ~LosesRest(d, patch, api, usage)
            BY <1>3, <3>1
        <3> QED
            BY <2>1, <3>1, <3>2 DEF LosesRest, Synchs
    <2>2. CASE m \in maps
        <3>1. m.data \in Data
            BY <2>2 DEF TypeOK, Patches
        <3> QED
            BY <1>3, <1>4, <2>2, <3>1 DEF WholeMaps
    <2> QED
        BY <1>3, <2>1, <2>2
<1>11. NoStaleRead'
    <2>1. d \notin lapsed /\ Reads(usage) => host'[d] = Parts
        <3>1. CASE reading
            BY <1>3, <1>6, <3>1
        <3>2. CASE ~reading
            <4>1. Reads(usage) => ~DeviceNewer(d)
                BY <3>2 DEF Synchs
            <4> QED
                BY <1>3, <3>2, <4>1 DEF DeviceNewer, HostComplete, HostOnly
        <3> QED
            BY <3>1, <3>2
    <2> QED
        BY <1>3, <2>1 DEF NoStaleRead
<1> QED
    BY <1>1, <1>2, <1>7, <1>8, <1>9, <1>10, <1>11

LEMMA FillKeeps == ASSUME IInv, NEW m \in maps, Fill(m) PROVE IInv'
<1> USE DEF IInv, Flags
<1>1. TypeOK'
    BY TypeStep DEF Next, Application
<1>0. ~Running
    BY DEF Apart
<1>2. Apart' /\ Kernels' /\ ReturnsFinished' /\ Written \subseteq lapsed /\ Written' = Written
    BY <1>0, StaysIdle DEF Fill, history
<1> DEFINE d == m.data
           filled == [m EXCEPT !.filled = TRUE]
<1>m. /\ d \in Data /\ m.patch \subseteq Parts /\ m \in Patches
      /\ filled \in Patches /\ filled.data = d /\ filled.patch = m.patch /\ filled.usage = m.usage /\ filled.filled
    BY DEF TypeOK, Patches
<1>3. /\ dirty' = dirty /\ synched' = synched /\ allocated' = allocated /\ lapsed' = lapsed /\ misread' = misread
      /\ maps' = (maps \ {m}) \cup {filled} /\ Writes(m.usage)
      /\ host'[d] = host[d] \cup m.patch
      /\ \A e \in Data \ {d}: host'[e] = host[e] /\ dev'[e] = dev[e]
    BY <1>m DEF Fill, sync, history, TypeOK
<1>4. \A e \in Data: DeviceNewer(e)' = DeviceNewer(e)
    BY <1>3 DEF DeviceNewer
<1>5. /\ BeingWritten(d)' /\ BeingFilled(d)'
      /\ \A e \in Data \ {d}: BeingWritten(e)' = BeingWritten(e) /\ BeingFilled(e)' = BeingFilled(e)
    BY <1>3, <1>m DEF BeingWritten, BeingFilled
<1>6. HostOnly' /\ NoStaleRead'
    BY <1>3 DEF HostOnly, NoStaleRead
<1>7. HostComplete'
    <2>1. host[d] = Parts => host'[d] = Parts
        BY <1>3, <1>m
    <2> QED
        BY <1>3, <1>m, <2>1 DEF HostComplete
<1>8. DeviceComplete'
    <2> SUFFICES ASSUME NEW e \in allocated, e \notin lapsed, e \notin Written
                 PROVE  /\ (dirty[e] = "none" \/ e \in synched) /\ ~BeingWritten(e)' => dev'[e] = Parts
                        /\ DeviceNewer(e)' /\ ~BeingFilled(e)' => dev'[e] = Parts
        BY <1>2, <1>3 DEF DeviceComplete, TypeOK
    <2> QED
        BY <1>3, <1>4, <1>5 DEF DeviceComplete, TypeOK
<1>9. WholeMaps'
    <2> SUFFICES ASSUME NEW n \in maps', n.data \notin lapsed, Writes(n.usage), DeviceNewer(n.data)
                 PROVE  n.patch = Parts /\ (n.filled => host'[n.data] = Parts)
        BY <1>1, <1>3, <1>4 DEF WholeMaps, TypeOK, Patches
    <2>1. CASE n = filled
        <3>1. m.patch = Parts
            BY <1>m, <1>3, <2>1 DEF WholeMaps
        <3>2. host[d] \subseteq Parts
            BY <1>m DEF TypeOK
        <3> QED
            BY <1>m, <1>3, <2>1, <3>1, <3>2
    <2>2. CASE n \in maps
        <3>1. n.data \in Data /\ n.patch = Parts /\ (n.filled => host[n.data] = Parts)
            BY <2>2 DEF WholeMaps, TypeOK, Patches
        <3> QED
            BY <1>m, <1>3, <3>1
    <2> QED
        BY <1>3, <2>1, <2>2
<1> QED
    BY <1>1, <1>2, <1>6, <1>7, <1>8, <1>9

LEMMA UnmapKeeps == ASSUME IInv, NEW m \in maps, Unmap(m) PROVE IInv'
<1> USE DEF IInv, Flags
<1>1. TypeOK'
    BY TypeStep DEF Next, Application
<1>0. ~Running
    BY DEF Apart
<1>2. Apart' /\ Kernels' /\ ReturnsFinished' /\ Written \subseteq lapsed /\ Written' = Written
    BY <1>0, StaysIdle DEF Unmap, history
<1> DEFINE d == m.data
<1>3. /\ host' = host /\ dev' = dev /\ allocated' = allocated /\ lapsed' = lapsed /\ misread' = misread
      /\ maps' = maps \ {m} /\ d \in Data
      /\ \A e \in Data \ {d}: dirty'[e] = dirty[e] /\ (e \in synched' <=> e \in synched)
      /\ Writes(m.usage) => m.filled /\ dirty'[d] = "commit" /\ d \notin synched'
      /\ ~Writes(m.usage) => dirty' = dirty /\ synched' = synched
    BY DEF Unmap, Marked, copies, history, TypeOK, Patches
<1>4. /\ \A e \in Data \ {d}: DeviceNewer(e)' = DeviceNewer(e)
      /\ Writes(m.usage) => ~DeviceNewer(d)'
      /\ ~Writes(m.usage) => DeviceNewer(d)' = DeviceNewer(d)
    BY <1>3 DEF DeviceNewer
<1>5. /\ \A e \in Data \ {d}: BeingWritten(e)' = BeingWritten(e) /\ BeingFilled(e)' = BeingFilled(e)
      /\ ~Writes(m.usage) => BeingWritten(d)' = BeingWritten(d) /\ BeingFilled(d)' = BeingFilled(d)
    BY <1>3 DEF BeingWritten, BeingFilled
<1>6. HostOnly' /\ NoStaleRead'
    BY <1>3 DEF HostOnly, NoStaleRead
<1>7. HostComplete'
    <2> SUFFICES ASSUME NEW e \in Data, e \notin lapsed, dirty'[e] # "node_cl" \/ e \in synched'
                 PROVE  host[e] = Parts
        BY <1>3 DEF HostComplete
    <2>1. CASE e = d /\ Writes(m.usage)
        <3>1. DeviceNewer(d) => host[d] = Parts
            BY <1>3, <2>1 DEF WholeMaps
        <3>2. ~DeviceNewer(d) => host[d] = Parts
            BY <1>3, <2>1 DEF HostComplete, DeviceNewer, HostOnly
        <3> QED
            BY <2>1, <3>1, <3>2
    <2>2. CASE ~(e = d /\ Writes(m.usage))
        BY <1>3, <2>2 DEF HostComplete
    <2> QED
        BY <2>1, <2>2
<1>8. DeviceComplete'
    <2> SUFFICES ASSUME NEW e \in allocated, e \notin lapsed, e \notin Written
                 PROVE  /\ (dirty'[e] = "none" \/ e \in synched') /\ ~BeingWritten(e)' => dev[e] = Parts
                        /\ DeviceNewer(e)' /\ ~BeingFilled(e)' => dev[e] = Parts
        BY <1>2, <1>3 DEF DeviceComplete, TypeOK
    <2> QED
        BY <1>3, <1>4, <1>5 DEF DeviceComplete, TypeOK
<1>9. WholeMaps'
    <2> SUFFICES ASSUME NEW n \in maps, n.data \notin lapsed, Writes(n.usage), DeviceNewer(n.data)'
                 PROVE  n.patch = Parts /\ (n.filled => host[n.data] = Parts)
        BY <1>3 DEF WholeMaps
    <2>1. n.data \in Data
        BY DEF TypeOK, Patches
    <2> QED
        BY <1>3, <1>4, <2>1 DEF WholeMaps
<1> QED
    BY <1>1, <1>2, <1>6, <1>7, <1>8, <1>9

LEMMA BeginKeeps == ASSUME IInv, NEW g \in Graphs, Begin(g) PROVE IInv'
<1> USE DEF IInv, Flags
<1>1. TypeOK'
    BY TypeStep DEF Next
<1>2. /\ UNCHANGED <<copies, allocated, sync, maps, queue, history>>
      /\ graph' = g /\ g # <<>> /\ maps = {} /\ OnDevice(g) \subseteq allocated
    BY DEF Begin
<1>3. Queued \subseteq lapsed /\ Written \subseteq Queued /\ Queued' = Queued /\ Written' = Written
    BY <1>2 DEF Begin, ReturnsFinished, Queued, Written, Nodes
<1>4. Running' /\ Apart'
    BY <1>2 DEF Running, Apart
<1>5. Flags'
    BY <1>2, <1>3 DEF HostOnly, HostComplete, DeviceComplete, WholeMaps, DeviceNewer, BeingWritten, BeingFilled,
                      copies, sync, history
<1>6. \A i \in DOMAIN queue: queue[i].reads \cup queue[i].writes \subseteq lapsed
    BY <1>3 DEF Queued, Nodes
<1>7. Kernels'
    BY <1>2, <1>3, <1>6 DEF Kernels, QueueIsOwn, LeftOver, ReadsAreFresh, WritersFirst, WrittenOnDevice, WaitIsDue,
                            history
<1> QED
    BY <1>1, <1>2, <1>3, <1>4, <1>5, <1>7 DEF ReturnsFinished, NoStaleRead, history

\* What is in the queue was launched before the node at hand, which writes
\* nothing that it reads or writes.
LEMMA NodeIsLater ==
    ASSUME IInv, NEW D, IsNode(D)
    PROVE  /\ Node.reads \cap Node.writes = {}
           /\ \A i \in DOMAIN queue: /\ queue[i].reads \cap Node.writes \subseteq lapsed
                                     /\ queue[i].writes \cap Node.writes \subseteq lapsed
<1>1. graph \in Graphs /\ graph \in Seq(NodeType) /\ at \in DOMAIN graph
    BY NodeTyped DEF IInv
<1>2. \A j \in DOMAIN graph: graph[j].level \in Nat
    <2> SUFFICES ASSUME NEW j \in DOMAIN graph PROVE graph[j].level \in Nat
        OBVIOUS
    <2>1. graph[j] \in NodeType
        BY <1>1
    <2> QED
        BY <2>1 DEF NodeType
<1>3. \A i, j \in DOMAIN graph: graph[i].writes \cap graph[j].reads # {} => graph[i].level < graph[j].level
    BY <1>1
<1>4. \A i, j \in DOMAIN graph: i < j => graph[i].level <= graph[j].level /\ graph[i].writes \cap graph[j].writes = {}
    BY <1>1
<1>5. Node.reads \cap Node.writes = {}
    BY <1>1, <1>2, <1>3 DEF Node
<1>6. ASSUME NEW i \in DOMAIN queue
      PROVE  /\ queue[i].reads \cap Node.writes \subseteq lapsed
             /\ queue[i].writes \cap Node.writes \subseteq lapsed
    <2>1. CASE LeftOver(queue[i])
        BY <2>1 DEF LeftOver
    <2>2. CASE Launched(queue[i])
        <3>1. PICK j \in 1..at - 1: queue[i] = graph[j]
            BY <2>2 DEF Launched
        <3>2. j \in DOMAIN graph /\ j < at
            BY <1>1
        <3>3. graph[j].level <= graph[at].level /\ graph[j].writes \cap graph[at].writes = {}
            BY <1>1, <1>4, <3>2
        <3>4. ~(graph[at].level < graph[j].level)
            BY <1>1, <1>2, <3>2, <3>3
        <3>5. graph[at].writes \cap graph[j].reads = {}
            BY <1>1, <1>3, <3>2, <3>4
        <3> QED
            BY <3>1, <3>3, <3>5 DEF Node
    <2> QED
        BY <2>1, <2>2 DEF IInv, Kernels, QueueIsOwn
<1> QED
    BY <1>5, <1>6

\* The kernels of an execution that has returned are left over.
LEMMA ReturnIdles ==
    ASSUME Return, Queued' \subseteq lapsed'
    PROVE  Apart' /\ Kernels' /\ ReturnsFinished'
<1>1. ~Running'
    BY DEF Return, Running
<1>2. (~Running /\ Queued \subseteq lapsed => Apart /\ Kernels /\ ReturnsFinished)'
    BY IdleKernels, PTL
<1> QED
    BY <1>1, <1>2

LEMMA EndKeeps == ASSUME IInv, End PROVE IInv'
<1> USE DEF IInv, Flags
<1>1. TypeOK'
    BY TypeStep DEF Next
<1>2. UNCHANGED <<copies, allocated, sync, maps, queue, history>> /\ Return
    BY DEF End
<1>3. Queued \subseteq lapsed
    <2>1. CASE launchedLevel > 0 \/ access
        BY <2>1 DEF End, Queued, Nodes
    <2>2. CASE ~(launchedLevel > 0 \/ access)
        BY <2>2 DEF TypeOK, Kernels, WaitIsDue
    <2> QED
        BY <2>1, <2>2
<1>4. Queued' = Queued /\ Written' = Written
    BY <1>2 DEF Queued, Written, Nodes
<1>5. Apart' /\ Kernels' /\ ReturnsFinished'
    BY <1>2, <1>3, <1>4, ReturnIdles DEF history
<1>6. Flags' /\ NoStaleRead'
    BY <1>2, <1>4 DEF HostOnly, HostComplete, DeviceComplete, WholeMaps, DeviceNewer, BeingWritten, BeingFilled,
                      copies, sync, history, NoStaleRead
<1> QED
    BY <1>1, <1>5, <1>6

LEMMA WaitAbandonedKeeps == ASSUME IInv, WaitAbandoned PROVE IInv'
<1> USE DEF IInv, Flags
<1>1. TypeOK'
    BY TypeStep DEF Next
<1>2. UNCHANGED <<copies, allocated, sync, maps, queue, misread>> /\ Return /\ lapsed' = lapsed \cup Queued
    BY DEF WaitAbandoned
<1>4. Queued' = Queued /\ Written' = Written
    BY <1>2 DEF Queued, Written, Nodes
<1>5. Apart' /\ Kernels' /\ ReturnsFinished'
    BY <1>2, <1>4, ReturnIdles
<1>6. Flags' /\ NoStaleRead'
    BY <1>2, <1>4 DEF HostOnly, HostComplete, DeviceComplete, WholeMaps, DeviceNewer, BeingWritten, BeingFilled,
                      copies, sync, NoStaleRead
<1> QED
    BY <1>1, <1>5, <1>6

LEMMA KernelCompletesKeeps == ASSUME IInv, KernelCompletes PROVE IInv'
<1> USE DEF IInv, Flags
<1>1. TypeOK'
    BY TypeStep DEF Next
<1> DEFINE k == Head(queue)
<1>2. /\ UNCHANGED <<host, allocated, sync, maps, execution, lapsed>> /\ queue' = Tail(queue)
      /\ misread' = misread \cup {d \in k.reads: dev[d] # Parts}
      /\ dev' = [d \in Data |-> IF d \in k.writes THEN Parts ELSE dev[d]]
    BY DEF KernelCompletes
<1>3. /\ queue \in Seq(NodeType) /\ queue # <<>> /\ Len(queue) \in Nat /\ 1 \in DOMAIN queue /\ k = queue[1]
      /\ \A i \in DOMAIN queue': i + 1 \in DOMAIN queue /\ queue'[i] = queue[i + 1] /\ i \in 1..Len(queue) - 1
      /\ \A i \in DOMAIN queue: i # 1 => i - 1 \in DOMAIN queue' /\ queue[i] = queue'[i - 1]
      /\ k.reads \subseteq Data /\ k.writes \subseteq Data
    <2>1. queue \in Seq(NodeType) /\ queue # <<>>
        BY KernelsTyped DEF TypeOK, KernelCompletes
    <2>2. k \in NodeType /\ k = queue[1]
        BY <2>1
    <2> QED
        BY <1>2, <2>1, <2>2 DEF NodeType
<1>4. Written' \subseteq Written /\ Written \subseteq Written' \cup k.writes /\ Queued' \subseteq Queued
      /\ k.reads \subseteq Queued
    <2>1. Nodes(queue') \subseteq Nodes(queue)
        BY <1>3 DEF Nodes
    <2>2. \A n \in Nodes(queue): n \in Nodes(queue') \/ n = k
        BY <1>3 DEF Nodes
    <2>3. k \in Nodes(queue)
        BY <1>3 DEF Nodes
    <2> QED
        BY <2>1, <2>2, <2>3 DEF Written, Queued
<1>5. Running' = Running /\ Apart'
    BY <1>2 DEF Running, Apart, execution, OnDevice, Nodes
<1>6. HostOnly' /\ HostComplete' /\ WholeMaps'
    BY <1>2 DEF HostOnly, HostComplete, WholeMaps, DeviceNewer, sync
<1>7. DeviceComplete'
    <2> SUFFICES ASSUME NEW d \in allocated, d \notin lapsed, d \notin Written'
                 PROVE  /\ (dirty[d] = "none" \/ d \in synched) /\ ~BeingWritten(d) => dev'[d] = Parts
                        /\ DeviceNewer(d) /\ ~BeingFilled(d) => dev'[d] = Parts
        BY <1>2 DEF DeviceComplete, DeviceNewer, BeingWritten, BeingFilled, sync
    <2> QED
        BY <1>2, <1>4 DEF DeviceComplete, TypeOK
\* The kernel reads what is complete on the device.
<1>8. \A d \in k.reads: dev[d] = Parts \/ d \in lapsed
    <2> SUFFICES ASSUME NEW d \in k.reads, d \notin lapsed PROVE dev[d] = Parts
        OBVIOUS
    <2>1. Running
        BY <1>4 DEF ReturnsFinished
    <2>2. ~BeingWritten(d) /\ ~BeingFilled(d)
        BY <2>1 DEF Apart, BeingWritten, BeingFilled
    <2>3. d \in allocated /\ Fresh(d)
        BY <1>3 DEF Kernels, ReadsAreFresh
    <2>4. \A j \in DOMAIN queue: d \notin queue[j].writes
        <3>1. \A j \in DOMAIN queue: 1 <= j
            BY <1>3
        <3> QED
            BY <1>3, <3>1 DEF Kernels, WritersFirst
    <2>5. d \notin Written
        BY <2>4 DEF Written, Nodes
    <2> QED
        BY <2>2, <2>3, <2>5 DEF DeviceComplete, Fresh, DeviceNewer
<1>9. NoStaleRead'
    BY <1>2, <1>8 DEF NoStaleRead
<1>10. Kernels'
    <2>1. QueueIsOwn'
        <3> SUFFICES ASSUME NEW i \in DOMAIN queue' PROVE (LeftOver(queue[i]) \/ Launched(queue[i]))'
            BY DEF QueueIsOwn
        <3>1. i + 1 \in DOMAIN queue /\ queue'[i] = queue[i + 1]
            BY <1>3
        <3>2. LeftOver(queue[i + 1]) \/ Launched(queue[i + 1])
            BY <3>1 DEF Kernels, QueueIsOwn
        <3> QED
            BY <1>2, <1>5, <3>1, <3>2 DEF LeftOver, Launched, execution
    <2>2. ReadsAreFresh'
        BY <1>2, <1>3 DEF Kernels, ReadsAreFresh, Fresh, sync
    <2>3. WritersFirst'
        <3> SUFFICES ASSUME NEW i \in DOMAIN queue', NEW j \in DOMAIN queue', i <= j
                     PROVE  queue'[i].reads \cap queue'[j].writes \subseteq lapsed
            BY <1>2 DEF WritersFirst
        <3>1. i + 1 <= j + 1
            BY <1>3
        <3> QED
            BY <1>3, <3>1 DEF Kernels, WritersFirst
    <2>4. WrittenOnDevice'
        BY <1>2, <1>4 DEF Kernels, WrittenOnDevice, DeviceNewer, sync
    <2>5. WaitIsDue'
        BY <1>2, <1>4 DEF Kernels, WaitIsDue, execution
    <2> QED
        BY <2>1, <2>2, <2>3, <2>4, <2>5 DEF Kernels
<1>11. ReturnsFinished'
    BY <1>2, <1>4, <1>5 DEF ReturnsFinished
<1> QED
    BY <1>1, <1>5, <1>6, <1>7, <1>9, <1>10, <1>11

LEMMA LaunchKeeps == ASSUME IInv, NEW result \in Results, Launch(result) PROVE IInv'
<1> USE DEF IInv, Flags
<1>1. TypeOK'
    BY TypeStep DEF Next, Results
<1> DEFINE n == Node
           stale == {d \in n.reads: HostNewer(d)}
           written == IF result = "failed" THEN {} ELSE n.writes
<1>0. IsNode({"gpu", "access"}) /\ Running
    BY DEF Launch, IsNode
<1>n. /\ graph \in Graphs /\ graph \in Seq(NodeType) /\ at \in DOMAIN graph
      /\ n.device \in {"gpu", "access"} /\ n.level \in Nat \ {0}
      /\ n.reads \subseteq Data /\ n.writes \subseteq Data /\ n \in Nodes(graph)
    BY <1>0, NodeTyped DEF NodeType, IsNode
<1>b. maps = {} /\ n.reads \subseteq allocated /\ n.writes \subseteq allocated
    <2>1. n.reads \cup n.writes \subseteq OnDevice(graph)
        BY <1>n DEF OnDevice
    <2> QED
        BY <1>0, <2>1 DEF Apart
<1>2. /\ allocated' = allocated /\ maps' = maps /\ misread' = misread /\ lapsed \subseteq lapsed'
      /\ \A d \in Data: dirty'[d] = (IF d \in written THEN "node_cl" ELSE dirty[d])
      /\ \A d \in Data: host'[d] = (IF d \in written THEN {} ELSE host[d])
      /\ \A d \in Data: dev'[d] = (IF d \in written THEN {} ELSE IF d \in stale THEN host[d] ELSE dev[d])
      /\ synched' = (synched \cup stale) \ written
      /\ queue' = (IF result = "failed" THEN queue ELSE Append(queue, n))
    BY <1>n DEF Launch, Marked, ToDevice
<1>3. /\ \A d \in written: DeviceNewer(d)'
      /\ \A d \in Data \ written: DeviceNewer(d)' = DeviceNewer(d)
    BY <1>2, <1>b, <1>n DEF DeviceNewer, HostNewer
<1>4. HostOnly'
    BY <1>2, <1>b DEF HostOnly
<1>5. HostComplete' /\ WholeMaps' /\ NoStaleRead'
    <2>1. HostComplete'
        BY <1>2, <1>b DEF HostComplete, HostNewer
    <2> QED
        BY <1>2, <1>b, <2>1 DEF WholeMaps, NoStaleRead
<1>q. queue \in Seq(NodeType) /\ n \in NodeType
    BY <1>0, NodeTyped, KernelsTyped DEF TypeOK
<1>6. Written' = Written \cup written
    <2>1. CASE result = "failed"
        BY <1>2, <2>1 DEF Written, Nodes
    <2>2. CASE result # "failed"
        <3>1. Nodes(queue') = Nodes(queue) \cup {n}
            <4>1. queue' = Append(queue, n)
                BY <1>2, <2>2
            <4> QED
                BY <1>q, <4>1 DEF Nodes
        <3> QED
            BY <2>2, <3>1 DEF Written
    <2> QED
        BY <2>1, <2>2
<1>7. DeviceComplete'
    <2> SUFFICES ASSUME NEW d \in allocated, d \notin lapsed', d \notin Written'
                 PROVE  /\ (dirty'[d] = "none" \/ d \in synched') /\ ~BeingWritten(d)' => dev'[d] = Parts
                        /\ DeviceNewer(d)' /\ ~BeingFilled(d)' => dev'[d] = Parts
        BY <1>2 DEF DeviceComplete
    <2>1. d \in Data /\ d \notin written /\ d \notin Written /\ d \notin lapsed
        BY <1>2, <1>6 DEF TypeOK
    <2>2. BeingWritten(d)' = BeingWritten(d) /\ BeingFilled(d)' = BeingFilled(d)
        BY <1>2 DEF BeingWritten, BeingFilled
    <2>3. CASE d \in stale
        BY <1>2, <2>1, <2>3 DEF HostComplete, HostNewer
    <2>4. CASE d \notin stale
        BY <1>2, <1>3, <2>1, <2>2, <2>4 DEF DeviceComplete
    <2> QED
        BY <2>3, <2>4
<1>8. CASE result # "done"
    <2>1. Return /\ Queued' \subseteq lapsed'
        BY <1>8 DEF Launch
    <2> QED
        BY <1>1, <1>4, <1>5, <1>7, <2>1, ReturnIdles
<1>9. CASE result = "done"
    <2>1. /\ launchedLevel' = IF n.device = "gpu" /\ launchedLevel = 0 THEN n.level ELSE launchedLevel
          /\ access' = (access \/ n.device = "access")
          /\ at' = at + 1 /\ graph' = graph /\ lapsed' = lapsed
          /\ written = n.writes /\ queue' = Append(queue, n)
        BY <1>2, <1>9 DEF Launch
    <2>2. Running' /\ Apart' /\ ReturnsFinished'
        BY <1>0, <1>2, <2>1 DEF Running, Apart, OnDevice, Nodes, ReturnsFinished
    <2>3. /\ \A i \in DOMAIN queue: queue'[i] = queue[i]
          /\ Len(queue) + 1 \in DOMAIN queue' /\ queue'[Len(queue) + 1] = n
          /\ \A i \in DOMAIN queue': i \in DOMAIN queue \/ i = Len(queue) + 1
          /\ DOMAIN queue = 1..Len(queue) /\ Len(queue) \in Nat
        BY <1>q, <2>1
    <2>4. QueueIsOwn'
        <3> SUFFICES ASSUME NEW i \in DOMAIN queue' PROVE (LeftOver(queue[i]) \/ Launched(queue[i]))'
            BY DEF QueueIsOwn
        <3>1. CASE i \in DOMAIN queue
            <4>1. LeftOver(queue[i]) \/ Launched(queue[i])
                BY <3>1 DEF Kernels, QueueIsOwn
            <4>2. CASE LeftOver(queue[i])
                BY <2>1, <2>3, <3>1, <4>2 DEF LeftOver
            <4>3. CASE Launched(queue[i])
                <5>1. PICK j \in 1..at - 1: queue[i] = graph[j]
                    BY <4>3 DEF Launched
                <5>2. j \in 1..at' - 1
                    BY <1>n, <2>1
                <5> QED
                    BY <2>1, <2>2, <2>3, <3>1, <5>1, <5>2 DEF Launched
            <4> QED
                BY <4>1, <4>2, <4>3
        <3>2. CASE i = Len(queue) + 1
            <4>1. at \in 1..at' - 1
                BY <1>n, <2>1
            <4> QED
                BY <2>1, <2>2, <2>3, <3>2, <4>1 DEF Launched, Node
        <3> QED
            BY <2>3, <3>1, <3>2
    <2>5. ReadsAreFresh'
        <3> SUFFICES ASSUME NEW i \in DOMAIN queue', NEW d \in queue'[i].reads, d \notin lapsed
                     PROVE  d \in allocated /\ Fresh(d)'
            BY <1>2, <2>1 DEF ReadsAreFresh
        <3>1. d \in Data
            <4>1. queue' \in Seq(NodeType)
                BY <1>q, <2>1
            <4>2. queue'[i] \in NodeType
                BY <4>1
            <4> QED
                BY <4>2 DEF NodeType
        <3>2. CASE i \in DOMAIN queue
            <4>1. d \in allocated /\ Fresh(d)
                BY <2>1, <2>3, <3>2 DEF Kernels, ReadsAreFresh
            <4> QED
                BY <1>2, <3>1, <4>1 DEF Fresh
        <3>3. CASE i = Len(queue) + 1
            <4>1. d \in n.reads /\ d \in allocated
                BY <1>b, <2>3, <3>3
            <4>2. HostNewer(d) \/ dirty[d] \in {"none", "node_cl"} \/ d \in synched
                BY <3>1, <4>1 DEF HostNewer, TypeOK
            <4> QED
                BY <1>2, <3>1, <4>1, <4>2 DEF Fresh
        <3> QED
            BY <2>3, <3>2, <3>3
    <2>6. WritersFirst'
        <3> SUFFICES ASSUME NEW i \in DOMAIN queue', NEW j \in DOMAIN queue', i <= j
                     PROVE  queue'[i].reads \cap queue'[j].writes \subseteq lapsed
            BY <2>1 DEF WritersFirst
        <3>1. CASE j \in DOMAIN queue
            <4>1. i \in DOMAIN queue
                BY <2>3, <3>1
            <4> QED
                BY <2>3, <3>1, <4>1 DEF Kernels, WritersFirst
        <3>2. CASE j = Len(queue) + 1 /\ i \in DOMAIN queue
            BY <1>0, <2>3, <3>2, NodeIsLater
        <3>3. CASE j = Len(queue) + 1 /\ i = j
            BY <1>0, <2>3, <3>3, NodeIsLater
        <3> QED
            BY <2>3, <3>1, <3>2, <3>3
    <2>7. WrittenOnDevice'
        <3> SUFFICES ASSUME NEW d \in Written', d \notin lapsed PROVE DeviceNewer(d)'
            BY <2>1 DEF WrittenOnDevice
        <3>1. d \in Data
            BY <1>6, <1>n, <2>1, KernelsTyped DEF TypeOK
        <3> QED
            BY <1>3, <1>6, <3>1 DEF Kernels, WrittenOnDevice
    <2>8. WaitIsDue'
        <3>1. launchedLevel' # 0 \/ access'
            BY <1>n, <2>1 DEF TypeOK
        <3> QED
            BY <3>1 DEF WaitIsDue
    <2> QED
        BY <1>1, <1>4, <1>5, <1>7, <2>2, <2>4, <2>5, <2>6, <2>7, <2>8 DEF Kernels
<1> QED
    BY <1>8, <1>9

LEMMA ComputeKeeps == ASSUME IInv, NEW result \in Results, Compute(result) PROVE IInv'
<1> USE DEF IInv, Flags
<1>1. TypeOK'
    BY TypeStep DEF Next, Results
<1> DEFINE n == Node
           stale == {d \in n.reads: DeviceNewer(d)}
           read == [d \in Data |-> IF d \in stale THEN dev[d] ELSE host[d]]
           marked == IF result = "failed" THEN {} ELSE n.writes \cap allocated
<1>0. IsNode({"cpu"}) /\ Running /\ Ready(stale)
    BY DEF Compute, IsNode
<1>n. /\ graph \in Graphs /\ graph \in Seq(NodeType) /\ at \in DOMAIN graph
      /\ n.reads \subseteq Data /\ n.writes \subseteq Data /\ n \in Nodes(graph) /\ n.level \in Nat
    BY <1>0, NodeTyped DEF NodeType
<1>2. /\ allocated' = allocated /\ maps' = maps /\ maps = {} /\ lapsed \subseteq lapsed' /\ queue' = queue
      /\ \A d \in Data: host'[d] = (IF d \notin n.writes THEN read[d] ELSE IF result = "failed" THEN {} ELSE Parts)
      /\ \A d \in Data: dev'[d] = (IF d \in n.writes THEN {} ELSE dev[d])
      /\ \A d \in Data: dirty'[d] = (IF d \in marked THEN "node" ELSE dirty[d])
      /\ synched' = (synched \cup stale) \ marked
      /\ misread' = misread \cup {d \in n.reads: read[d] # Parts}
      /\ result = "failed" => n.writes \subseteq lapsed'
    BY <1>0 DEF Compute, Marked, Apart, Results
<1>3. Written' = Written /\ Queued' = Queued
    BY <1>2 DEF Written, Queued, Nodes
\* What is transferred is complete on the device, for nothing is in the queue.
<1>4. \A d \in Data \ lapsed: d \in stale => dev[d] = Parts
    <2> SUFFICES ASSUME NEW d \in stale, d \notin lapsed PROVE dev[d] = Parts
        OBVIOUS
    <2>1. queue = <<>>
        BY <1>0 DEF Ready
    <2>2. d \notin Written
        BY <2>1 DEF Written, Nodes
    <2>3. ~BeingFilled(d)
        BY <1>2 DEF BeingFilled
    <2> QED
        BY <2>2, <2>3 DEF DeviceComplete, DeviceNewer
<1>5. \A d \in Data \ lapsed: d \in n.reads => read[d] = Parts
    <2> SUFFICES ASSUME NEW d \in n.reads, d \notin lapsed PROVE read[d] = Parts
        BY <1>n
    <2>1. CASE d \in stale
        BY <1>4, <1>n, <2>1
    <2>2. CASE d \notin stale
        <3>1. dirty[d] # "node_cl" \/ d \in synched
            BY <1>n, <2>2 DEF DeviceNewer, HostOnly
        <3> QED
            BY <1>n, <2>2, <3>1 DEF HostComplete
    <2> QED
        BY <2>1, <2>2
<1>6. NoStaleRead'
    BY <1>2, <1>5, <1>n DEF NoStaleRead
<1>7. HostOnly'
    BY <1>2, <1>n DEF HostOnly, DeviceNewer
<1>8. HostComplete'
    <2> SUFFICES ASSUME NEW d \in Data, d \notin lapsed', dirty'[d] # "node_cl" \/ d \in synched'
                 PROVE  host'[d] = Parts
        BY DEF HostComplete
    <2>1. CASE d \in n.writes
        BY <1>2, <2>1
    <2>2. CASE d \notin n.writes
        <3>1. d \notin lapsed /\ host'[d] = read[d]
            BY <1>2, <2>2
        <3>2. CASE d \in stale
            BY <1>5, <3>1, <3>2
        <3>3. CASE d \notin stale
            <4>1. dirty[d] # "node_cl" \/ d \in synched
                BY <1>2, <2>2, <3>3
            <4> QED
                BY <3>1, <3>3, <4>1 DEF HostComplete
        <3> QED
            BY <3>2, <3>3
    <2> QED
        BY <2>1, <2>2
<1>9. WholeMaps'
    BY <1>2 DEF WholeMaps
<1>10. DeviceComplete'
    <2> SUFFICES ASSUME NEW d \in allocated, d \notin lapsed', d \notin Written
                 PROVE  /\ (dirty'[d] = "none" \/ d \in synched') /\ ~BeingWritten(d)' => dev'[d] = Parts
                        /\ DeviceNewer(d)' /\ ~BeingFilled(d)' => dev'[d] = Parts
        BY <1>2, <1>3 DEF DeviceComplete
    <2>1. d \in Data /\ d \notin lapsed
        BY <1>2 DEF TypeOK
    <2>2. CASE d \in n.writes
        <3>1. dirty'[d] = "node" /\ d \notin synched'
            BY <1>2, <2>1, <2>2
        <3> QED
            BY <3>1 DEF DeviceNewer
    <2>3. CASE d \notin n.writes
        <3>1. dev'[d] = dev[d] /\ dirty'[d] = dirty[d]
            BY <1>2, <2>1, <2>3
        <3>2. CASE d \in stale
            BY <1>4, <2>1, <3>1, <3>2
        <3>3. CASE d \notin stale
            <4>1. (d \in synched' <=> d \in synched) /\ DeviceNewer(d)' = DeviceNewer(d)
                BY <1>2, <2>3, <3>1, <3>3 DEF DeviceNewer
            <4>2. ~BeingWritten(d) /\ ~BeingFilled(d)
                BY <1>2 DEF BeingWritten, BeingFilled
            <4> QED
                BY <2>1, <3>1, <4>1, <4>2 DEF DeviceComplete
        <3> QED
            BY <3>2, <3>3
    <2> QED
        BY <2>2, <2>3
<1>11. CASE result # "done"
    <2>1. Return /\ Queued \subseteq lapsed'
        BY <1>11 DEF Compute, Results
    <2> QED
        BY <1>1, <1>3, <1>6, <1>7, <1>8, <1>9, <1>10, <2>1, ReturnIdles
<1>12. CASE result = "done"
    <2>1. /\ launchedLevel' = (IF Waits(n.level) THEN 0 ELSE launchedLevel)
          /\ access' = FALSE
          /\ at' = at + 1 /\ graph' = graph /\ lapsed' = lapsed
        BY <1>12 DEF Compute
    <2>2. Running' /\ Apart' /\ ReturnsFinished'
        BY <1>0, <1>2, <2>1 DEF Running, Apart, OnDevice, Nodes, ReturnsFinished
    <2>3. QueueIsOwn'
        <3> SUFFICES ASSUME NEW i \in DOMAIN queue PROVE (LeftOver(queue[i]) \/ Launched(queue[i]))'
            BY <1>2 DEF QueueIsOwn
        <3>1. LeftOver(queue[i]) \/ Launched(queue[i])
            BY DEF Kernels, QueueIsOwn
        <3>2. CASE LeftOver(queue[i])
            BY <1>2, <2>1, <3>2 DEF LeftOver
        <3>3. CASE Launched(queue[i])
            <4>1. PICK j \in 1..at - 1: queue[i] = graph[j]
                BY <3>3 DEF Launched
            <4>2. j \in 1..at' - 1
                BY <1>n, <2>1
            <4> QED
                BY <1>2, <2>1, <2>2, <4>1, <4>2 DEF Launched
        <3> QED
            BY <3>1, <3>2, <3>3
    <2>t. \A i \in DOMAIN queue: queue[i] \in NodeType
        BY KernelsTyped DEF TypeOK
    <2>4. ReadsAreFresh'
        <3> SUFFICES ASSUME NEW i \in DOMAIN queue, NEW d \in queue[i].reads, d \notin lapsed
                     PROVE  d \in allocated /\ Fresh(d)'
            BY <1>2, <2>1 DEF ReadsAreFresh
        <3>1. d \in allocated /\ Fresh(d)
            BY DEF Kernels, ReadsAreFresh
        <3>2. d \notin n.writes
            BY <1>0, NodeIsLater
        <3>3. d \in Data
            BY <3>1 DEF TypeOK
        <3> QED
            BY <1>2, <3>1, <3>2, <3>3 DEF Fresh
    <2>5. WritersFirst'
        BY <1>2, <2>1 DEF Kernels, WritersFirst
    <2>6. WrittenOnDevice'
        <3> SUFFICES ASSUME NEW d \in Written, d \notin lapsed PROVE DeviceNewer(d)'
            BY <1>3, <2>1 DEF WrittenOnDevice
        <3>1. d \in Data /\ DeviceNewer(d)
            BY KernelsTyped DEF Kernels, WrittenOnDevice, TypeOK
        <3>2. PICK i \in DOMAIN queue: d \in queue[i].writes
            BY DEF Written, Nodes
        <3>3. d \notin n.writes
            BY <1>0, <3>2, NodeIsLater
        <3>4. stale = {}
            BY <1>0, <3>2 DEF Ready
        <3> QED
            BY <1>2, <3>1, <3>3, <3>4 DEF DeviceNewer
    <2>7. WaitIsDue'
        <3> SUFFICES ASSUME launchedLevel' = 0 PROVE Queued \subseteq lapsed
            BY <1>3, <2>1 DEF WaitIsDue
        <3>1. CASE queue = <<>>
            BY <3>1 DEF Queued, Nodes
        <3>2. CASE queue # <<>>
            BY <1>0, <2>1, <3>2 DEF Ready, Kernels, WaitIsDue
        <3> QED
            BY <3>1, <3>2
    <2> QED
        BY <1>1, <1>6, <1>7, <1>8, <1>9, <1>10, <2>2, <2>3, <2>4, <2>5, <2>6, <2>7 DEF Kernels
<1> QED
    BY <1>11, <1>12

LEMMA InvStep == IInv /\ [Next]_vars => IInv'
<1> SUFFICES ASSUME IInv, [Next]_vars PROVE IInv'
    OBVIOUS
<1>1. ASSUME Application PROVE IInv'
    <2>1. CASE \E g \in Graphs: Verify(g)
        BY <2>1, VerifyKeeps
    <2>2. CASE \E d \in Mapped: VerifyRegion(d) \/ SwapHandle(d) \/ CopyToDevice(d)
        BY <2>2, VerifyRegionKeeps, SwapHandleKeeps, CopyToDeviceKeeps
    <2>3. CASE \E d \in Mapped, patch \in (SUBSET Parts) \ {{}}, api \in {"map", "access"},
                  usage \in {"read", "write", "both"}: Map(d, patch, api, usage)
        <3>1. PICK d \in Mapped, patch \in (SUBSET Parts) \ {{}}, api \in {"map", "access"},
                   usage \in {"read", "write", "both"}: Map(d, patch, api, usage)
            BY <2>3
        <3> QED
            BY <3>1, MapKeeps
    <2>4. CASE \E m \in maps: Fill(m) \/ Unmap(m)
        BY <2>4, FillKeeps, UnmapKeeps
    <2> QED
        BY <1>1, <2>1, <2>2, <2>3, <2>4 DEF Application
<1>2. ASSUME NEW g \in Graphs, Begin(g) PROVE IInv'
    BY <1>2, BeginKeeps
<1>3. ASSUME NEW result \in Results, Launch(result) \/ Compute(result) PROVE IInv'
    BY <1>3, LaunchKeeps, ComputeKeeps
<1>4. CASE WaitAbandoned \/ End \/ KernelCompletes
    BY <1>4, WaitAbandonedKeeps, EndKeeps, KernelCompletesKeeps
<1>5. CASE UNCHANGED vars
    <2>1. TypeOK'
        BY TypeStep DEF IInv
    <2>2. Written' = Written /\ Queued' = Queued /\ Running' = Running /\ OnDevice(graph)' = OnDevice(graph)
        BY <1>5 DEF vars, execution, Written, Queued, Running, OnDevice, Nodes
    <2>3. Flags' /\ NoStaleRead' /\ Apart' /\ ReturnsFinished'
        BY <1>5, <2>2 DEF IInv, vars, copies, sync, execution, history, Flags, HostOnly, HostComplete, DeviceComplete,
           WholeMaps, DeviceNewer, BeingWritten, BeingFilled, NoStaleRead, Apart, ReturnsFinished
    <2>4. Kernels'
        BY <1>5, <2>2 DEF IInv, vars, sync, execution, history, Kernels, QueueIsOwn, LeftOver, Launched, Running,
           ReadsAreFresh, Fresh, WritersFirst, WrittenOnDevice, DeviceNewer, WaitIsDue
    <2> QED
        BY <2>1, <2>3, <2>4 DEF IInv
<1> QED
    BY <1>1, <1>2, <1>3, <1>4, <1>5 DEF Next, Results

THEOREM InvCorrect == Spec => []IInv
BY InvInit, InvStep, PTL DEF Spec

\* No node, no kernel and no reading application ever sees an old copy of an
\* object to which none of the lapses has happened.
THEOREM ReadersSeeTheNewest == Spec => []NoStaleRead
<1>1. IInv => NoStaleRead
    BY DEF IInv
<1> QED
    BY <1>1, InvCorrect, PTL

\* The newest value of such an object is complete in its two copies, or a
\* kernel in the queue will write it.
THEOREM NewestIsKept == Spec => []NothingLost
<1>1. IInv => NothingLost
    <2> SUFFICES ASSUME IInv, NEW d \in Data, d \notin lapsed, d \notin Written
                 PROVE  host[d] \cup dev[d] = Parts
        BY DEF NothingLost
    <2>1. host[d] \subseteq Parts /\ dev[d] \subseteq Parts
        BY DEF IInv, TypeOK
    <2>2. host[d] = Parts \/ dev[d] = Parts
        <3>1. CASE ~DeviceNewer(d)
            BY <3>1 DEF IInv, Flags, HostComplete, HostOnly, DeviceNewer
        <3>2. CASE DeviceNewer(d) /\ ~BeingFilled(d)
            BY <3>2 DEF IInv, Flags, DeviceComplete, DeviceNewer
        <3>3. CASE DeviceNewer(d) /\ BeingFilled(d)
            BY <3>3 DEF IInv, Flags, WholeMaps, BeingFilled
        <3> QED
            BY <3>1, <3>2, <3>3
    <2> QED
        BY <2>1, <2>2
<1> QED
    BY <1>1, InvCorrect, PTL

\* An execution that has returned has nothing left in the queue but what failed
\* or abandoned executions left there.
THEOREM ExecutionsFinish == Spec => []ReturnsFinished
<1>1. IInv => ReturnsFinished
    BY DEF IInv
<1> QED
    BY <1>1, InvCorrect, PTL
===============================================================================
