---------------------------- MODULE GraphLifecycle ----------------------------
(***************************************************************************)
(* One graph under one application thread: its nodes, and the calls that   *)
(* create, parameterise, remove and release them, verify and process the   *)
(* graph, and release it.  (GraphScheduler has the locks and the threads.) *)
(*                                                                         *)
(* A user node runs a kernel with initialize_f and deinitialize_f          *)
(* callbacks.  A vision node (AGO_KERNEL_FLAG_GROUP_OVX10) is replaced in  *)
(* the first optimisation by AMD nodes that the application has no handle  *)
(* to; they are its "part", one per vision node in this model.  The other  *)
(* rewrites of the optimiser are left out.  Kernels, callbacks and the     *)
(* optimiser may fail whenever they are called.                            *)
(***************************************************************************)
EXTENDS Integers, FiniteSets

CONSTANTS User, Vision,    \* the nodes the application creates, by kind
          Applications     \* the applications considered: [users, visions: how many nodes
                           \* of each kind it creates, hooks: the callbacks of its kernels
                           \* that may fail, late: it creates nodes after a verification]

Nodes == User \cup Vision

ASSUME NodesAssumption ==
    /\ IsFiniteSet(Nodes)
    /\ User \cap Vision = {}
    /\ Applications \subseteq [users: Nat, visions: Nat,
                               hooks: SUBSET {"initialize", "deinitialize"}, late: BOOLEAN]

VARIABLES
    application,
    pc, op,                \* the call that runs
    todo,                  \* the nodes its loop over nodeList has yet to visit
    list, count,           \* nodeList: originals in it, and nodeList.count
    parts,                 \* vision nodes whose part is in nodeList
    trash,                 \* nodeList.trash
    handles,               \* nodes the application holds: external_count = 1
    created,
    invalid,               \* nodes whose parameters agoVerifyNode rejects
    initialized,           \* node->initialized (of the part, once divided)
    verified, reverify, isReadyToExecute, state,
    status,                \* graph->status: the optimiser's last failure
    pending,               \* the node between its deinitialize_f and initialize_f
    up,                    \* history: user nodes initialised, not deinitialised since
    misuse,                \* history: initialize_f or deinitialize_f out of turn
    ran                    \* history: nodes the last execution ran

flags == <<verified, reverify, isReadyToExecute, state, status>>
nodes == <<list, count, parts, trash, handles, created, invalid>>
hooks == <<initialized, pending, up, misuse>>
vars == <<application, pc, op, todo, nodes, flags, hooks, ran>>

Sound == verified /\ isReadyToExecute
Abstract == INSTANCE GraphStates WITH sound <- Sound

HookOutcomes == IF "deinitialize" \in application.hooks THEN BOOLEAN ELSE {TRUE}
Listed == list \cup parts      \* what a loop over nodeList visits

Init ==
    /\ application \in Applications
    /\ pc = "idle" /\ op = "none" /\ todo = {}
    /\ list = {} /\ count = 0 /\ parts = {} /\ trash = {}
    /\ handles = {} /\ created = {} /\ invalid = {}
    /\ initialized = {} /\ pending = {} /\ up = {} /\ misuse = {}
    /\ verified = FALSE /\ reverify = FALSE /\ isReadyToExecute = FALSE
    /\ state = "UNVERIFIED" /\ status = "SUCCESS"
    /\ ran = {}

------------------------------------------------------------------------------
\* agoCreateNode: what every creation, the optimiser's too, does to the graph.
\* Seeded fault: the creation leaves graph->verified alone.
MarkEditedKeeps ==
    /\ reverify' = verified
    /\ state' = "UNVERIFIED"
    /\ UNCHANGED <<verified, isReadyToExecute, status>>

MarkEdited ==
    /\ reverify' = verified
    /\ verified' = FALSE
    /\ state' = "UNVERIFIED"
    /\ UNCHANGED <<isReadyToExecute, status>>

\* vxCreateGenericNode, and the parameters its caller sets at once or forgets.
CreateNode(n) ==
    /\ pc = "idle"
    /\ n \notin created
    /\ application.late \/ initialized = {}
    /\ created' = created \cup {n}
    /\ Cardinality(created' \cap User) <= application.users
    /\ Cardinality(created' \cap Vision) <= application.visions
    /\ handles' = handles \cup {n}
    /\ list' = list \cup {n}
    /\ count' = count + 1
    /\ invalid' \in {invalid, invalid \cup {n}}
    /\ MarkEdited
    /\ UNCHANGED <<pc, op, todo, parts, trash, hooks, ran>>

\* vxSetParameterByIndex; a vision node that was divided is no longer in the
\* graph, and setting its parameters changes nothing there.
SetParameter(n) ==
    /\ pc = "idle"
    /\ n \in handles
    /\ ~verified
    /\ invalid' \in {invalid \cup {n}, invalid \ {n}}
    /\ UNCHANGED <<pc, op, todo, list, count, parts, trash, handles, created, flags, hooks, ran>>

\* Seeded fault: a removed node is forgotten instead of moved to the trash.
UnlinkForgets(n) ==
    /\ n \in list \cup trash
    /\ list' = list \ {n}
    /\ count' = count - 1
    /\ trash' = trash \ {n}

\* agoRemoveNode(list, node, true): out of the list or out of the trash, and
\* into the trash.  nodeList.count is decremented either way.
Unlink(n) ==
    /\ n \in list \cup trash
    /\ list' = list \ {n}
    /\ count' = count - 1
    /\ trash' = trash \cup {n}

\* vxRemoveNode
RemoveNode(n) ==
    /\ pc = "idle"
    /\ n \in handles
    /\ ~verified
    /\ Unlink(n)
    /\ handles' = handles \ {n}
    /\ UNCHANGED <<pc, op, todo, parts, created, invalid, flags, hooks, ran>>

\* vxReleaseNode: a node that only the application still referred to (the
\* optimiser took it out of the graph) is removed too.
ReleaseNode(n) ==
    /\ pc = "idle"
    /\ n \in handles
    /\ handles' = handles \ {n}
    /\ IF n \in trash THEN Unlink(n) ELSE UNCHANGED <<list, count, trash>>
    /\ UNCHANGED <<pc, op, todo, parts, created, invalid, flags, hooks, ran>>

------------------------------------------------------------------------------
\* vxVerifyGraph and vxProcessGraph: which way a call goes.
Call(o) ==
    /\ pc = "idle"
    /\ op' = o
    /\ pc' = IF o = "process" /\ verified THEN "start" ELSE "verify"
    /\ ran' = {}
    /\ UNCHANGED <<todo, nodes, flags, hooks>>

\* agoOptimizeDramaComputeGraphHierarchy: without nodes there is no head node,
\* and every node of the count must have been marked.
HierarchyOk == Listed # {} /\ count = Cardinality(list) + Cardinality(parts)

\* Seeded fault: the nodes are not verified, only the hierarchy.
VerifyGraphShallow ==
    /\ pc = "verify"
    /\ isReadyToExecute' = FALSE
    /\ state' = "UNVERIFIED"
    /\ IF HierarchyOk
          THEN pc' = "optimize" /\ UNCHANGED verified
          ELSE pc' = "idle" /\ verified' = FALSE
    /\ UNCHANGED <<op, todo, nodes, reverify, status, hooks, ran>>

\* vxVerifyGraph up to agoVerifyGraph, which checks the hierarchy and every node.
VerifyGraph ==
    /\ pc = "verify"
    /\ isReadyToExecute' = FALSE
    /\ state' = "UNVERIFIED"
    /\ IF HierarchyOk /\ invalid \cap list = {}
          THEN pc' = "optimize" /\ UNCHANGED verified
          ELSE pc' = "idle" /\ verified' = FALSE
    /\ UNCHANGED <<op, todo, nodes, reverify, status, hooks, ran>>

\* A failure after agoVerifyGraph: the state says verified, the flag does not.
FailsVerified ==
    /\ pc' = "idle"
    /\ verified' = FALSE
    /\ state' = "VERIFIED"

\* The optimiser divides the vision nodes D.  Each division calls agoCreateNode
\* at least once, and a second call overwrites what the first put in reverify.
Divide(D) ==
    /\ list' = list \ D
    /\ parts' = parts \cup D
    /\ trash' = trash \cup D
    /\ reverify' \in IF D = {} THEN {reverify}
                     ELSE {FALSE} \cup (IF Cardinality(D) = 1 THEN {verified} ELSE {})

\* agoOptimizeGraph does nothing more once graph->status has a failure.
OptimizeRefused ==
    /\ pc = "optimize"
    /\ status # "SUCCESS"
    /\ FailsVerified
    /\ UNCHANGED <<op, todo, nodes, reverify, isReadyToExecute, status, hooks, ran>>

OptimizeFails ==
    /\ pc = "optimize"
    /\ status = "SUCCESS"
    /\ status' = "FAILURE"
    /\ \E D \in SUBSET (list \cap Vision): Divide(D)
    /\ FailsVerified
    /\ UNCHANGED <<op, todo, count, handles, created, invalid, isReadyToExecute, hooks, ran>>

OptimizeGraph ==
    LET D == list \cap Vision
    IN  /\ pc = "optimize"
        /\ status = "SUCCESS"
        /\ Divide(D)
        /\ verified' = (verified /\ D = {})
        /\ todo' = list' \cup parts'
        /\ pc' = "init"
        /\ UNCHANGED <<op, count, handles, created, invalid, isReadyToExecute, state, status, hooks, ran>>

Optimize == OptimizeRefused \/ OptimizeFails \/ OptimizeGraph

------------------------------------------------------------------------------
\* agoInitializeGraph visits the nodes.  On a re-verification a user node goes
\* through deinitialize_f first, whose failure is only remembered in reverify.
FirstTimeVerify == ~verified /\ ~reverify

Misused(hook, wrong) == misuse' = IF wrong THEN misuse \cup {hook} ELSE misuse

DeinitializeNode(n) ==
    /\ pc = "init" /\ n \in todo \cap User
    /\ ~FirstTimeVerify /\ pending = {}
    /\ pending' = {n}
    /\ Misused("deinitialize", n \notin up)
    /\ up' = up \ {n}
    /\ reverify' \in HookOutcomes
    /\ verified' = TRUE
    /\ state' = "VERIFIED"
    /\ UNCHANGED <<pc, op, todo, nodes, initialized, isReadyToExecute, status, ran>>

\* Seeded fault: a re-verification does not deinitialise.
MayInitializeAlways(n) ==
    /\ pc = "init" /\ n \in todo
    /\ pending \subseteq {n}

MayInitialize(n) ==
    /\ pc = "init" /\ n \in todo
    /\ IF n \in User /\ ~FirstTimeVerify THEN pending = {n} ELSE pending = {}

InitializeNode(n) ==
    /\ MayInitialize(n)
    /\ initialized' = initialized \cup {n}
    /\ up' = IF n \in User THEN up \cup {n} ELSE up
    /\ todo' = todo \ {n}
    /\ pending' = {}
    /\ Misused("initialize", n \in up)
    /\ UNCHANGED <<pc, op, nodes, flags, ran>>

InitializeFails(n) ==
    /\ MayInitialize(n)
    /\ "initialize" \in application.hooks
    /\ todo' = {} /\ pending' = {}
    /\ Misused("initialize", n \in up)
    /\ FailsVerified
    /\ UNCHANGED <<op, nodes, initialized, up, reverify, isReadyToExecute, status, ran>>

\* The rest of vxVerifyGraph.
VerifyDone ==
    /\ pc = "init" /\ todo = {}
    /\ isReadyToExecute' = TRUE
    /\ verified' = TRUE
    /\ state' = "VERIFIED"
    /\ pc' = IF op = "process" THEN "start" ELSE "idle"
    /\ UNCHANGED <<op, todo, nodes, reverify, status, hooks, ran>>

------------------------------------------------------------------------------
\* agoProcessGraph, agoExecuteGraph
Execute ==
    /\ pc = "start"
    /\ IF Sound /\ Listed # {}
          THEN /\ pc' = "run" /\ todo' = Listed /\ ran' = {}
               /\ state' = "RUNNING"
          ELSE /\ pc' = "idle"
               /\ UNCHANGED <<todo, ran, state>>
    /\ UNCHANGED <<op, nodes, hooks, verified, reverify, isReadyToExecute, status>>

RunNode(n) ==
    /\ pc = "run" /\ n \in todo
    /\ todo' = todo \ {n}
    /\ ran' = ran \cup {n}
    /\ UNCHANGED <<pc, op, nodes, flags, hooks>>

\* The kernel fails: graph->state keeps saying that the graph runs.
NodeFails(n) ==
    /\ pc = "run" /\ n \in todo
    /\ todo' = {}
    /\ pc' = "idle"
    /\ UNCHANGED <<op, nodes, flags, hooks, ran>>

\* The node's callback asks to abandon the graph.
Abandon(n) ==
    /\ pc = "run" /\ n \in todo
    /\ todo' = {}
    /\ ran' = ran \cup {n}
    /\ state' = "ABANDONED"
    /\ pc' = "idle"
    /\ UNCHANGED <<op, nodes, hooks, verified, reverify, isReadyToExecute, status>>

\* Seeded fault: the graph completes without its last level of nodes.
CompleteEarly ==
    /\ pc = "run" /\ ran # {}
    /\ todo' = {}
    /\ state' = "COMPLETED"
    /\ pc' = "idle"
    /\ UNCHANGED <<op, nodes, hooks, verified, reverify, isReadyToExecute, status, ran>>

Complete ==
    /\ pc = "run" /\ todo = {}
    /\ state' = "COMPLETED"
    /\ pc' = "idle"
    /\ UNCHANGED <<op, todo, nodes, hooks, verified, reverify, isReadyToExecute, status, ran>>

------------------------------------------------------------------------------
\* vxReleaseGraph: agoShutdownNode for the nodes of nodeList, up to the first
\* that fails; the graph then stays in context->graphList.
ReleaseGraph ==
    /\ pc = "idle"
    /\ pc' = "shutdown" /\ op' = "release"
    /\ todo' = Listed
    /\ UNCHANGED <<nodes, flags, hooks, ran>>

\* The end of the context releases the graphs that are still in its graphList,
\* once more those that failed (without a graph thread: it would wait for the
\* thread's end again), and ~AgoNode shuts down what the released ones left.
ReleaseContext ==
    /\ pc \in {"idle", "kept"}
    /\ pc' = "shutdown" /\ op' = "context"
    /\ todo' = Listed
    /\ UNCHANGED <<nodes, flags, hooks, ran>>

ShutdownHook(S) ==
    /\ up' = up \ S
    /\ Misused("deinitialize", ~(S \cap User \subseteq up))

ShutdownNode(n) ==
    /\ pc = "shutdown" /\ n \in todo
    /\ ShutdownHook({n} \cap initialized)
    /\ initialized' = initialized \ {n}
    /\ todo' = todo \ {n}
    /\ UNCHANGED <<pc, op, nodes, flags, pending, ran>>

ShutdownFails(n) ==
    /\ pc = "shutdown" /\ n \in todo \cap User \cap initialized
    /\ "deinitialize" \in application.hooks
    /\ ShutdownHook({n})
    /\ pc' = IF op = "context" THEN "gone" ELSE "kept"
    /\ todo' = {}
    /\ UNCHANGED <<op, nodes, flags, initialized, pending, ran>>

ShutdownDone ==
    /\ pc = "shutdown" /\ todo = {}
    /\ pc' = "released"
    /\ UNCHANGED <<op, todo, nodes, flags, hooks, ran>>

Collect ==
    /\ pc = "released"
    /\ pc' = "gone"
    /\ ShutdownHook(initialized \cap (Listed \cup trash))
    /\ initialized' = {}
    /\ UNCHANGED <<op, todo, nodes, flags, pending, ran>>

------------------------------------------------------------------------------
Edit(n) == CreateNode(n) \/ SetParameter(n) \/ RemoveNode(n) \/ ReleaseNode(n)
Visit(n) == DeinitializeNode(n) \/ InitializeNode(n) \/ InitializeFails(n)
Run(n) == RunNode(n) \/ NodeFails(n) \/ Abandon(n)
Shutdown(n) == ShutdownNode(n) \/ ShutdownFails(n)

Next ==
    /\ \/ \E n \in Nodes: Edit(n) \/ Visit(n) \/ Run(n) \/ Shutdown(n)
       \/ Call("verify") \/ Call("process")
       \/ VerifyGraph \/ Optimize \/ VerifyDone
       \/ Execute \/ Complete
       \/ ReleaseGraph \/ ReleaseContext \/ ShutdownDone \/ Collect
    /\ UNCHANGED application

Spec == Init /\ [][Next]_vars

------------------------------------------------------------------------------
TypeOK ==
    /\ application \in Applications
    /\ pc \in {"idle", "verify", "optimize", "init", "start", "run", "shutdown", "kept", "released", "gone"}
    /\ op \in {"none", "verify", "process", "release", "context"}
    /\ todo \subseteq Nodes
    /\ list \subseteq Nodes /\ count \in Int /\ parts \subseteq Vision /\ trash \subseteq Nodes
    /\ list \cap trash = {} /\ list \cup trash \subseteq created
    /\ handles \subseteq Nodes /\ created \subseteq Nodes /\ invalid \subseteq Nodes
    /\ initialized \subseteq Nodes /\ pending \subseteq User /\ up \subseteq Nodes
    /\ misuse \subseteq {"initialize", "deinitialize"}
    /\ verified \in BOOLEAN /\ reverify \in BOOLEAN /\ isReadyToExecute \in BOOLEAN
    /\ state \in Abstract!States /\ status \in {"SUCCESS", "FAILURE"}
    /\ ran \subseteq Nodes

Alive == pc \notin {"shutdown", "kept", "released", "gone"}

\* Nodes before the first verification, and callbacks that succeed.
Disciplined == ~application.late /\ application.hooks = {}

\* A graph that agoProcessGraph would execute without verifying it again holds
\* only initialised nodes with accepted parameters, and no vision node that
\* the optimiser has not divided.
SoundIsPrepared ==
    Alive /\ Sound =>
             /\ Listed \subseteq initialized
             /\ list \cap invalid = {}
             /\ list \cap Vision = {}

\* A graph is completed only when every node of it ran, the parts of divided
\* vision nodes included, and stays so only until its nodes change.
SuccessRanEverything ==
    (pc = "idle" /\ state = "COMPLETED") => ran = Listed

\* The life of the graph is the one GraphStates describes: no execution without
\* a verification since the last edit, no completion without an execution.
FollowsGraphStates == Abstract!Spec

\* When the context is gone, deinitialize_f has been called for every user node
\* whose initialize_f succeeded, wherever removals and failures left the node.
\* It does not survive a deinitialize_f that fails while the graph is released.
NothingLeftUp == (pc = "gone" /\ "deinitialize" \notin application.hooks) => up = {}

\* initialize_f and deinitialize_f of every user node alternate, starting with
\* initialize_f.  It holds for an application that creates its nodes before the
\* first verification and whose callbacks do not fail, and only for those.
HooksAlternate == Disciplined => misuse = {}

\* vx_api.h: vxVerifyGraph reports an invalid graph for an invalid graph, never
\* for one whose nodes all have acceptable parameters.
ValidGraphVerifies ==
    [][(pc = "verify" /\ Listed # {} /\ list \cap invalid = {}) => pc' = "optimize"]_vars
================================================================================
