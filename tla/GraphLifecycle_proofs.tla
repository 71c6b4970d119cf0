------------------------ MODULE GraphLifecycle_proofs ------------------------
EXTENDS GraphLifecycle, TLAPS, FiniteSetTheorems

USE NodesAssumption

LEMMA TypeInit == Init => TypeOK
<1> SUFFICES ASSUME Init PROVE TypeOK
    OBVIOUS
<1>1. verified \in BOOLEAN /\ reverify \in BOOLEAN /\ isReadyToExecute \in BOOLEAN
    BY DEF Init
<1> QED
    BY <1>1 DEF Init, TypeOK, Abstract!States

\* The actions by the part of the state they touch.
LEMMA TypeStep == TypeOK /\ [Next]_vars => TypeOK'
<1> SUFFICES ASSUME TypeOK, [Next]_vars PROVE TypeOK'
    OBVIOUS
<1> application' = application
    BY DEF Next, vars
<1> USE DEF TypeOK, Abstract!States, Nodes
<1>1. ASSUME NEW n \in Nodes, CreateNode(n) PROVE TypeOK'
    <2>1. verified' \in BOOLEAN /\ reverify' \in BOOLEAN /\ isReadyToExecute' \in BOOLEAN
        BY <1>1 DEF CreateNode, MarkEdited
    <2>2. state' \in Abstract!States /\ status' \in {"SUCCESS", "FAILURE"}
        BY <1>1 DEF CreateNode, MarkEdited
    <2> QED
        BY <1>1, <2>1, <2>2 DEF CreateNode, hooks
<1>2. ASSUME NEW n \in Nodes, SetParameter(n) PROVE TypeOK'
    BY <1>2 DEF SetParameter, flags, hooks
<1>3. ASSUME NEW n \in Nodes, RemoveNode(n) PROVE TypeOK'
    BY <1>3 DEF RemoveNode, Unlink, flags, hooks
<1>4. ASSUME NEW n \in Nodes, ReleaseNode(n) PROVE TypeOK'
    BY <1>4 DEF ReleaseNode, Unlink, flags, hooks
<1>5. ASSUME NEW n \in Nodes, DeinitializeNode(n) PROVE TypeOK'
    <2>1. misuse' \subseteq {"initialize", "deinitialize"}
        BY <1>5 DEF DeinitializeNode, Misused
    <2>2. reverify' \in BOOLEAN
        BY <1>5 DEF DeinitializeNode, HookOutcomes
    <2> QED
        BY <1>5, <2>1, <2>2 DEF DeinitializeNode, nodes
<1>6. ASSUME NEW n \in Nodes, InitializeNode(n) PROVE TypeOK'
    <2>1. misuse' \subseteq {"initialize", "deinitialize"}
        BY <1>6 DEF InitializeNode, Misused
    <2> QED
        BY <1>6, <2>1 DEF InitializeNode, MayInitialize, nodes, flags
<1>7. ASSUME NEW n \in Nodes, InitializeFails(n) PROVE TypeOK'
    <2>1. misuse' \subseteq {"initialize", "deinitialize"}
        BY <1>7 DEF InitializeFails, Misused
    <2> QED
        BY <1>7, <2>1 DEF InitializeFails, FailsVerified, nodes
<1>8. ASSUME NEW n \in Nodes, Run(n) PROVE TypeOK'
    <2>1. CASE RunNode(n)
        BY <2>1 DEF RunNode, nodes, flags, hooks
    <2>2. CASE NodeFails(n)
        BY <2>2 DEF NodeFails, nodes, flags, hooks
    <2>3. CASE Abandon(n)
        BY <2>3 DEF Abandon, nodes, flags, hooks
    <2> QED
        BY <1>8, <2>1, <2>2, <2>3 DEF Run
<1>9. ASSUME NEW n \in Nodes, Shutdown(n) PROVE TypeOK'
    <2>1. misuse' \subseteq {"initialize", "deinitialize"}
        BY <1>9 DEF Shutdown, ShutdownNode, ShutdownFails, ShutdownHook, Misused
    <2> QED
        BY <1>9, <2>1 DEF Shutdown, ShutdownNode, ShutdownFails, ShutdownHook, nodes, flags
<1>10. ASSUME NEW o \in {"verify", "process"}, Call(o) PROVE TypeOK'
    BY <1>10 DEF Call, nodes, flags, hooks
<1>11. CASE VerifyGraph
    BY <1>11 DEF VerifyGraph, nodes, hooks
<1>12. CASE OptimizeRefused
    BY <1>12 DEF OptimizeRefused, FailsVerified, nodes, hooks
<1>13. ASSUME NEW D \in SUBSET (list \cap Vision), Divide(D)
       PROVE  /\ list' \subseteq Nodes /\ parts' \subseteq Vision /\ trash' \subseteq Nodes /\ reverify' \in BOOLEAN
              /\ list' \cap trash' = {} /\ list' \cup trash' \subseteq created
    BY <1>13 DEF Divide
<1>14. CASE OptimizeFails
    <2>1. PICK D \in SUBSET (list \cap Vision): Divide(D)
        BY <1>14 DEF OptimizeFails
    <2> QED
        BY <1>13, <1>14, <2>1 DEF OptimizeFails, FailsVerified, hooks
<1>15. CASE OptimizeGraph
    <2>1. Divide(list \cap Vision)
        BY <1>15 DEF OptimizeGraph
    <2>2. verified' \in BOOLEAN
        BY <1>15 DEF OptimizeGraph
    <2> QED
        BY <1>13, <1>15, <2>1, <2>2 DEF OptimizeGraph, hooks
<1>16. CASE VerifyDone
    BY <1>16 DEF VerifyDone, nodes, hooks
<1>17. CASE Execute
    BY <1>17 DEF Execute, Listed, nodes, hooks
<1>18. CASE Complete
    BY <1>18 DEF Complete, nodes, hooks
<1>19. CASE ReleaseGraph \/ ReleaseContext
    BY <1>19 DEF ReleaseGraph, ReleaseContext, Listed, nodes, flags, hooks
<1>20. CASE ShutdownDone
    BY <1>20 DEF ShutdownDone, nodes, flags, hooks
<1>21. CASE Collect
    <2>1. misuse' \subseteq {"initialize", "deinitialize"}
        BY <1>21 DEF Collect, ShutdownHook, Misused
    <2> QED
        BY <1>21, <2>1 DEF Collect, ShutdownHook, nodes, flags
<1>22. CASE UNCHANGED vars
    BY <1>22 DEF vars, nodes, flags, hooks
<1> QED
    BY <1>1, <1>2, <1>3, <1>4, <1>5, <1>6, <1>7, <1>8, <1>9, <1>10, <1>11, <1>12, <1>14, <1>15,
       <1>16, <1>17, <1>18, <1>19, <1>20, <1>21, <1>22 DEF Next, Edit, Visit, Optimize

\* Every variable of the life of a graph keeps its type.
THEOREM TypeCorrect == Spec => []TypeOK
BY TypeInit, TypeStep, PTL DEF Spec

--------------------------------------------------------------------------------
(***************************************************************************)
(* A verification takes the graph through three stages, and what each has  *)
(* established must survive until isReadyToExecute is set: the parameters  *)
(* accepted, then the vision nodes divided, then the nodes initialised.    *)
(* isReadyToExecute stays clear meanwhile, although agoInitializeGraph may *)
(* set graph->verified early.                                              *)
(***************************************************************************)
Prepared ==
    /\ Listed \subseteq initialized
    /\ list \cap invalid = {}
    /\ list \cap Vision = {}

Stages ==
    /\ pc \in {"optimize", "init"} => ~isReadyToExecute /\ list \cap invalid = {}
    /\ pc = "init" => list \cap Vision = {} /\ Listed \subseteq initialized \cup todo
    /\ pc = "run" => state = "RUNNING"

LifeInv == TypeOK /\ Stages /\ SoundIsPrepared

LEMMA LifeInit == Init => LifeInv
BY TypeInit DEF Init, LifeInv, Stages, SoundIsPrepared, Sound

LEMMA LifeStep == LifeInv /\ [Next]_vars => LifeInv'
<1> SUFFICES ASSUME LifeInv, [Next]_vars PROVE Stages' /\ SoundIsPrepared'
    BY TypeStep DEF LifeInv
<1> USE DEF LifeInv, TypeOK, Stages, SoundIsPrepared, Sound, Alive, Listed
<1>1. ASSUME NEW n \in Nodes, CreateNode(n) PROVE Stages' /\ SoundIsPrepared'
    BY <1>1 DEF CreateNode, MarkEdited, hooks
<1>2. ASSUME NEW n \in Nodes, SetParameter(n) PROVE Stages' /\ SoundIsPrepared'
    BY <1>2 DEF SetParameter, flags, hooks
<1>3. ASSUME NEW n \in Nodes, RemoveNode(n) PROVE Stages' /\ SoundIsPrepared'
    BY <1>3 DEF RemoveNode, Unlink, flags, hooks
<1>4. ASSUME NEW n \in Nodes, ReleaseNode(n) PROVE Stages' /\ SoundIsPrepared'
    BY <1>4 DEF ReleaseNode, Unlink, flags, hooks
<1>5. ASSUME NEW n \in Nodes, DeinitializeNode(n) PROVE Stages' /\ SoundIsPrepared'
    BY <1>5 DEF DeinitializeNode, nodes
<1>6. ASSUME NEW n \in Nodes, InitializeNode(n) PROVE Stages' /\ SoundIsPrepared'
    BY <1>6 DEF InitializeNode, MayInitialize, nodes, flags
<1>7. ASSUME NEW n \in Nodes, InitializeFails(n) PROVE Stages' /\ SoundIsPrepared'
    BY <1>7 DEF InitializeFails, FailsVerified, MayInitialize, nodes
<1>8. ASSUME NEW n \in Nodes, Run(n) PROVE Stages' /\ SoundIsPrepared'
    BY <1>8 DEF Run, RunNode, NodeFails, Abandon, nodes, flags, hooks
<1>9. ASSUME NEW n \in Nodes, Shutdown(n) PROVE Stages' /\ SoundIsPrepared'
    BY <1>9 DEF Shutdown, ShutdownNode, ShutdownFails, nodes, flags
<1>10. ASSUME NEW o \in {"verify", "process"}, Call(o) PROVE Stages' /\ SoundIsPrepared'
    BY <1>10 DEF Call, nodes, flags, hooks
<1>11. CASE VerifyGraph
    BY <1>11 DEF VerifyGraph, nodes, hooks
<1>12. CASE OptimizeRefused
    BY <1>12 DEF OptimizeRefused, FailsVerified, nodes, hooks
<1>13. CASE OptimizeFails
    BY <1>13 DEF OptimizeFails, FailsVerified, hooks
<1>14. CASE OptimizeGraph
    BY <1>14 DEF OptimizeGraph, Divide, hooks
<1>15. CASE VerifyDone
    BY <1>15 DEF VerifyDone, nodes, hooks
<1>16. CASE Execute
    BY <1>16 DEF Execute, nodes, hooks
<1>17. CASE Complete
    BY <1>17 DEF Complete, nodes, hooks
<1>18. CASE ReleaseGraph \/ ReleaseContext
    BY <1>18 DEF ReleaseGraph, ReleaseContext, nodes, flags, hooks
<1>19. CASE ShutdownDone
    BY <1>19 DEF ShutdownDone, nodes, flags, hooks
<1>20. CASE Collect
    BY <1>20 DEF Collect, nodes, flags
<1>21. CASE UNCHANGED vars
    BY <1>21 DEF vars, nodes, flags, hooks
<1> QED
    BY <1>1, <1>2, <1>3, <1>4, <1>5, <1>6, <1>7, <1>8, <1>9, <1>10, <1>11, <1>12, <1>13, <1>14,
       <1>15, <1>16, <1>17, <1>18, <1>19, <1>20, <1>21 DEF Next, Edit, Visit, Optimize

\* Whatever the application does and whatever fails, agoProcessGraph executes
\* without verifying only a graph of accepted, divided and initialised nodes.
THEOREM OnlyPreparedGraphsRun == Spec => []SoundIsPrepared
<1>1. LifeInv => SoundIsPrepared
    BY DEF LifeInv
<1> QED
    BY LifeInit, LifeStep, <1>1, PTL DEF Spec

--------------------------------------------------------------------------------
(***************************************************************************)
(* GraphLifecycle implements GraphStates, with Sound for its sound.        *)
(***************************************************************************)
LEMMA StatesInit == Init => Abstract!Init
BY DEF Init, Abstract!Init, Sound

LEMMA StatesStep == LifeInv /\ [Next]_vars => [Abstract!Next]_<<state, Sound>>
<1> SUFFICES ASSUME LifeInv, [Next]_vars PROVE Abstract!Next \/ UNCHANGED <<state, Sound>>
    OBVIOUS
<1> DEFINE Goal == Abstract!Next \/ UNCHANGED <<state, Sound>>
\* What an abstract step needs of the concrete one.
<1>s. ASSUME UNCHANGED <<state, verified, isReadyToExecute>> PROVE Goal
    BY <1>s DEF Sound
<1>w. ASSUME state' \in {"UNVERIFIED", "VERIFIED"}, ~verified' \/ ~isReadyToExecute' PROVE Goal
    BY <1>w DEF Abstract!Next, Abstract!Withdraw, Sound
<1>f. ASSUME pc = "run", state' \in {"COMPLETED", "ABANDONED"}, UNCHANGED <<verified, isReadyToExecute>>
      PROVE  Goal
    BY <1>f DEF LifeInv, Stages, Abstract!Next, Abstract!Finish, Sound
<1>1. ASSUME NEW n \in Nodes, Edit(n) PROVE Goal
    BY <1>1, <1>s, <1>w DEF Edit, CreateNode, MarkEdited, SetParameter, RemoveNode, ReleaseNode, flags
<1>2. ASSUME NEW n \in Nodes, DeinitializeNode(n) PROVE Goal
    BY <1>2, <1>w DEF DeinitializeNode, LifeInv, Stages
<1>3. ASSUME NEW n \in Nodes, InitializeNode(n) PROVE Goal
    BY <1>3, <1>s DEF InitializeNode, flags
<1>4. ASSUME NEW n \in Nodes, InitializeFails(n) PROVE Goal
    BY <1>4, <1>w DEF InitializeFails, FailsVerified
<1>5. ASSUME NEW n \in Nodes, Run(n) PROVE Goal
    BY <1>5, <1>s, <1>f DEF Run, RunNode, NodeFails, Abandon, flags
<1>6. ASSUME NEW n \in Nodes, Shutdown(n) PROVE Goal
    BY <1>6, <1>s DEF Shutdown, ShutdownNode, ShutdownFails, flags
<1>7. ASSUME NEW o \in {"verify", "process"}, Call(o) PROVE Goal
    BY <1>7, <1>s DEF Call, flags
<1>8. CASE VerifyGraph
    BY <1>8, <1>w DEF VerifyGraph
<1>9. CASE OptimizeRefused \/ OptimizeFails
    BY <1>9, <1>w DEF OptimizeRefused, OptimizeFails, FailsVerified
<1>10. CASE OptimizeGraph
    BY <1>10 DEF OptimizeGraph, LifeInv, Stages, Sound
<1>11. CASE VerifyDone
    BY <1>11 DEF VerifyDone, Sound, Abstract!Next, Abstract!VerifyOk
<1>12. CASE Execute
    <2>1. CASE Sound /\ Listed # {}
        BY <1>12, <2>1 DEF Execute, Sound, Abstract!Next, Abstract!Begin
    <2>2. CASE ~(Sound /\ Listed # {})
        BY <1>12, <2>2, <1>s DEF Execute
    <2> QED
        BY <2>1, <2>2
<1>13. CASE Complete
    BY <1>13, <1>f DEF Complete
<1>14. CASE ReleaseGraph \/ ReleaseContext \/ ShutdownDone \/ Collect
    BY <1>14, <1>s DEF ReleaseGraph, ReleaseContext, ShutdownDone, Collect, flags
<1>15. CASE UNCHANGED vars
    BY <1>15, <1>s DEF vars, flags
<1> QED
    BY <1>1, <1>2, <1>3, <1>4, <1>5, <1>6, <1>7, <1>8, <1>9, <1>10, <1>11, <1>12, <1>13, <1>14, <1>15
       DEF Next, Visit, Optimize

\* The graph's state moves as GraphStates says: an execution begins only on a
\* graph verified since its last edit, and only an execution completes.
THEOREM ImplementsGraphStates == Spec => FollowsGraphStates
BY LifeInit, LifeStep, StatesInit, StatesStep, PTL DEF Spec, FollowsGraphStates, Abstract!Spec

--------------------------------------------------------------------------------
(***************************************************************************)
(* Completion: what has run and what is still to be visited are together   *)
(* the nodes of the graph, and a completed graph stays sound, so that its  *)
(* nodes cannot be removed, until its state says something else.           *)
(***************************************************************************)
CompleteInv ==
    /\ pc = "run" => Sound /\ ran \cup todo = Listed
    /\ pc \in {"verify", "optimize", "init", "start"} => ran = {}
    /\ pc \in {"optimize", "init"} => state # "COMPLETED"
    /\ state = "COMPLETED" => Sound
    /\ SuccessRanEverything

LEMMA CompleteInit == Init => CompleteInv
BY DEF Init, CompleteInv, SuccessRanEverything

LEMMA CompleteStep == LifeInv /\ CompleteInv /\ [Next]_vars => CompleteInv'
<1> SUFFICES ASSUME LifeInv, CompleteInv, [Next]_vars PROVE CompleteInv'
    OBVIOUS
<1> USE DEF CompleteInv, SuccessRanEverything, Sound, Listed
<1>1. ASSUME NEW n \in Nodes, CreateNode(n) PROVE CompleteInv'
    BY <1>1 DEF CreateNode, MarkEdited, hooks
<1>2. ASSUME NEW n \in Nodes, SetParameter(n) PROVE CompleteInv'
    BY <1>2 DEF SetParameter, flags, hooks
<1>3. ASSUME NEW n \in Nodes, RemoveNode(n) PROVE CompleteInv'
    BY <1>3 DEF RemoveNode, Unlink, flags, hooks
<1>4. ASSUME NEW n \in Nodes, ReleaseNode(n) PROVE CompleteInv'
    <2>1. list' = list
        BY <1>4 DEF ReleaseNode, Unlink, LifeInv, TypeOK
    <2> QED
        BY <1>4, <2>1 DEF ReleaseNode, flags, hooks
<1>5. ASSUME NEW n \in Nodes, DeinitializeNode(n) PROVE CompleteInv'
    BY <1>5 DEF DeinitializeNode, nodes
<1>6. ASSUME NEW n \in Nodes, InitializeNode(n) PROVE CompleteInv'
    BY <1>6 DEF InitializeNode, MayInitialize, nodes, flags
<1>7. ASSUME NEW n \in Nodes, InitializeFails(n) PROVE CompleteInv'
    BY <1>7 DEF InitializeFails, FailsVerified, MayInitialize, nodes
<1>8. ASSUME NEW n \in Nodes, Run(n) PROVE CompleteInv'
    <2>1. pc = "run" /\ state = "RUNNING"
        BY <1>8 DEF Run, RunNode, NodeFails, Abandon, LifeInv, Stages
    <2> QED
        BY <1>8, <2>1 DEF Run, RunNode, NodeFails, Abandon, nodes, flags, hooks
<1>9. ASSUME NEW n \in Nodes, Shutdown(n) PROVE CompleteInv'
    BY <1>9 DEF Shutdown, ShutdownNode, ShutdownFails, nodes, flags
<1>10. ASSUME NEW o \in {"verify", "process"}, Call(o) PROVE CompleteInv'
    BY <1>10 DEF Call, nodes, flags, hooks
<1>11. CASE VerifyGraph
    BY <1>11 DEF VerifyGraph, nodes, hooks
<1>12. CASE OptimizeRefused
    BY <1>12 DEF OptimizeRefused, FailsVerified, nodes, hooks
<1>13. CASE OptimizeFails
    BY <1>13 DEF OptimizeFails, FailsVerified, hooks
<1>14. CASE OptimizeGraph
    BY <1>14 DEF OptimizeGraph, hooks
<1>15. CASE VerifyDone
    BY <1>15 DEF VerifyDone, nodes, hooks
<1>16. CASE Execute
    BY <1>16 DEF Execute, nodes, hooks
<1>17. CASE Complete
    BY <1>17 DEF Complete, nodes, hooks
<1>18. CASE ReleaseGraph \/ ReleaseContext
    BY <1>18 DEF ReleaseGraph, ReleaseContext, nodes, flags, hooks
<1>19. CASE ShutdownDone
    BY <1>19 DEF ShutdownDone, nodes, flags, hooks
<1>20. CASE Collect
    BY <1>20 DEF Collect, nodes, flags
<1>21. CASE UNCHANGED vars
    BY <1>21 DEF vars, nodes, flags, hooks
<1> QED
    BY <1>1, <1>2, <1>3, <1>4, <1>5, <1>6, <1>7, <1>8, <1>9, <1>10, <1>11, <1>12, <1>13, <1>14,
       <1>15, <1>16, <1>17, <1>18, <1>19, <1>20, <1>21 DEF Next, Edit, Visit, Optimize

\* A graph that says it is completed has run all its nodes, the parts of its divided
\* vision nodes too: agoExecuteGraph completes it after the last level only, and its
\* nodes cannot be removed while it is verified.
THEOREM CompletedMeansAllRan == Spec => []SuccessRanEverything
<1>1. CompleteInv => SuccessRanEverything
    BY DEF CompleteInv
<1> QED
    BY <1>1, LifeInit, LifeStep, CompleteInit, CompleteStep, PTL DEF Spec

--------------------------------------------------------------------------------
(***************************************************************************)
(* The ends of the nodes: who is up is marked as initialised, and a node   *)
(* that was initialised is in nodeList or in its trash, where ~AgoNode     *)
(* finds it.                                                               *)
(***************************************************************************)
UpInv ==
    /\ up \subseteq initialized
    /\ initialized \subseteq Listed \cup trash
    /\ pc = "init" => todo \subseteq Listed
    /\ NothingLeftUp

LEMMA UpInit == Init => UpInv
BY DEF Init, UpInv, NothingLeftUp

LEMMA UpStep == TypeOK /\ UpInv /\ [Next]_vars => UpInv'
<1> SUFFICES ASSUME TypeOK, UpInv, [Next]_vars PROVE UpInv'
    OBVIOUS
<1>0. application' = application
    BY DEF Next, vars
<1> USE <1>0 DEF UpInv, NothingLeftUp, Listed
<1>1. ASSUME NEW n \in Nodes, CreateNode(n) PROVE UpInv'
    BY <1>1 DEF CreateNode, hooks
<1>2. ASSUME NEW n \in Nodes, SetParameter(n) PROVE UpInv'
    BY <1>2 DEF SetParameter, hooks
<1>3. ASSUME NEW n \in Nodes, RemoveNode(n) PROVE UpInv'
    BY <1>3 DEF RemoveNode, Unlink, hooks
<1>4. ASSUME NEW n \in Nodes, ReleaseNode(n) PROVE UpInv'
    BY <1>4 DEF ReleaseNode, Unlink, hooks
<1>5. ASSUME NEW n \in Nodes, DeinitializeNode(n) PROVE UpInv'
    BY <1>5 DEF DeinitializeNode, nodes
<1>6. ASSUME NEW n \in Nodes, InitializeNode(n) PROVE UpInv'
    BY <1>6 DEF InitializeNode, MayInitialize, nodes
<1>7. ASSUME NEW n \in Nodes, InitializeFails(n) PROVE UpInv'
    BY <1>7 DEF InitializeFails, FailsVerified, nodes
<1>8. ASSUME NEW n \in Nodes, Run(n) PROVE UpInv'
    BY <1>8 DEF Run, RunNode, NodeFails, Abandon, nodes, hooks
<1>9. ASSUME NEW n \in Nodes, Shutdown(n) PROVE UpInv'
    BY <1>9 DEF Shutdown, ShutdownNode, ShutdownFails, ShutdownHook, nodes
<1>10. ASSUME NEW o \in {"verify", "process"}, Call(o) PROVE UpInv'
    BY <1>10 DEF Call, nodes, hooks
<1>11. CASE VerifyGraph
    BY <1>11 DEF VerifyGraph, nodes, hooks
<1>12. CASE OptimizeRefused
    BY <1>12 DEF OptimizeRefused, FailsVerified, nodes, hooks
<1>13. CASE OptimizeFails
    BY <1>13 DEF OptimizeFails, FailsVerified, Divide, hooks
<1>14. CASE OptimizeGraph
    BY <1>14 DEF OptimizeGraph, Divide, hooks
<1>15. CASE VerifyDone
    BY <1>15 DEF VerifyDone, nodes, hooks
<1>16. CASE Execute
    BY <1>16 DEF Execute, nodes, hooks
<1>17. CASE Complete
    BY <1>17 DEF Complete, nodes, hooks
<1>18. CASE ReleaseGraph \/ ReleaseContext
    BY <1>18 DEF ReleaseGraph, ReleaseContext, nodes, hooks
<1>19. CASE ShutdownDone
    BY <1>19 DEF ShutdownDone, nodes, hooks
<1>20. CASE Collect
    BY <1>20 DEF Collect, ShutdownHook, nodes
<1>21. CASE UNCHANGED vars
    BY <1>21 DEF vars, nodes, hooks
<1> QED
    BY <1>1, <1>2, <1>3, <1>4, <1>5, <1>6, <1>7, <1>8, <1>9, <1>10, <1>11, <1>12, <1>13, <1>14,
       <1>15, <1>16, <1>17, <1>18, <1>19, <1>20, <1>21 DEF Next, Edit, Visit, Optimize

\* When the context is gone every user node whose initialize_f succeeded has been
\* deinitialised, wherever vxRemoveNode, vxReleaseNode and failures left it - unless a
\* deinitialize_f failed while the graph was released.
THEOREM AllNodesAreEnded == Spec => []NothingLeftUp
<1>1. UpInv => NothingLeftUp
    BY DEF UpInv
<1> QED
    BY <1>1, UpInit, UpStep, TypeCorrect, PTL DEF Spec

--------------------------------------------------------------------------------
(***************************************************************************)
(* The order of the callbacks, for disciplined applications.  Once nodes   *)
(* are initialised a graph is verified, or it is Blocked for good: after   *)
(* a failure of the optimiser, or since agoRemoveNode has counted a node   *)
(* twice, no verification gets as far as agoInitializeGraph.  That is what *)
(* keeps FirstTimeVerify true to its name.                                 *)
(***************************************************************************)
Kept == list \cup parts
Blocked == status = "FAILURE" \/ count < Cardinality(Kept)

TurnInv ==
    /\ misuse = {}
    /\ up \subseteq initialized \cap User /\ initialized \cap User \subseteq up \cup pending
    /\ pending \subseteq todo /\ pending \cap up = {}
    /\ pc # "init" => pending = {}

FirstInv ==
    /\ parts \subseteq trash /\ count <= Cardinality(Kept)
    /\ Alive /\ initialized = {} => ~ reverify
    /\ Alive /\ initialized # {} =>
         /\ list \cap Vision = {}
         /\ verified \/ Blocked \/ pc = "init"
    /\ Alive /\ verified => /\ initialized # {} /\ Listed # {}
                            /\ Listed \subseteq initialized
                            /\ list \cap invalid = {}
    /\ pc \in {"optimize", "init"} => Listed # {} /\ ~ (count < Cardinality(Kept))
    /\ pc = "init" =>
         /\ todo \subseteq Listed /\ status = "SUCCESS"
         /\ reverify => verified
         /\ FirstTimeVerify => todo \cap initialized = {}

HookInv == Disciplined => TurnInv /\ FirstInv

LEMMA KeptIsFinite == TypeOK => /\ IsFiniteSet(Kept) /\ Cardinality(Kept) \in Nat
                                /\ IsFiniteSet(list) /\ IsFiniteSet(parts)
                                /\ Cardinality(list) \in Nat /\ Cardinality(parts) \in Nat
<1> SUFFICES ASSUME TypeOK
             PROVE  /\ IsFiniteSet(Kept) /\ Cardinality(Kept) \in Nat
                    /\ IsFiniteSet(list) /\ IsFiniteSet(parts)
                    /\ Cardinality(list) \in Nat /\ Cardinality(parts) \in Nat
    OBVIOUS
<1>1. list \subseteq Nodes /\ parts \subseteq Nodes /\ Kept \subseteq Nodes
    BY DEF TypeOK, Nodes, Kept
<1> QED
    BY <1>1, FS_Subset, FS_CardinalityType

\* agoOptimizeDramaComputeGraphHierarchy accepts the count of the nodes that are there.
LEMMA CountIsKept ==
    ASSUME TypeOK, parts \subseteq trash
    PROVE  HierarchyOk <=> Kept # {} /\ count = Cardinality(Kept)
<1>1. list \cap parts = {}
    BY DEF TypeOK
<1>2. Cardinality(Kept) = Cardinality(list) + Cardinality(parts) - Cardinality(list \cap parts)
    BY KeptIsFinite, FS_Union DEF Kept
<1>3. Cardinality(list \cap parts) = 0
    BY <1>1, FS_EmptySet
<1> QED
    BY <1>2, <1>3, KeptIsFinite DEF HierarchyOk, Listed, Kept

\* agoRemoveNode leaves the count too small by what it counted twice.
LEMMA UnlinkCounts ==
    ASSUME TypeOK, parts \subseteq trash, count <= Cardinality(Kept), NEW n, Unlink(n), parts' = parts
    PROVE  /\ parts' \subseteq trash' /\ count' <= Cardinality(Kept')
           /\ count < Cardinality(Kept) \/ n \in trash => count' < Cardinality(Kept')
<1>1. count' = count - 1 /\ count \in Int /\ Cardinality(Kept) \in Nat /\ IsFiniteSet(Kept)
    BY KeptIsFinite DEF Unlink, TypeOK
<1>2. CASE n \in trash
    <2>1. Kept' = Kept
        BY <1>2 DEF Unlink, Kept, TypeOK
    <2> QED
        BY <1>1, <2>1 DEF Unlink
<1>3. CASE n \notin trash
    <2>1. n \in Kept /\ Kept' = Kept \ {n}
        BY <1>3 DEF Unlink, Kept, TypeOK
    <2>2. Cardinality(Kept') = Cardinality(Kept) - 1
        BY <1>1, <2>1, FS_RemoveElement
    <2> QED
        BY <1>1, <1>3, <2>2 DEF Unlink
<1> QED
    BY <1>2, <1>3

LEMMA HookInit == Init => HookInv
<1> SUFFICES ASSUME Init PROVE HookInv
    OBVIOUS
<1>1. Kept = {} /\ Cardinality({}) = 0
    BY FS_EmptySet DEF Init, Kept
<1> QED
    BY <1>1 DEF Init, HookInv, TurnInv, FirstInv, Alive

LEMMA TurnStep == LifeInv /\ HookInv /\ [Next]_vars /\ Disciplined => TurnInv'
<1> SUFFICES ASSUME LifeInv, TurnInv, FirstInv, [Next]_vars, Disciplined PROVE TurnInv'
    BY DEF HookInv
<1> USE DEF TurnInv
<1>0. TypeOK /\ Stages
    BY DEF LifeInv
<1>1. ASSUME NEW n \in Nodes, CreateNode(n) PROVE TurnInv'
    BY <1>1 DEF CreateNode, hooks
<1>2. ASSUME NEW n \in Nodes, SetParameter(n) PROVE TurnInv'
    BY <1>2 DEF SetParameter, hooks
<1>3. ASSUME NEW n \in Nodes, RemoveNode(n) PROVE TurnInv'
    BY <1>3 DEF RemoveNode, hooks
<1>4. ASSUME NEW n \in Nodes, ReleaseNode(n) PROVE TurnInv'
    BY <1>4 DEF ReleaseNode, hooks
<1>5. ASSUME NEW n \in Nodes, DeinitializeNode(n) PROVE TurnInv'
    <2>1. pc = "init" /\ n \in todo \cap User /\ pending = {} /\ ~ FirstTimeVerify
        BY <1>5 DEF DeinitializeNode
    <2>2. verified /\ Alive
        BY <2>1 DEF FirstInv, FirstTimeVerify, Alive
    <2>3. n \in up
        BY <2>1, <2>2 DEF FirstInv
    <2> QED
        BY <1>5, <2>3 DEF DeinitializeNode, Misused
<1>6. ASSUME NEW n \in Nodes, InitializeNode(n) PROVE TurnInv'
    <2>1. pc = "init" /\ n \in todo /\ (IF n \in User /\ ~ FirstTimeVerify THEN pending = {n} ELSE pending = {})
        BY <1>6 DEF InitializeNode, MayInitialize
    <2>2. n \notin up
        <3>1. CASE FirstTimeVerify
            BY <2>1, <3>1 DEF FirstInv
        <3>2. CASE n \in User /\ ~ FirstTimeVerify
            BY <2>1, <3>2
        <3>3. CASE n \notin User
            <4>1. up \subseteq User
                OBVIOUS
            <4> QED
                BY <3>3, <4>1
        <3> QED
            BY <3>1, <3>2, <3>3
    <2> QED
        BY <1>6, <2>1, <2>2 DEF InitializeNode, Misused
<1>7. ASSUME NEW n \in Nodes, InitializeFails(n) PROVE TurnInv'
    BY <1>7 DEF InitializeFails, Disciplined
<1>8. ASSUME NEW n \in Nodes, Run(n) PROVE TurnInv'
    BY <1>8 DEF Run, RunNode, NodeFails, Abandon, hooks
<1>9. ASSUME NEW n \in Nodes, Shutdown(n) PROVE TurnInv'
    <2>1. ShutdownNode(n)
        BY <1>9 DEF Shutdown, ShutdownFails, Disciplined
    <2>2. pending = {} /\ ({n} \cap initialized) \cap User \subseteq up
        BY <2>1 DEF ShutdownNode
    <2> QED
        BY <2>1, <2>2 DEF ShutdownNode, ShutdownHook, Misused
<1>10. ASSUME NEW o \in {"verify", "process"}, Call(o) PROVE TurnInv'
    BY <1>10 DEF Call, hooks
<1>11. CASE VerifyGraph
    BY <1>11 DEF VerifyGraph, hooks
<1>12. CASE OptimizeRefused \/ OptimizeFails \/ OptimizeGraph
    BY <1>12 DEF OptimizeRefused, OptimizeFails, OptimizeGraph, FailsVerified, hooks
<1>13. CASE VerifyDone
    BY <1>13 DEF VerifyDone, hooks
<1>14. CASE Execute \/ Complete
    BY <1>14 DEF Execute, Complete, hooks
<1>15. CASE ReleaseGraph \/ ReleaseContext \/ ShutdownDone
    BY <1>15 DEF ReleaseGraph, ReleaseContext, ShutdownDone, hooks
<1>16. CASE Collect
    BY <1>16 DEF Collect, ShutdownHook, Misused
<1>17. CASE UNCHANGED vars
    BY <1>17 DEF vars, hooks
<1> QED
    BY <1>1, <1>2, <1>3, <1>4, <1>5, <1>6, <1>7, <1>8, <1>9, <1>10, <1>11, <1>12, <1>13, <1>14,
       <1>15, <1>16, <1>17 DEF Next, Edit, Visit, Optimize

LEMMA FirstStep == LifeInv /\ HookInv /\ [Next]_vars /\ Disciplined => FirstInv'
<1> SUFFICES ASSUME LifeInv, TurnInv, FirstInv, [Next]_vars, Disciplined PROVE FirstInv'
    BY DEF HookInv
<1>0. TypeOK /\ Stages /\ Cardinality(Kept) \in Nat /\ IsFiniteSet(Kept)
    BY KeptIsFinite DEF LifeInv
\* Steps that change no node, and no flag but isReadyToExecute and the state.
<1>a. ASSUME UNCHANGED nodes, initialized' = initialized, UNCHANGED <<verified, reverify, status>>,
             Alive' => Alive /\ (pc = "init" => pc' = "init"),
             pc' \in {"optimize", "init"} => pc' = pc, pc' = "init" => todo' = todo
      PROVE  FirstInv'
    <2>1. Kept' = Kept /\ Listed' = Listed
        BY <1>a DEF nodes, Kept, Listed
    <2> QED
        BY <1>a, <2>1 DEF FirstInv, Blocked, FirstTimeVerify, nodes
<1>1. ASSUME NEW n \in Nodes, CreateNode(n) PROVE FirstInv'
    <2>1. initialized = {} /\ pc = "idle" /\ pc' = "idle" /\ n \notin created
        BY <1>1 DEF CreateNode, Disciplined
    <2>2. ~ verified /\ Alive
        BY <2>1 DEF FirstInv, Alive
    <2>3. n \notin Kept
        BY <1>0, <2>1 DEF FirstInv, TypeOK, Kept
    <2>4. Kept' = Kept \cup {n} /\ count' = count + 1 /\ count \in Int
        BY <1>0, <1>1 DEF CreateNode, Kept, TypeOK
    <2>5. Cardinality(Kept') = Cardinality(Kept) + 1
        BY <1>0, <2>3, <2>4, FS_AddElement
    <2>6. count' <= Cardinality(Kept')
        BY <1>0, <2>4, <2>5 DEF FirstInv
    <2>7. initialized' = {} /\ ~ verified' /\ ~ reverify' /\ parts' \subseteq trash'
        BY <1>1, <2>1, <2>2 DEF CreateNode, MarkEdited, hooks, FirstInv
    <2> QED
        BY <2>1, <2>6, <2>7 DEF FirstInv
<1>2. ASSUME NEW n \in Nodes, SetParameter(n) PROVE FirstInv'
    <2>1. pc = "idle" /\ pc' = "idle" /\ ~ verified /\ UNCHANGED <<list, count, parts, trash, initialized, verified, reverify, status>>
        BY <1>2 DEF SetParameter, flags, hooks
    <2>2. Kept' = Kept
        BY <2>1 DEF Kept
    <2> QED
        BY <2>1, <2>2 DEF FirstInv, Alive, Blocked
<1>3. ASSUME NEW n \in Nodes, RemoveNode(n) PROVE FirstInv'
    <2>1. pc = "idle" /\ pc' = "idle" /\ ~ verified /\ UNCHANGED <<parts, initialized, verified, reverify, status>> /\ Unlink(n)
        BY <1>3 DEF RemoveNode, flags, hooks
    <2>2. /\ parts' \subseteq trash' /\ count' <= Cardinality(Kept')
          /\ count < Cardinality(Kept) => count' < Cardinality(Kept')
        BY <1>0, <2>1, UnlinkCounts DEF FirstInv
    <2>3. list' \subseteq list
        BY <2>1 DEF Unlink
    <2> QED
        BY <2>1, <2>2, <2>3 DEF FirstInv, Alive, Blocked
<1>4. ASSUME NEW n \in Nodes, ReleaseNode(n) PROVE FirstInv'
    <2>1. /\ pc = "idle" /\ pc' = "idle" /\ UNCHANGED <<parts, invalid, initialized, verified, reverify, status>>
          /\ IF n \in trash THEN Unlink(n) ELSE UNCHANGED <<list, count, trash>>
        BY <1>4 DEF ReleaseNode, flags, hooks
    <2>2. list' = list
        BY <1>0, <2>1 DEF Unlink, TypeOK
    <2>3. /\ parts' \subseteq trash' /\ count' <= Cardinality(Kept')
          /\ count < Cardinality(Kept) => count' < Cardinality(Kept')
        <3>1. CASE n \in trash
            BY <1>0, <2>1, <3>1, UnlinkCounts DEF FirstInv
        <3>2. CASE n \notin trash
            BY <2>1, <3>2 DEF FirstInv, Kept
        <3> QED
            BY <3>1, <3>2
    <2>4. Listed' = Listed
        BY <2>1, <2>2 DEF Listed
    <2> QED
        BY <2>1, <2>2, <2>3, <2>4 DEF FirstInv, Alive, Blocked
<1>5. ASSUME NEW n \in Nodes, DeinitializeNode(n) PROVE FirstInv'
    <2>1. /\ pc = "init" /\ pc' = "init" /\ todo' = todo /\ UNCHANGED nodes /\ initialized' = initialized
          /\ ~ FirstTimeVerify /\ verified' = TRUE /\ status' = status
        BY <1>5 DEF DeinitializeNode
    <2>2. verified /\ Alive
        BY <2>1 DEF FirstInv, FirstTimeVerify, Alive
    <2>3. Kept' = Kept /\ Listed' = Listed
        BY <2>1 DEF nodes, Kept, Listed
    <2> QED
        BY <2>1, <2>2, <2>3 DEF FirstInv, FirstTimeVerify, nodes, Blocked
<1>6. ASSUME NEW n \in Nodes, InitializeNode(n) PROVE FirstInv'
    <2>1. /\ pc = "init" /\ pc' = "init" /\ n \in todo /\ todo' = todo \ {n} /\ UNCHANGED <<nodes, flags>>
          /\ initialized' = initialized \cup {n}
        BY <1>6 DEF InitializeNode, MayInitialize
    <2>2. Kept' = Kept /\ Listed' = Listed
        BY <2>1 DEF nodes, Kept, Listed
    <2>3. list \cap Vision = {} /\ Alive
        BY <1>0, <2>1 DEF Stages, Alive
    <2> QED
        BY <2>1, <2>2, <2>3 DEF FirstInv, FirstTimeVerify, nodes, flags, Blocked
<1>7. ASSUME NEW n \in Nodes, InitializeFails(n) PROVE FirstInv'
    BY <1>7 DEF InitializeFails, Disciplined
<1>8. ASSUME NEW n \in Nodes, Run(n) PROVE FirstInv'
    BY <1>8, <1>a DEF Run, RunNode, NodeFails, Abandon, flags, hooks, Alive
<1>9. ASSUME NEW n \in Nodes, Shutdown(n) PROVE FirstInv'
    <2>1. UNCHANGED nodes /\ ~ Alive' /\ pc' \notin {"optimize", "init"}
        BY <1>9 DEF Shutdown, ShutdownNode, ShutdownFails, Alive
    <2> QED
        BY <2>1 DEF FirstInv, nodes, Kept
<1>10. ASSUME NEW o \in {"verify", "process"}, Call(o) PROVE FirstInv'
    BY <1>10, <1>a DEF Call, flags, hooks, Alive
<1>11. CASE VerifyGraph
    <2>1. pc = "verify" /\ Alive /\ UNCHANGED <<nodes, todo, reverify, status, initialized>> /\ pc' \in {"optimize", "idle"}
        BY <1>11 DEF VerifyGraph, hooks, Alive
    <2>2. Kept' = Kept /\ Listed' = Listed /\ Kept = Listed
        BY <2>1 DEF nodes, Kept, Listed
    <2>3. HierarchyOk <=> Kept # {} /\ count = Cardinality(Kept)
        BY <1>0, CountIsKept DEF FirstInv
    <2>4. CASE HierarchyOk /\ invalid \cap list = {}
        <3>1. pc' = "optimize" /\ verified' = verified
            BY <1>11, <2>4 DEF VerifyGraph
        <3>2. ~ (count < Cardinality(Kept)) /\ Listed # {}
            BY <1>0, <2>2, <2>3, <2>4
        <3> QED
            BY <2>1, <2>2, <3>1, <3>2 DEF FirstInv, nodes, Blocked
    <2>5. CASE ~ (HierarchyOk /\ invalid \cap list = {})
        <3>1. pc' = "idle" /\ ~ verified'
            BY <1>11, <2>5 DEF VerifyGraph
        <3>2. initialized # {} => Blocked
            <4>1. CASE verified
                <5>1. Listed # {} /\ list \cap invalid = {}
                    BY <2>1, <4>1 DEF FirstInv
                <5>2. count # Cardinality(Kept) /\ count <= Cardinality(Kept) /\ count \in Int
                    BY <1>0, <2>2, <2>3, <2>5, <5>1 DEF FirstInv, TypeOK
                <5> QED
                    BY <1>0, <5>2 DEF Blocked
            <4>2. CASE ~ verified
                BY <2>1, <4>2 DEF FirstInv
            <4> QED
                BY <4>1, <4>2
        <3> QED
            BY <2>1, <2>2, <3>1, <3>2 DEF FirstInv, nodes, Blocked
    <2> QED
        BY <2>4, <2>5
<1>12. CASE OptimizeRefused
    <2>1. pc = "optimize" /\ Alive /\ pc' = "idle" /\ ~ verified' /\ status = "FAILURE" /\ UNCHANGED <<nodes, reverify, status, initialized>>
        BY <1>0, <1>12 DEF OptimizeRefused, FailsVerified, hooks, Alive, TypeOK
    <2>2. Kept' = Kept
        BY <2>1 DEF nodes, Kept
    <2> QED
        BY <2>1, <2>2 DEF FirstInv, nodes, Blocked
\* Dividing vision nodes moves them from the list to the parts.
<1>13. ASSUME NEW D \in SUBSET (list \cap Vision), Divide(D), Alive
       PROVE  /\ Kept' = Kept /\ parts' \subseteq trash' /\ list' \subseteq list
              /\ initialized # {} => D = {}
              /\ initialized = {} => ~ reverify'
              /\ D = {} => reverify' = reverify /\ list' = list /\ parts' = parts
    <2>1. Kept' = Kept /\ parts' \subseteq trash' /\ list' \subseteq list
        BY <1>13 DEF Divide, Kept, FirstInv
    <2>2. initialized # {} => D = {}
        BY <1>13 DEF FirstInv
    <2>3. initialized = {} => ~ reverify /\ ~ verified
        BY <1>13 DEF FirstInv
    <2>4. reverify' \in {reverify, FALSE, verified}
        BY <1>0, <1>13 DEF Divide, TypeOK
    <2>5. D = {} => reverify' = reverify /\ list' = list /\ parts' = parts
        BY <1>13 DEF Divide
    <2>6. initialized = {} => ~ reverify'
        BY <2>3, <2>4, Zenon
    <2> QED
        BY <2>1, <2>2, <2>5, <2>6, Zenon
<1>14. CASE OptimizeFails
    <2>1. PICK D \in SUBSET (list \cap Vision): Divide(D)
        BY <1>14 DEF OptimizeFails
    <2>2. pc = "optimize" /\ Alive /\ pc' = "idle" /\ ~ verified' /\ status' = "FAILURE" /\ UNCHANGED <<count, initialized>>
        BY <1>14 DEF OptimizeFails, FailsVerified, hooks, Alive
    <2>3. Kept' = Kept /\ parts' \subseteq trash' /\ list' \subseteq list /\ (initialized = {} => ~ reverify')
        BY <1>13, <2>1, <2>2
    <2> QED
        BY <2>2, <2>3 DEF FirstInv, Blocked
<1>15. CASE OptimizeGraph
    <2> DEFINE D == list \cap Vision
    <2>1. Divide(D) /\ D \in SUBSET (list \cap Vision)
        BY <1>15 DEF OptimizeGraph
    <2>2. /\ pc = "optimize" /\ Alive /\ pc' = "init" /\ status = "SUCCESS" /\ UNCHANGED <<count, invalid, initialized, status>>
          /\ verified' = (verified /\ D = {}) /\ todo' = list' \cup parts'
        BY <1>15 DEF OptimizeGraph, hooks, Alive
    <2>3. /\ Kept' = Kept /\ parts' \subseteq trash' /\ list' \subseteq list
          /\ initialized # {} => D = {}
          /\ initialized = {} => ~ reverify'
          /\ D = {} => reverify' = reverify /\ list' = list /\ parts' = parts
        BY <1>13, <2>1, <2>2
    <2>4. list' \cap Vision = {}
        BY <2>1 DEF Divide
    <2>5. Listed' = Kept' /\ Listed = Kept
        BY DEF Listed, Kept
    <2> HIDE DEF D
    <2>6. CASE initialized = {}
        <3>1. ~ verified' /\ ~ reverify' /\ ~ verified
            BY <2>2, <2>3, <2>6 DEF FirstInv
        <3> QED
            BY <2>2, <2>3, <2>5, <2>6, <3>1 DEF FirstInv, Listed
    <2>7. CASE initialized # {}
        <3>1. verified
            BY <2>2, <2>7 DEF FirstInv, Blocked
        <3>2. verified' /\ reverify' = reverify /\ list' = list /\ parts' = parts
            BY <2>2, <2>3, <2>7, <3>1
        <3> QED
            BY <2>2, <2>3, <2>4, <2>5, <2>7, <3>1, <3>2 DEF FirstInv, FirstTimeVerify, Listed
    <2> QED
        BY <2>6, <2>7
<1>16. CASE VerifyDone
    <2>1. pc = "init" /\ Alive /\ todo = {} /\ verified' /\ UNCHANGED <<nodes, reverify, status, initialized>> /\ pc' \in {"start", "idle"}
        BY <1>16 DEF VerifyDone, hooks, Alive
    <2>2. Kept' = Kept /\ Listed' = Listed
        BY <2>1 DEF nodes, Kept, Listed
    <2>3. Listed \subseteq initialized /\ Listed # {} /\ list \cap invalid = {} /\ list \cap Vision = {}
        BY <1>0, <2>1 DEF Stages, FirstInv
    <2> QED
        BY <2>1, <2>2, <2>3 DEF FirstInv, nodes
<1>17. CASE Execute \/ Complete
    BY <1>17, <1>a DEF Execute, Complete, hooks, Alive
<1>18. CASE ReleaseGraph \/ ReleaseContext \/ ShutdownDone
    BY <1>18, <1>a DEF ReleaseGraph, ReleaseContext, ShutdownDone, flags, hooks, Alive
<1>19. CASE Collect
    <2>1. UNCHANGED nodes /\ ~ Alive' /\ pc' \notin {"optimize", "init"}
        BY <1>19 DEF Collect, Alive
    <2> QED
        BY <2>1 DEF FirstInv, nodes, Kept
<1>20. CASE UNCHANGED vars
    BY <1>20, <1>a DEF vars, flags, hooks, Alive
<1> QED
    BY <1>1, <1>2, <1>3, <1>4, <1>5, <1>6, <1>7, <1>8, <1>9, <1>10, <1>11, <1>12, <1>14,
       <1>15, <1>16, <1>17, <1>18, <1>19, <1>20 DEF Next, Edit, Visit, Optimize

\* initialize_f and deinitialize_f of every node alternate for an application that creates its
\* nodes before the first verification and whose callbacks do not fail: agoInitializeGraph takes a
\* re-verification for a first one only where it cannot come.
THEOREM CallbacksAlternate == Spec => []HooksAlternate
<1>1. LifeInv /\ HookInv /\ [Next]_vars => HookInv'
    <2> SUFFICES ASSUME LifeInv, HookInv, [Next]_vars, Disciplined' PROVE TurnInv' /\ FirstInv'
        BY DEF HookInv
    <2>1. Disciplined
        BY DEF Disciplined, Next, vars
    <2> QED
        BY <2>1, TurnStep, FirstStep
<1>2. HookInv => HooksAlternate
    BY DEF HookInv, TurnInv, HooksAlternate
<1> QED
    BY <1>1, <1>2, LifeInit, LifeStep, HookInit, PTL DEF Spec
================================================================================
