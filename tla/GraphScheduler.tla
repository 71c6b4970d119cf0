---------------------------- MODULE GraphScheduler ----------------------------
(***************************************************************************)
(* One AGO graph: the thread that executes it (agoGraphThreadFunction),    *)
(* and the application threads ("clients") that edit, verify, schedule,    *)
(* wait for, process and release it.  A client that uses the graph has one *)
(* reference to it, and stops using it when it has released it.            *)
(*                                                                         *)
(* pc[a] is the next step of thread a: t_* in agoGraphThreadFunction,      *)
(* v_* in vxVerifyGraph, p_* in agoProcessGraph, s_*, w_*, r_* in          *)
(* agoScheduleGraph, agoWaitGraph, agoReleaseGraph, e_* in agoCreateNode.  *)
(* vxVerifyGraph and agoProcessGraph have several callers; op[a] says      *)
(* which call of a they run in.                                            *)
(***************************************************************************)
EXTENDS Integers, FiniteSets, AgoPlatform

CONSTANTS Thread,      \* the graph's own thread
          Threaded,    \* thread_config & 1: the graph has a thread
          Starts,      \* who uses the graph, which calls each may make, and how many in all
          MaxCalls     \* bound: the most calls, not counting the releases

Clients == Actors \ {Thread}    \* the application's threads
APICalls == {"verify", "edit", "schedule", "wait", "process"}

ASSUME SchedulerAssumption ==
    /\ Thread \in Actors
    /\ Threaded \in BOOLEAN
    /\ MaxCalls \in Nat
    /\ Starts \subseteq [users: SUBSET Clients, calls: 0..MaxCalls,
                        may: [Clients -> SUBSET (APICalls \cup {"release"})]]

VARIABLES
    pc, op,                         \* control, per thread
    result,                         \* status a call returns to its caller in the library
    graphCS, contextCS,             \* owners of graph->cs and context->cs
    external_count, seen,           \* references; seen[c]: a value c has read
    threadScheduleCount, threadExecuteCount,
    threadThreadWaitState, threadThreadTerminationState,
    wellFormed,                     \* what agoVerifyGraph would find
    verified, isReadyToExecute, status,
    left, may,                      \* how many calls the clients may still make, and which
    fresh, lastDone,                \* history: see WaitSeesLastExecution
    refused,                        \* history: see NoLostSchedule
    covered                         \* history: see ExecutesOnlyVerified

locks == <<graphCS, contextCS>>
counts == <<threadScheduleCount, threadExecuteCount>>
states == <<threadThreadWaitState, threadThreadTerminationState>>
graph == <<wellFormed, verified, isReadyToExecute, covered>>
calls == <<left, may>>
history == <<fresh, lastDone, refused>>
vars == <<pc, op, result, sems, locks, external_count, seen, counts, states,
          graph, status, calls, history>>

Statuses == {"success", "failure"}
Status(ok) == IF ok THEN "success" ELSE "failure"
Labels == {"idle", "gone",
    "t_wait", "t_asleep", "t_check", "t_status", "t_count", "t_inform", "t_term", "t_last", "t_exit",
    "v_lock", "v_context", "v_body", "v_set",
    "p_valid", "p_lock", "p_test", "p_exec", "p_leave",
    "s_read", "s_write", "s_test", "s_post",
    "w_test", "w_set", "w_loop", "w_post", "w_check", "w_sleep", "w_asleep", "w_done",
    "e_lock", "e_add", "e_mark",
    "r_lock", "r_read", "r_write", "r_test", "r_graph", "r_term", "r_post", "r_loop",
    "r_closeTo", "r_closeFrom", "r_join", "r_shutdown", "r_leave"}

Step(a, from, to) == pc[a] = from /\ pc' = [pc EXCEPT ![a] = to]
Branch(a, from, cond, yes, no) == Step(a, from, IF cond THEN yes ELSE no)
Returns(a, r) == result' = [result EXCEPT ![a] = r]
Forgets(a) == Returns(a, "success")     \* the status went to the application

\* The frames of the steps that change only pc, and what is named besides.
OnlyPc == UNCHANGED <<op, result, sems, locks, external_count, seen, counts, states, graph, status, calls, history>>
OnlySems == UNCHANGED <<op, result, locks, external_count, seen, counts, states, graph, status, calls, history>>
OnlyResult == UNCHANGED <<op, sems, locks, external_count, seen, counts, states, graph, status, calls, history>>
OnlyGraphCS == UNCHANGED <<op, result, sems, contextCS, external_count, seen, counts, states, graph, status, calls, history>>

InitFrom(start) ==
    /\ pc = [a \in Actors |-> IF a = Thread THEN IF Threaded THEN "t_wait" ELSE "t_exit"
                                              ELSE IF a \in start.users THEN "idle" ELSE "gone"]
    /\ op = [a \in Actors |-> IF a = Thread THEN "thread" ELSE "none"]
    /\ result = [a \in Actors |-> "success"]
    /\ CreateSemaphores
    /\ graphCS = NoOwner /\ contextCS = NoOwner
    /\ external_count = Cardinality(start.users)
    /\ seen = [a \in Actors |-> 0]
    /\ threadScheduleCount = 0 /\ threadExecuteCount = 0
    /\ threadThreadWaitState \in 0..2      \* the constructor leaves it unset
    /\ threadThreadTerminationState = 0
    /\ wellFormed \in BOOLEAN /\ verified = FALSE /\ isReadyToExecute = FALSE
    /\ covered = FALSE
    /\ status = "success"
    /\ left = start.calls /\ may = start.may
    /\ fresh = FALSE /\ lastDone = TRUE /\ refused = 0

Init == \E start \in Starts: InitFrom(start)

------------------------------------------------------------------------------
\* agoIsValidGraph
GraphIsValid == external_count > 0

EnterGraph(a) == EnterCriticalSection(graphCS, a) /\ graphCS' = Entered(graphCS, a)
LeaveGraph == graphCS' = LeaveCriticalSection(graphCS)
EnterContext(a) == EnterCriticalSection(contextCS, a) /\ contextCS' = Entered(contextCS, a)
LeaveContext == contextCS' = LeaveCriticalSection(contextCS)

\* vxVerifyGraph: both locks, the verification, and - after they are released
\* again - the assignment of graph->verified.
VerifyLock(a) ==
    /\ Step(a, "v_lock", "v_context")
    /\ EnterGraph(a)
    /\ OnlyGraphCS

VerifyBegin(a) ==
    /\ Step(a, "v_context", "v_body")
    /\ EnterContext(a)
    /\ isReadyToExecute' = FALSE
    /\ UNCHANGED <<op, result, sems, graphCS, external_count, seen, counts, states, wellFormed, verified, covered, status, calls, history>>

\* Seeded fault: the inner lock of vxVerifyGraph frees graph->cs for its caller.
VerifyBodyUnlocks(a) ==
    /\ Step(a, "v_body", "v_set")
    /\ Returns(a, Status(wellFormed /\ status = "success"))
    /\ isReadyToExecute' = (wellFormed /\ status = "success")
    /\ verified' = (verified \/ wellFormed)
    /\ covered' = TRUE
    /\ LeaveContext
    /\ LeaveGraph
    /\ UNCHANGED <<op, sems, external_count, seen, counts, states, wellFormed, status, calls, history>>

\* A well-formed graph is optimised and initialised unless an earlier failure
\* is still recorded in graph->status.
VerifyBody(a) ==
    /\ Step(a, "v_body", "v_set")
    /\ Returns(a, Status(wellFormed /\ status = "success"))
    /\ isReadyToExecute' = (wellFormed /\ status = "success")
    /\ verified' = (verified \/ wellFormed)
    /\ covered' = TRUE
    /\ LeaveContext
    /\ IF op[a] = "verify" THEN LeaveGraph ELSE UNCHANGED graphCS
    /\ UNCHANGED <<op, sems, external_count, seen, counts, states, wellFormed, status, calls, history>>

VerifySet(a) ==
    LET ok == result[a] = "success"
    IN  /\ Step(a, "v_set", CASE op[a] = "verify" -> "idle"
                              [] op[a] = "schedule" -> IF ok THEN "s_post" ELSE "idle"
                              [] OTHER -> IF ok THEN "p_test" ELSE "p_leave")
        /\ verified' = ok
        /\ IF op[a] = "schedule" THEN LeaveGraph ELSE UNCHANGED graphCS
        /\ IF op[a] \in {"verify", "schedule"} THEN Forgets(a) ELSE UNCHANGED result
        /\ refused' = IF op[a] = "schedule" /\ ~ok THEN refused + 1 ELSE refused
        /\ UNCHANGED <<op, sems, contextCS, external_count, seen, counts, states, wellFormed, isReadyToExecute, covered, status, calls, fresh, lastDone>>

Verify(a) == VerifyLock(a) \/ VerifyBegin(a) \/ VerifyBody(a) \/ VerifySet(a)

------------------------------------------------------------------------------
\* agoProcessGraph, called by the graph's thread and by vxProcessGraph.
Return(a) == IF a = Thread THEN "t_status" ELSE "idle"

ProcessValid(a) ==
    /\ Branch(a, "p_valid", GraphIsValid, "p_lock", Return(a))
    /\ Returns(a, Status(GraphIsValid))
    /\ OnlyResult

ProcessLock(a) ==
    /\ Branch(a, "p_lock", verified, "p_test", "v_lock")
    /\ EnterGraph(a)
    /\ OnlyGraphCS

ProcessTest(a) ==
    /\ Branch(a, "p_test", verified /\ isReadyToExecute, "p_exec", "p_leave")
    /\ Returns(a, Status(verified /\ isReadyToExecute))
    /\ OnlyResult

\* agoExecuteGraph: the kernels of the nodes run here; one of them may fail.
ExecuteGraph(a) ==
    /\ Step(a, "p_exec", "p_leave")
    /\ \E r \in Statuses : Returns(a, r)
    /\ OnlyResult

ProcessLeave(a) ==
    /\ Step(a, "p_leave", Return(a))
    /\ LeaveGraph
    /\ IF a = Thread THEN UNCHANGED result ELSE Forgets(a)
    /\ UNCHANGED <<op, sems, contextCS, external_count, seen, counts, states, graph, status, calls, history>>

Process(a) == ProcessValid(a) \/ ProcessLock(a) \/ ProcessTest(a) \/ ExecuteGraph(a) \/ ProcessLeave(a)

------------------------------------------------------------------------------
\* agoGraphThreadFunction
ThreadWait ==
    /\ Step(Thread, "t_wait", "t_asleep")
    /\ WaitForSingleObject(Thread, "to")
    /\ OnlySems

ThreadWake ==
    /\ Step(Thread, "t_asleep", "t_check")
    /\ Thread \notin sleeping["to"]
    /\ threadThreadWaitState' = 2
    /\ fresh' = TRUE
    /\ UNCHANGED <<op, result, sems, locks, external_count, seen, counts, threadThreadTerminationState, graph, status, calls, lastDone, refused>>

ThreadCheck ==
    /\ Branch(Thread, "t_check", threadThreadTerminationState # 0, "t_term", "p_valid")
    /\ OnlyPc

ThreadStatus ==
    /\ Step(Thread, "t_status", "t_count")
    /\ status' = result[Thread]
    /\ Forgets(Thread)
    /\ UNCHANGED <<op, sems, locks, external_count, seen, counts, states, graph, calls, history>>

\* Seeded fault: a failed execution is not counted.
ThreadCountSuccess ==
    /\ Step(Thread, "t_count", "t_inform")
    /\ threadExecuteCount' = IF status = "success" /\ threadExecuteCount < MaxCalls THEN threadExecuteCount + 1 ELSE threadExecuteCount
    /\ lastDone' = (lastDone \/ fresh)
    /\ UNCHANGED <<op, result, sems, locks, external_count, seen, threadScheduleCount, states, graph, status, calls, fresh, refused>>

\* The count is only compared with threadScheduleCount, which MaxCalls bounds:
\* it stops there.
ThreadCount ==
    /\ Step(Thread, "t_count", "t_inform")
    /\ threadExecuteCount' = IF threadExecuteCount < MaxCalls THEN threadExecuteCount + 1 ELSE threadExecuteCount
    /\ lastDone' = (lastDone \/ fresh)
    /\ UNCHANGED <<op, result, sems, locks, external_count, seen, threadScheduleCount, states, graph, status, calls, fresh, refused>>

\* Seeded fault: only a successful execution informs the caller.
ThreadInformSuccess ==
    /\ Step(Thread, "t_inform", "t_wait")
    /\ IF status = "success" THEN ReleaseSemaphore("from") ELSE UNCHANGED sems
    /\ OnlySems

ThreadInform ==
    /\ Step(Thread, "t_inform", "t_wait")
    /\ ReleaseSemaphore("from")
    /\ OnlySems

ThreadTerminate ==
    /\ Step(Thread, "t_term", "t_last")
    /\ threadThreadTerminationState' = 2
    /\ UNCHANGED <<op, result, sems, locks, external_count, seen, counts, threadThreadWaitState, graph, status, calls, history>>

ThreadLast ==
    /\ Step(Thread, "t_last", "t_exit")
    /\ ReleaseSemaphore("from")
    /\ OnlySems

ThreadNext ==
    \/ ThreadWait \/ ThreadWake \/ ThreadCheck \/ ThreadStatus \/ ThreadCount
    \/ ThreadInform \/ ThreadTerminate \/ ThreadLast
    \/ Verify(Thread) \/ Process(Thread)

------------------------------------------------------------------------------
\* A client begins a call.  agoIsValidGraph fails for a graph whose last
\* reference is gone: the call returns and changes nothing.
Begin(c, call, label) ==
    /\ call \in may[c] /\ left > 0
    /\ Step(c, "idle", label)
    /\ GraphIsValid
    /\ op' = [op EXCEPT ![c] = call]
    /\ left' = left - 1
    /\ UNCHANGED <<may, result, sems, locks, external_count, seen, counts, states, graph, status, history>>

BeginCall(c) ==
    \/ Begin(c, "verify", "v_lock")
    \/ Begin(c, "edit", "e_lock")
    \/ Begin(c, "schedule", "s_read")
    \/ Begin(c, "wait", "w_test")
    \/ Begin(c, "process", "p_valid")

\* agoCreateNode, called by vxCreateGenericNode with graph->cs held: the node
\* is linked into the graph first, the graph is marked unverified last.
CreateNodeLock(c) ==
    /\ Step(c, "e_lock", "e_add")
    /\ EnterGraph(c)
    /\ OnlyGraphCS

CreateNodeAdd(c) ==
    /\ Step(c, "e_add", "e_mark")
    /\ wellFormed' \in BOOLEAN
    /\ covered' = (\E b \in Actors: pc[b] = "v_set")
    /\ UNCHANGED <<op, result, sems, locks, external_count, seen, counts, states, verified, isReadyToExecute, status, calls, history>>

\* Seeded fault: agoCreateNode leaves graph->verified as it is.
CreateNodeKeepsVerified(c) ==
    /\ Step(c, "e_mark", "idle")
    /\ LeaveGraph
    /\ OnlyGraphCS

CreateNodeMark(c) ==
    /\ Step(c, "e_mark", "idle")
    /\ verified' = FALSE
    /\ LeaveGraph
    /\ UNCHANGED <<op, result, sems, contextCS, external_count, seen, counts, states, wellFormed, isReadyToExecute, covered, status, calls, history>>

CreateNode(c) == CreateNodeLock(c) \/ CreateNodeAdd(c) \/ CreateNodeMark(c)

------------------------------------------------------------------------------
\* agoScheduleGraph.  threadScheduleCount++ is a read and a write.
ScheduleRead(c) ==
    /\ Step(c, "s_read", "s_write")
    /\ seen' = [seen EXCEPT ![c] = threadScheduleCount]
    /\ UNCHANGED <<op, result, sems, locks, external_count, counts, states, graph, status, calls, history>>

ScheduleWrite(c) ==
    /\ Step(c, "s_write", "s_test")
    /\ threadScheduleCount' = seen[c] + 1
    /\ UNCHANGED <<op, result, sems, locks, external_count, seen, threadExecuteCount, states, graph, status, calls, history>>

\* Without a thread the caller executes the graph itself.
ScheduleTest(c) ==
    /\ Step(c, "s_test", IF ~Threaded THEN "p_valid" ELSE IF verified THEN "s_post" ELSE "v_lock")
    /\ op' = [op EXCEPT ![c] = IF Threaded THEN @ ELSE "process"]
    /\ UNCHANGED <<result, sems, locks, external_count, seen, counts, states, graph, status, calls, history>>

SchedulePost(c) ==
    /\ Step(c, "s_post", "idle")
    /\ ReleaseSemaphore("to")
    /\ fresh' = (fresh /\ ~ReleaseSucceeds("to"))
    /\ lastDone' = (lastDone /\ ~ReleaseSucceeds("to"))
    /\ refused' = IF ReleaseSucceeds("to") THEN refused ELSE refused + 1
    /\ UNCHANGED <<op, result, locks, external_count, seen, counts, states, graph, status, calls>>

Schedule(c) == ScheduleRead(c) \/ ScheduleWrite(c) \/ ScheduleTest(c) \/ SchedulePost(c)

------------------------------------------------------------------------------
\* agoWaitGraph
WaitTest(c) ==
    /\ Step(c, "w_test", IF threadScheduleCount <= 0 THEN "idle" ELSE IF Threaded THEN "w_set" ELSE "w_done")
    /\ OnlyPc

WaitSet(c) ==
    /\ Step(c, "w_set", "w_loop")
    /\ threadThreadWaitState' = 1
    /\ UNCHANGED <<op, result, sems, locks, external_count, seen, counts, threadThreadTerminationState, graph, status, calls, history>>

WaitLoop(c) ==
    /\ Branch(c, "w_loop", threadThreadWaitState = 1, "w_post", "w_check")
    /\ OnlyPc

WaitPost(c) ==
    /\ Step(c, "w_post", "w_loop")
    /\ ReleaseSemaphore("to")
    /\ OnlySems

WaitCheck(c) ==
    /\ Branch(c, "w_check", threadExecuteCount < threadScheduleCount, "w_sleep", "w_done")
    /\ OnlyPc

WaitSleep(c) ==
    /\ Step(c, "w_sleep", "w_asleep")
    /\ WaitForSingleObject(c, "from")
    /\ OnlySems

WaitWake(c) ==
    /\ Step(c, "w_asleep", "w_check")
    /\ c \notin sleeping["from"]
    /\ OnlyPc

WaitDone(c) ==
    /\ Step(c, "w_done", "idle")
    /\ OnlyPc

Wait(c) ==
    \/ WaitTest(c) \/ WaitSet(c) \/ WaitLoop(c) \/ WaitPost(c)
    \/ WaitCheck(c) \/ WaitSleep(c) \/ WaitWake(c) \/ WaitDone(c)

------------------------------------------------------------------------------
\* agoReleaseGraph.  external_count-- is a read and a write.
BeginRelease(c) ==
    /\ "release" \in may[c]
    /\ Step(c, "idle", "r_lock")
    /\ GraphIsValid
    /\ op' = [op EXCEPT ![c] = "release"]
    /\ UNCHANGED <<result, sems, locks, external_count, seen, counts, states, graph, status, calls, history>>

\* Seeded fault: the reference is dropped without context->cs.
ReleaseUnlocked(c) ==
    /\ Step(c, "r_lock", "r_read")
    /\ OnlyPc

ReleaseLock(c) ==
    /\ Step(c, "r_lock", "r_read")
    /\ EnterContext(c)
    /\ UNCHANGED <<op, result, sems, graphCS, external_count, seen, counts, states, graph, status, calls, history>>

ReleaseRead(c) ==
    /\ Step(c, "r_read", "r_write")
    /\ seen' = [seen EXCEPT ![c] = external_count]
    /\ UNCHANGED <<op, result, sems, locks, external_count, counts, states, graph, status, calls, history>>

ReleaseWrite(c) ==
    /\ Step(c, "r_write", "r_test")
    /\ external_count' = seen[c] - 1
    /\ UNCHANGED <<op, result, sems, locks, seen, counts, states, graph, status, calls, history>>

ReleaseTest(c) ==
    /\ Branch(c, "r_test", external_count = 0, "r_graph", "r_leave")
    /\ OnlyPc

ReleaseLockGraph(c) ==
    /\ Branch(c, "r_graph", Threaded, "r_term", "r_shutdown")
    /\ EnterGraph(c)
    /\ OnlyGraphCS

ReleaseTerminate(c) ==
    /\ Step(c, "r_term", "r_post")
    /\ threadThreadTerminationState' = 1
    /\ UNCHANGED <<op, result, sems, locks, external_count, seen, counts, threadThreadWaitState, graph, status, calls, history>>

ReleasePost(c) ==
    /\ Step(c, "r_post", "r_loop")
    /\ ReleaseSemaphore("to")
    /\ OnlySems

\* Seeded faults: the end of the thread is not waited for; or it is waited for,
\* but the semaphore is released only once.
ReleaseLoopNoWait(c) ==
    /\ Step(c, "r_loop", "r_closeTo")
    /\ OnlyPc

ReleaseLoopOnce(c) ==
    /\ Branch(c, "r_loop", threadThreadTerminationState = 1, "r_loop", "r_closeTo")
    /\ OnlyPc

ReleaseLoop(c) ==
    /\ Branch(c, "r_loop", threadThreadTerminationState = 1, "r_post", "r_closeTo")
    /\ OnlyPc

ReleaseClose(c) ==
    /\ \/ Step(c, "r_closeTo", "r_closeFrom") /\ CloseHandle("to")
       \/ Step(c, "r_closeFrom", "r_join") /\ CloseHandle("from")
    /\ OnlySems

\* CloseHandle of a thread joins it on POSIX, and does not wait on Windows.
ReleaseJoin(c) ==
    /\ Step(c, "r_join", "r_shutdown")
    /\ Win32 \/ pc[Thread] = "t_exit"
    /\ OnlyPc

\* The nodes are shut down and the graph leaves the context's list.
ReleaseShutdown(c) ==
    /\ Step(c, "r_shutdown", "r_leave")
    /\ LeaveGraph
    /\ OnlyGraphCS

ReleaseLeave(c) ==
    /\ Step(c, "r_leave", "gone")
    /\ LeaveContext
    /\ UNCHANGED <<op, result, sems, graphCS, external_count, seen, counts, states, graph, status, calls, history>>

Release(c) ==
    \/ ReleaseLock(c) \/ ReleaseRead(c) \/ ReleaseWrite(c) \/ ReleaseTest(c)
    \/ ReleaseLockGraph(c) \/ ReleaseTerminate(c) \/ ReleasePost(c) \/ ReleaseLoop(c)
    \/ ReleaseClose(c) \/ ReleaseJoin(c) \/ ReleaseShutdown(c) \/ ReleaseLeave(c)

------------------------------------------------------------------------------
\* The steps of a client inside a call, and the start of a call.
ClientNext(c) == Verify(c) \/ Process(c) \/ CreateNode(c) \/ Schedule(c) \/ Wait(c) \/ Release(c)
ClientBegins(c) == BeginCall(c) \/ BeginRelease(c)

Wakeup ==
    /\ \E s \in Semaphores : SpuriousWakeup(s)
    /\ UNCHANGED <<pc, op, result, locks, external_count, seen, counts, states, graph, status, calls, history>>

Next ==
    \/ ThreadNext
    \/ \E c \in Clients : ClientNext(c) \/ ClientBegins(c)
    \/ Wakeup

\* A thread that is inside the library keeps running; whether a client calls
\* it again is the client's affair, and nothing is owed a spurious wakeup.
Fairness == WF_vars(ThreadNext) /\ \A c \in Clients : WF_vars(ClientNext(c))

Spec == Init /\ [][Next]_vars
FairSpec == Spec /\ Fairness

------------------------------------------------------------------------------
(***************************************************************************)
(* Properties.                                                             *)
(***************************************************************************)
\* Every variable has the type the C++ declaration gives it, and the API's
\* error paths leave the counters in range.
TypeOK ==
    /\ pc \in [Actors -> Labels]
    /\ op \in [Actors -> APICalls \cup {"none", "thread", "release"}]
    /\ result \in [Actors -> Statuses]
    /\ SemTypeOK
    /\ graphCS \in Actors \cup {NoOwner} /\ contextCS \in Actors \cup {NoOwner}
    /\ external_count \in Int
    /\ seen \in [Actors -> Int]
    /\ threadScheduleCount \in Int /\ threadExecuteCount \in Nat
    /\ threadThreadWaitState \in 0..2 /\ threadThreadTerminationState \in 0..2
    /\ wellFormed \in BOOLEAN /\ verified \in BOOLEAN
    /\ isReadyToExecute \in BOOLEAN /\ covered \in BOOLEAN
    /\ status \in Statuses
    /\ left \in 0..MaxCalls /\ may \in [Clients -> SUBSET (APICalls \cup {"release"})]
    /\ fresh \in BOOLEAN /\ lastDone \in BOOLEAN /\ refused \in Nat

\* The steps thread a takes between entering and leaving graph->cs.
InGraph(a) ==
    \/ pc[a] \in {"v_context", "v_body", "p_test", "p_exec", "p_leave", "e_add", "e_mark",
                  "r_term", "r_post", "r_loop", "r_closeTo", "r_closeFrom", "r_join", "r_shutdown"}
    \/ pc[a] = "v_lock" /\ op[a] \notin {"verify", "schedule"}
    \/ pc[a] = "v_set" /\ op[a] # "verify"

\* No two threads are inside the graph's critical section: an execution, a
\* verification, an edit and the shutdown of the nodes exclude one another.
GraphExclusive == \A a, b \in Actors : InGraph(a) /\ InGraph(b) => a = b

\* When the nodes of a graph are shut down its thread has left its loop for
\* good: it runs no kernel and touches no node again.
ShutdownQuiescent ==
    \A c \in Clients : pc[c] \in {"r_closeTo", "r_closeFrom", "r_join", "r_shutdown"} =>
        pc[Thread] \in {"t_last", "t_exit"}

\* The client that takes the graph down is the last that held a reference:
\* every other client has returned from its vxReleaseGraph, so none of them is
\* inside a call on the graph, or takes it down a second time.
Destroying(c) == pc[c] \in {"r_graph", "r_term", "r_post", "r_loop", "r_closeTo", "r_closeFrom", "r_join", "r_shutdown"}
LastHolderDestroys == \A c \in Clients : Destroying(c) => \A d \in Clients \ {c} : pc[d] = "gone"

\* A graph is executed only if every edit made to it was seen by a
\* verification: agoProcessGraph verifies an unverified graph first.  (Except an
\* edit between the end of a verification and its assignment of graph->verified.)
ExecutesOnlyVerified == \A a \in Actors : pc[a] = "p_exec" => covered

\* The permit of a schedule is with the semaphore, with the thread, or has
\* been executed; only a call that reported failure posts none.
ThreadHasPermit ==
    \/ pc[Thread] = "t_asleep" /\ Thread \notin sleeping["to"]
    \/ pc[Thread] \in {"t_check", "t_status", "t_count", "p_valid", "p_lock", "p_test", "p_exec", "p_leave",
                       "v_lock", "v_context", "v_body", "v_set"}
Posting(c) ==
    \/ pc[c] \in {"s_test", "s_post"}
    \/ op[c] = "schedule" /\ pc[c] \in {"v_lock", "v_context", "v_body", "v_set"}
NoLostSchedule ==
    threadThreadTerminationState = 0 =>
        threadScheduleCount - Cardinality({c \in Clients : Posting(c)}) - refused
            <= threadExecuteCount + permits["to"] + (IF ThreadHasPermit THEN 1 ELSE 0)

\* vxWaitGraph returns only when an execution that began after the last
\* successful vxScheduleGraph has completed.
WaitSeesLastExecution == \A c \in Clients : pc[c] = "w_done" => lastDone

\* vxWaitGraph returns, unless a schedule call has reported failure, or two
\* clients are in vxWaitGraph at once at some time: the thread informs the caller
\* once for an execution, and one of the two gets that permit.
Waiting(c) == op[c] = "wait" /\ pc[c] # "idle"
SomebodyWaits == \E c \in Clients : Waiting(c)
WaitTogether == \E c, d \in Clients : c # d /\ Waiting(c) /\ Waiting(d)
WaitReturns == (SomebodyWaits ~> (~SomebodyWaits \/ refused > 0)) \/ <>WaitTogether

\* vxReleaseGraph returns.
ReleaseReturns == \A c \in Clients : pc[c] = "r_lock" ~> pc[c] = "gone"
==============================================================================
