------------------------ MODULE GraphScheduler_proofs ------------------------
EXTENDS GraphScheduler, TLAPS, FiniteSetTheorems

LEMMA TypeInit == Init => TypeOK
<1> SUFFICES ASSUME NEW start \in Starts, InitFrom(start) PROVE TypeOK
    BY DEF Init
<1>0. start.users \subseteq Actors /\ start.calls \in 0..MaxCalls /\ start.may \in [Clients -> SUBSET (APICalls \cup {"release"})]
    BY SchedulerAssumption DEF Clients
<1>1. Cardinality(start.users) \in Nat
    BY <1>0, FS_Subset, FS_CardinalityType, PlatformAssumption
<1>2. SemTypeOK
    <2>1. permits \in [Semaphores -> 0..SemLimit]
        BY PlatformAssumption DEF InitFrom, CreateSemaphores
    <2>2. sleeping \in [Semaphores -> SUBSET Actors]
        BY DEF InitFrom, CreateSemaphores
    <2>3. open \in [Semaphores -> BOOLEAN]
        BY Zenon DEF InitFrom, CreateSemaphores
    <2> QED
        BY <2>1, <2>2, <2>3 DEF InitFrom, CreateSemaphores, SemTypeOK
<1>3. pc \in [Actors -> Labels] /\ op \in [Actors -> APICalls \cup {"none", "thread", "release"}]
    BY DEF InitFrom, Labels
<1>4. result \in [Actors -> Statuses] /\ seen \in [Actors -> Int] /\ external_count \in Int
    BY <1>1 DEF InitFrom, Statuses
<1>5. left \in 0..MaxCalls /\ threadScheduleCount \in Int /\ threadExecuteCount \in Nat /\ refused \in Nat
    BY <1>0 DEF InitFrom
<1>6. threadThreadWaitState \in 0..2 /\ threadThreadTerminationState \in 0..2 /\ status \in Statuses
    BY DEF InitFrom, Statuses
<1> QED
    BY <1>0, <1>2, <1>3, <1>4, <1>5, <1>6 DEF InitFrom, TypeOK

USE PlatformAssumption, SchedulerAssumption DEF calls

LEMMA SemType ==
    ASSUME SemTypeOK, NEW s \in Semaphores, NEW a \in Actors,
           ReleaseSemaphore(s) \/ WaitForSingleObject(a, s) \/ SpuriousWakeup(s) \/ CloseHandle(s)
    PROVE  SemTypeOK'
<1>1. CASE ReleaseSemaphore(s)
    <2>1. CASE OnClosed(s)
        BY <2>1 DEF OnClosed, sems, SemTypeOK
    <2>2. CASE open[s] /\ sleeping[s] # {} /\ ~OnClosed(s)
        BY <1>1, <2>2 DEF ReleaseSemaphore, OnClosed, sems, SemTypeOK
    <2>3. CASE open[s] /\ sleeping[s] = {} /\ ~OnClosed(s)
        <3>1. CASE Win32 /\ permits[s] < SemLimit
            BY <1>1, <2>3, <3>1 DEF ReleaseSemaphore, SemTypeOK
        <3>2. CASE ~(Win32 /\ permits[s] < SemLimit)
            BY <1>1, <2>3, <3>2 DEF ReleaseSemaphore, SemTypeOK
        <3> QED
            BY <3>1, <3>2
    <2> QED
        BY <1>1, <2>1, <2>2, <2>3 DEF ReleaseSemaphore
<1>2. CASE WaitForSingleObject(a, s)
    <2>1. CASE OnClosed(s)
        BY <2>1 DEF OnClosed, sems, SemTypeOK
    <2>2. CASE open[s] /\ permits[s] > 0
        BY <1>2, <2>2 DEF WaitForSingleObject, OnClosed, sems, SemTypeOK
    <2>3. CASE open[s] /\ permits[s] = 0
        BY <1>2, <2>3 DEF WaitForSingleObject, OnClosed, sems, SemTypeOK
    <2> QED
        BY <1>2, <2>1, <2>2, <2>3 DEF WaitForSingleObject
<1>3. CASE SpuriousWakeup(s)
    BY <1>3 DEF SpuriousWakeup, SemTypeOK
<1>4. CASE CloseHandle(s)
    BY <1>4 DEF CloseHandle, OnClosed, sems, SemTypeOK
<1> QED
    BY <1>1, <1>2, <1>3, <1>4

LEMMA TypeVerify ==
    ASSUME TypeOK, NEW a \in Actors, Verify(a)
    PROVE  TypeOK'
<1> USE DEF TypeOK, Step, Branch, Return, Returns, Forgets, Status, Labels, Statuses, APICalls, Clients, EnterGraph, LeaveGraph, EnterContext, LeaveContext, EnterCriticalSection, LeaveCriticalSection, Entered, sems, locks, counts, states, graph, history, OnlyPc, OnlySems, OnlyResult, OnlyGraphCS
<1>1. CASE VerifyLock(a)
    BY <1>1 DEF VerifyLock, SemTypeOK
<1>2. CASE VerifyBegin(a)
    BY <1>2 DEF VerifyBegin, SemTypeOK
<1>3. CASE VerifyBody(a)
    BY <1>3 DEF VerifyBody, SemTypeOK
<1>4. CASE VerifySet(a)
    BY <1>4 DEF VerifySet, SemTypeOK
<1> QED
    BY <1>1, <1>2, <1>3, <1>4 DEF Verify

LEMMA TypeProcess ==
    ASSUME TypeOK, NEW a \in Actors, Process(a)
    PROVE  TypeOK'
<1> USE DEF TypeOK, Step, Branch, Return, Returns, Forgets, Status, Labels, Statuses, APICalls, Clients, EnterGraph, LeaveGraph, EnterContext, LeaveContext, EnterCriticalSection, LeaveCriticalSection, Entered, sems, locks, counts, states, graph, history, OnlyPc, OnlySems, OnlyResult, OnlyGraphCS
<1>1. CASE ProcessValid(a)
    BY <1>1 DEF ProcessValid, SemTypeOK
<1>2. CASE ProcessLock(a)
    BY <1>2 DEF ProcessLock, SemTypeOK
<1>3. CASE ProcessTest(a)
    BY <1>3 DEF ProcessTest, SemTypeOK
<1>4. CASE ExecuteGraph(a)
    BY <1>4 DEF ExecuteGraph, SemTypeOK
<1>5. CASE ProcessLeave(a)
    BY <1>5 DEF ProcessLeave, SemTypeOK
<1> QED
    BY <1>1, <1>2, <1>3, <1>4, <1>5 DEF Process

LEMMA TypeCreateNode ==
    ASSUME TypeOK, NEW c \in Clients, CreateNode(c)
    PROVE  TypeOK'
<1> USE DEF TypeOK, Step, Branch, Return, Returns, Forgets, Status, Labels, Statuses, APICalls, Clients, EnterGraph, LeaveGraph, EnterContext, LeaveContext, EnterCriticalSection, LeaveCriticalSection, Entered, sems, locks, counts, states, graph, history, OnlyPc, OnlySems, OnlyResult, OnlyGraphCS
<1>1. CASE CreateNodeLock(c)
    BY <1>1 DEF CreateNodeLock, SemTypeOK
<1>2. CASE CreateNodeAdd(c)
    BY <1>2 DEF CreateNodeAdd, SemTypeOK
<1>3. CASE CreateNodeMark(c)
    BY <1>3 DEF CreateNodeMark, SemTypeOK
<1> QED
    BY <1>1, <1>2, <1>3 DEF CreateNode

LEMMA TypeSchedule ==
    ASSUME TypeOK, NEW c \in Clients, Schedule(c)
    PROVE  TypeOK'
<1> USE DEF TypeOK, Step, Branch, Return, Returns, Forgets, Status, Labels, Statuses, APICalls, Clients, EnterGraph, LeaveGraph, EnterContext, LeaveContext, EnterCriticalSection, LeaveCriticalSection, Entered, sems, locks, counts, states, graph, history, OnlyPc, OnlySems, OnlyResult, OnlyGraphCS
<1>1. CASE ScheduleRead(c)
    BY <1>1 DEF ScheduleRead, SemTypeOK
<1>2. CASE ScheduleWrite(c)
    BY <1>2 DEF ScheduleWrite, SemTypeOK
<1>3. CASE ScheduleTest(c)
    BY <1>3 DEF ScheduleTest, SemTypeOK
<1>4. CASE SchedulePost(c)
    <2>1. SemTypeOK'
        BY <1>4, SemType DEF SchedulePost, Semaphores
    <2> QED
        BY <1>4, <2>1 DEF SchedulePost
<1> QED
    BY <1>1, <1>2, <1>3, <1>4 DEF Schedule

LEMMA TypeWait ==
    ASSUME TypeOK, NEW c \in Clients, Wait(c)
    PROVE  TypeOK'
<1> USE DEF TypeOK, Step, Branch, Return, Returns, Forgets, Status, Labels, Statuses, APICalls, Clients, EnterGraph, LeaveGraph, EnterContext, LeaveContext, EnterCriticalSection, LeaveCriticalSection, Entered, sems, locks, counts, states, graph, history, OnlyPc, OnlySems, OnlyResult, OnlyGraphCS
<1>1. CASE WaitTest(c)
    BY <1>1 DEF WaitTest, SemTypeOK
<1>2. CASE WaitSet(c)
    BY <1>2 DEF WaitSet, SemTypeOK
<1>3. CASE WaitLoop(c)
    BY <1>3 DEF WaitLoop, SemTypeOK
<1>4. CASE WaitPost(c)
    <2>1. SemTypeOK'
        BY <1>4, SemType DEF WaitPost, Semaphores
    <2> QED
        BY <1>4, <2>1 DEF WaitPost
<1>5. CASE WaitCheck(c)
    BY <1>5 DEF WaitCheck, SemTypeOK
<1>6. CASE WaitSleep(c)
    <2>1. SemTypeOK'
        BY <1>6, SemType DEF WaitSleep, Semaphores
    <2> QED
        BY <1>6, <2>1 DEF WaitSleep
<1>7. CASE WaitWake(c)
    BY <1>7 DEF WaitWake, SemTypeOK
<1>8. CASE WaitDone(c)
    BY <1>8 DEF WaitDone, SemTypeOK
<1> QED
    BY <1>1, <1>2, <1>3, <1>4, <1>5, <1>6, <1>7, <1>8 DEF Wait

LEMMA TypeRelease ==
    ASSUME TypeOK, NEW c \in Clients, Release(c)
    PROVE  TypeOK'
<1> USE DEF TypeOK, Step, Branch, Return, Returns, Forgets, Status, Labels, Statuses, APICalls, Clients, EnterGraph, LeaveGraph, EnterContext, LeaveContext, EnterCriticalSection, LeaveCriticalSection, Entered, sems, locks, counts, states, graph, history, OnlyPc, OnlySems, OnlyResult, OnlyGraphCS
<1>1. CASE ReleaseLock(c)
    BY <1>1 DEF ReleaseLock, SemTypeOK
<1>2. CASE ReleaseRead(c)
    BY <1>2 DEF ReleaseRead, SemTypeOK
<1>3. CASE ReleaseWrite(c)
    BY <1>3 DEF ReleaseWrite, SemTypeOK
<1>4. CASE ReleaseTest(c)
    BY <1>4 DEF ReleaseTest, SemTypeOK
<1>5. CASE ReleaseLockGraph(c)
    BY <1>5 DEF ReleaseLockGraph, SemTypeOK
<1>6. CASE ReleaseTerminate(c)
    BY <1>6 DEF ReleaseTerminate, SemTypeOK
<1>7. CASE ReleasePost(c)
    <2>1. SemTypeOK'
        BY <1>7, SemType DEF ReleasePost, Semaphores
    <2> QED
        BY <1>7, <2>1 DEF ReleasePost
<1>8. CASE ReleaseLoop(c)
    BY <1>8 DEF ReleaseLoop, SemTypeOK
<1>9. CASE ReleaseClose(c)
    <2>1. SemTypeOK'
        BY <1>9, SemType DEF ReleaseClose, Semaphores
    <2> QED
        BY <1>9, <2>1 DEF ReleaseClose
<1>10. CASE ReleaseJoin(c)
    BY <1>10 DEF ReleaseJoin, SemTypeOK
<1>11. CASE ReleaseShutdown(c)
    BY <1>11 DEF ReleaseShutdown, SemTypeOK
<1>12. CASE ReleaseLeave(c)
    BY <1>12 DEF ReleaseLeave, SemTypeOK
<1> QED
    BY <1>1, <1>2, <1>3, <1>4, <1>5, <1>6, <1>7, <1>8, <1>9, <1>10, <1>11, <1>12 DEF Release

LEMMA TypeThread ==
    ASSUME TypeOK, ThreadNext
    PROVE  TypeOK'
<1> USE DEF TypeOK, Step, Branch, Return, Returns, Forgets, Status, Labels, Statuses, APICalls, Clients, EnterGraph, LeaveGraph, EnterContext, LeaveContext, EnterCriticalSection, LeaveCriticalSection, Entered, sems, locks, counts, states, graph, history, OnlyPc, OnlySems, OnlyResult, OnlyGraphCS
<1>1. CASE ThreadWait
    <2>1. SemTypeOK'
        BY <1>1, SemType DEF ThreadWait, Semaphores
    <2> QED
        BY <1>1, <2>1 DEF ThreadWait
<1>2. CASE ThreadWake
    BY <1>2 DEF ThreadWake, SemTypeOK
<1>3. CASE ThreadCheck
    BY <1>3 DEF ThreadCheck, SemTypeOK
<1>4. CASE ThreadStatus
    BY <1>4 DEF ThreadStatus, SemTypeOK
<1>5. CASE ThreadCount
    BY <1>5 DEF ThreadCount, SemTypeOK
<1>6. CASE ThreadInform
    <2>1. SemTypeOK'
        BY <1>6, SemType DEF ThreadInform, Semaphores
    <2> QED
        BY <1>6, <2>1 DEF ThreadInform
<1>7. CASE ThreadTerminate
    BY <1>7 DEF ThreadTerminate, SemTypeOK
<1>8. CASE ThreadLast
    <2>1. SemTypeOK'
        BY <1>8, SemType DEF ThreadLast, Semaphores
    <2> QED
        BY <1>8, <2>1 DEF ThreadLast
<1>9. CASE Verify(Thread) \/ Process(Thread)
    BY <1>9, TypeVerify, TypeProcess
<1> QED
    BY <1>1, <1>2, <1>3, <1>4, <1>5, <1>6, <1>7, <1>8, <1>9 DEF ThreadNext

LEMMA TypeBegins ==
    ASSUME TypeOK, NEW c \in Clients, ClientBegins(c)
    PROVE  TypeOK'
<1> USE DEF TypeOK, Step, Labels, APICalls, Clients, Begin, BeginRelease, sems, locks, counts, states, graph, history, OnlyPc, OnlySems, OnlyResult, OnlyGraphCS, SemTypeOK
<1>1. CASE BeginRelease(c)
    BY <1>1
<1>2. CASE BeginCall(c)
    BY <1>2 DEF BeginCall
<1> QED
    BY <1>1, <1>2 DEF ClientBegins

LEMMA TypeStep == TypeOK /\ [Next]_vars => TypeOK'
<1> SUFFICES ASSUME TypeOK, [Next]_vars PROVE TypeOK'
    OBVIOUS
<1>1. CASE ThreadNext
    BY <1>1, TypeThread
<1>2. ASSUME NEW c \in Clients, ClientNext(c) PROVE TypeOK'
    BY <1>2, TypeVerify, TypeProcess, TypeCreateNode, TypeSchedule, TypeWait, TypeRelease DEF ClientNext, Clients
<1>3. ASSUME NEW c \in Clients, ClientBegins(c) PROVE TypeOK'
    BY <1>3, TypeBegins
<1>4. CASE Wakeup
    <2>1. SemTypeOK'
        BY <1>4, SemType DEF Wakeup, TypeOK
    <2> QED
        BY <1>4, <2>1 DEF Wakeup, TypeOK, locks, counts, states, graph, history
<1>5. CASE UNCHANGED vars
    BY <1>5 DEF TypeOK, SemTypeOK, vars, sems, locks, counts, states, graph, history, OnlyPc, OnlySems, OnlyResult, OnlyGraphCS
<1> QED
    BY <1>1, <1>2, <1>3, <1>4, <1>5 DEF Next

\* Every reachable state is well typed, for any number of clients, either
\* platform and any semaphore limit.
THEOREM TypeCorrect == Spec => []TypeOK
    BY TypeInit, TypeStep, PTL DEF Spec
------------------------------------------------------------------------------
\* Once the thread has announced its end it takes no further step in its loop,
\* and a client that polls for that announcement has asked for it.
QuiescentInv ==
    /\ threadThreadTerminationState = 2 => pc[Thread] \in {"t_last", "t_exit"}
    /\ ~Threaded => pc[Thread] = "t_exit"
    /\ \A c \in Clients : pc[c] \in {"r_post", "r_loop"} => threadThreadTerminationState \in {1, 2}
    /\ ShutdownQuiescent

LEMMA QuiescentInit == Init => QuiescentInv
    BY SchedulerAssumption DEF Init, InitFrom, QuiescentInv, ShutdownQuiescent, Clients

LEMMA QuiescentVerify ==
    ASSUME TypeOK, QuiescentInv, NEW a \in Actors, Verify(a)
    PROVE  QuiescentInv'
    BY DEF TypeOK, QuiescentInv, ShutdownQuiescent, Clients, Verify, VerifyLock, VerifyBegin, VerifyBody, VerifySet, Step, states, OnlyPc, OnlySems, OnlyResult, OnlyGraphCS

LEMMA QuiescentProcess ==
    ASSUME TypeOK, QuiescentInv, NEW a \in Actors, Process(a)
    PROVE  QuiescentInv'
    BY DEF TypeOK, QuiescentInv, ShutdownQuiescent, Clients, Process, ProcessValid, ProcessLock, ProcessTest, ExecuteGraph, ProcessLeave, Step, Branch, Return, states, OnlyPc, OnlySems, OnlyResult, OnlyGraphCS

LEMMA QuiescentThread ==
    ASSUME TypeOK, QuiescentInv, ThreadNext
    PROVE  QuiescentInv'
<1> USE DEF TypeOK, QuiescentInv, ShutdownQuiescent, Clients, Step, Branch, states, OnlyPc, OnlySems, OnlyResult, OnlyGraphCS
<1>1. CASE ThreadWait \/ ThreadCheck \/ ThreadStatus \/ ThreadCount \/ ThreadInform \/ ThreadLast
    BY <1>1 DEF ThreadWait, ThreadCheck, ThreadStatus, ThreadCount, ThreadInform, ThreadLast
<1>2. CASE ThreadWake
    BY <1>2 DEF ThreadWake
<1>3. CASE ThreadTerminate
    BY <1>3 DEF ThreadTerminate
<1>4. CASE Verify(Thread) \/ Process(Thread)
    BY <1>4, QuiescentVerify, QuiescentProcess
<1> QED
    BY <1>1, <1>2, <1>3, <1>4 DEF ThreadNext

LEMMA QuiescentRelease ==
    ASSUME TypeOK, QuiescentInv, NEW c \in Clients, Release(c)
    PROVE  QuiescentInv'
<1> USE DEF TypeOK, QuiescentInv, ShutdownQuiescent, Clients, Step, Branch, states, OnlyPc, OnlySems, OnlyResult, OnlyGraphCS
<1>1. CASE ReleaseLock(c) \/ ReleaseRead(c) \/ ReleaseWrite(c) \/ ReleaseTest(c) \/ ReleaseLockGraph(c)
    BY <1>1 DEF ReleaseLock, ReleaseRead, ReleaseWrite, ReleaseTest, ReleaseLockGraph
<1>2. CASE ReleaseTerminate(c)
    BY <1>2 DEF ReleaseTerminate
<1>3. CASE ReleasePost(c)
    BY <1>3 DEF ReleasePost
<1>4. CASE ReleaseLoop(c)
    BY <1>4 DEF ReleaseLoop
<1>5. CASE ReleaseClose(c) \/ ReleaseJoin(c) \/ ReleaseShutdown(c) \/ ReleaseLeave(c)
    BY <1>5 DEF ReleaseClose, ReleaseJoin, ReleaseShutdown, ReleaseLeave
<1> QED
    BY <1>1, <1>2, <1>3, <1>4, <1>5 DEF Release

LEMMA QuiescentClient ==
    ASSUME TypeOK, QuiescentInv, NEW c \in Clients, ClientNext(c) \/ ClientBegins(c)
    PROVE  QuiescentInv'
<1> USE DEF TypeOK, QuiescentInv, ShutdownQuiescent, Clients, Step, Branch, states, OnlyPc, OnlySems, OnlyResult, OnlyGraphCS
<1>1. CASE Verify(c) \/ Process(c) \/ Release(c)
    BY <1>1, QuiescentVerify, QuiescentProcess, QuiescentRelease
<1>2. CASE CreateNode(c)
    BY <1>2 DEF CreateNode, CreateNodeLock, CreateNodeAdd, CreateNodeMark
<1>3. CASE Schedule(c)
    BY <1>3 DEF Schedule, ScheduleRead, ScheduleWrite, ScheduleTest, SchedulePost
<1>4. CASE Wait(c)
    BY <1>4 DEF Wait, WaitTest, WaitSet, WaitLoop, WaitPost, WaitCheck, WaitSleep, WaitWake, WaitDone
<1>5. CASE ClientBegins(c)
    BY <1>5 DEF ClientBegins, BeginCall, Begin, BeginRelease
<1> QED
    BY <1>1, <1>2, <1>3, <1>4, <1>5 DEF ClientNext

LEMMA QuiescentStep == TypeOK /\ QuiescentInv /\ [Next]_vars => QuiescentInv'
<1> SUFFICES ASSUME TypeOK, QuiescentInv, [Next]_vars PROVE QuiescentInv'
    OBVIOUS
<1>1. CASE Wakeup \/ UNCHANGED vars
    BY <1>1 DEF QuiescentInv, ShutdownQuiescent, Clients, Wakeup, vars, states
<1> QED
    BY <1>1, QuiescentThread, QuiescentClient DEF Next

\* On both platforms, and however the clients interleave, the graph's thread is
\* out of its loop when agoReleaseGraph shuts the nodes down.
THEOREM ShutdownIsQuiescent == Spec => []ShutdownQuiescent
<1>1. Init => QuiescentInv
    BY QuiescentInit
<1>2. QuiescentInv => ShutdownQuiescent
    BY DEF QuiescentInv
<1> QED
    BY <1>1, <1>2, QuiescentStep, TypeCorrect, PTL DEF Spec

------------------------------------------------------------------------------
\* The steps thread a takes between entering and leaving context->cs.
InContext(a) ==
    pc[a] \in {"v_body", "r_read", "r_write", "r_test", "r_graph", "r_term", "r_post", "r_loop",
               "r_closeTo", "r_closeFrom", "r_join", "r_shutdown", "r_leave"}

\* Who is inside a critical section owns it.  (The first conjunct tells the
\* callers of vxVerifyGraph apart: a schedule enters it without graph->cs.)
OwnerInv ==
    /\ \A c \in Clients : pc[c] \in {"s_read", "s_write", "s_test"} => op[c] = "schedule"
    /\ \A a \in Actors : InGraph(a) => graphCS = a
    /\ \A a \in Actors : InContext(a) => contextCS = a

LEMMA OwnerInit == Init => OwnerInv
    BY DEF Init, InitFrom, OwnerInv, InGraph, InContext, Clients

LEMMA OwnerVerify ==
    ASSUME Win32, TypeOK, OwnerInv, NEW a \in Actors, Verify(a)
    PROVE  OwnerInv'
<1> USE DEF TypeOK, OwnerInv, InGraph, InContext, Clients, Step, locks, EnterGraph, LeaveGraph, EnterContext, LeaveContext, EnterCriticalSection, LeaveCriticalSection, Entered, OnlyPc, OnlySems, OnlyResult, OnlyGraphCS
<1>1. CASE VerifyLock(a)
    BY <1>1 DEF VerifyLock
<1>2. CASE VerifyBegin(a)
    BY <1>2 DEF VerifyBegin
<1>3. CASE VerifyBody(a)
    BY <1>3 DEF VerifyBody
<1>4. CASE VerifySet(a)
    BY <1>4 DEF VerifySet
<1> QED
    BY <1>1, <1>2, <1>3, <1>4 DEF Verify

LEMMA OwnerProcess ==
    ASSUME Win32, TypeOK, OwnerInv, NEW a \in Actors, Process(a)
    PROVE  OwnerInv'
<1> USE DEF TypeOK, OwnerInv, InGraph, InContext, Clients, Step, Branch, Return, locks, EnterGraph, LeaveGraph, EnterCriticalSection, LeaveCriticalSection, Entered, OnlyPc, OnlySems, OnlyResult, OnlyGraphCS
<1>1. CASE ProcessValid(a)
    BY <1>1 DEF ProcessValid
<1>2. CASE ProcessLock(a)
    BY <1>2 DEF ProcessLock
<1>3. CASE ProcessTest(a) \/ ExecuteGraph(a)
    BY <1>3 DEF ProcessTest, ExecuteGraph
<1>4. CASE ProcessLeave(a)
    BY <1>4 DEF ProcessLeave
<1> QED
    BY <1>1, <1>2, <1>3, <1>4 DEF Process

LEMMA OwnerThread ==
    ASSUME Win32, TypeOK, OwnerInv, ThreadNext
    PROVE  OwnerInv'
<1>1. CASE Verify(Thread) \/ Process(Thread)
    BY <1>1, OwnerVerify, OwnerProcess
<1>2. CASE ~(Verify(Thread) \/ Process(Thread))
    BY <1>2 DEF ThreadNext, ThreadWait, ThreadWake, ThreadCheck, ThreadStatus, ThreadCount, ThreadInform, ThreadTerminate, ThreadLast,
        TypeOK, OwnerInv, InGraph, InContext, Clients, Step, Branch, locks, OnlyPc, OnlySems, OnlyResult, OnlyGraphCS
<1> QED
    BY <1>1, <1>2

LEMMA OwnerClient ==
    ASSUME Win32, TypeOK, OwnerInv, NEW c \in Clients, ClientNext(c) \/ ClientBegins(c)
    PROVE  OwnerInv'
<1> USE DEF TypeOK, OwnerInv, InGraph, InContext, Clients, Step, Branch, locks, EnterGraph, LeaveGraph, EnterContext, LeaveContext, EnterCriticalSection, LeaveCriticalSection, Entered, OnlyPc, OnlySems, OnlyResult, OnlyGraphCS
<1>1. CASE Verify(c) \/ Process(c)
    BY <1>1, OwnerVerify, OwnerProcess
<1>2. CASE CreateNode(c)
    <2>1. CASE CreateNodeLock(c)
        BY <2>1 DEF CreateNodeLock
    <2>2. CASE CreateNodeAdd(c)
        BY <2>2 DEF CreateNodeAdd
    <2>3. CASE CreateNodeMark(c)
        BY <2>3 DEF CreateNodeMark
    <2> QED
        BY <1>2, <2>1, <2>2, <2>3 DEF CreateNode
<1>3. CASE Schedule(c)
    BY <1>3 DEF Schedule, ScheduleRead, ScheduleWrite, ScheduleTest, SchedulePost
<1>4. CASE Wait(c)
    BY <1>4 DEF Wait, WaitTest, WaitSet, WaitLoop, WaitPost, WaitCheck, WaitSleep, WaitWake, WaitDone
<1>5. CASE Release(c)
    <2>1. CASE ReleaseLock(c) \/ ReleaseRead(c) \/ ReleaseWrite(c) \/ ReleaseTest(c)
        BY <2>1 DEF ReleaseLock, ReleaseRead, ReleaseWrite, ReleaseTest
    <2>2. CASE ReleaseLockGraph(c)
        BY <2>2 DEF ReleaseLockGraph
    <2>3. CASE ReleaseTerminate(c) \/ ReleasePost(c) \/ ReleaseLoop(c) \/ ReleaseClose(c) \/ ReleaseJoin(c)
        BY <2>3 DEF ReleaseTerminate, ReleasePost, ReleaseLoop, ReleaseClose, ReleaseJoin
    <2>4. CASE ReleaseShutdown(c) \/ ReleaseLeave(c)
        BY <2>4 DEF ReleaseShutdown, ReleaseLeave
    <2> QED
        BY <1>5, <2>1, <2>2, <2>3, <2>4 DEF Release
<1>6. CASE ClientBegins(c)
    BY <1>6 DEF ClientBegins, BeginCall, Begin, BeginRelease
<1> QED
    BY <1>1, <1>2, <1>3, <1>4, <1>5, <1>6 DEF ClientNext

LEMMA OwnerStep == Win32 /\ TypeOK /\ OwnerInv /\ [Next]_vars => OwnerInv'
<1> SUFFICES ASSUME Win32, TypeOK, OwnerInv, [Next]_vars PROVE OwnerInv'
    OBVIOUS
<1>1. CASE Wakeup \/ UNCHANGED vars
    BY <1>1 DEF OwnerInv, InGraph, InContext, Clients, Wakeup, vars, locks
<1> QED
    BY <1>1, OwnerThread, OwnerClient DEF Next

\* With the critical sections of Windows, executions, verifications, edits and
\* the shutdown of one graph exclude one another, whatever the clients call.
LEMMA OwnerCorrect == ASSUME Win32 PROVE Spec => []OwnerInv
<1>1. TypeOK /\ OwnerInv /\ [Next]_vars => OwnerInv'
    BY OwnerStep
<1> QED
    BY <1>1, OwnerInit, TypeCorrect, PTL DEF Spec

THEOREM GraphIsExclusive == ASSUME Win32 PROVE Spec => []GraphExclusive
<1>1. OwnerInv => GraphExclusive
    BY DEF OwnerInv, GraphExclusive
<1> QED
    BY <1>1, OwnerCorrect, PTL

------------------------------------------------------------------------------
\* The clients whose reference external_count still counts.
Holding == {c \in Clients : pc[c] \notin {"r_test", "r_leave", "gone"} /\ ~Destroying(c)}

\* external_count is exact, and a client that takes the graph down saw 0.
HolderInv ==
    /\ external_count = Cardinality(Holding)
    /\ \A c \in Clients : pc[c] = "r_write" => seen[c] = external_count
    /\ \A c \in Clients : Destroying(c) => external_count = 0

LEMMA HolderInit == Init => HolderInv
<1> SUFFICES ASSUME NEW start \in Starts, InitFrom(start) PROVE HolderInv
    BY DEF Init
<1>1. Holding = start.users
    <2>1. start.users \subseteq Clients
        OBVIOUS
    <2> QED
        BY <2>1 DEF InitFrom, Holding, Destroying, Clients
<1> QED
    BY <1>1 DEF InitFrom, HolderInv, Destroying, Clients

\* A step of a that leaves the counter alone, and that neither takes a out of
\* Holding nor makes it read the counter, keeps the invariant.
LEMMA HolderFrame ==
    ASSUME TypeOK, HolderInv, UNCHANGED external_count, NEW a \in Actors,
           NEW l, pc' = [pc EXCEPT ![a] = l], l # "r_write",
           \A c \in Clients : c # a => seen'[c] = seen[c],
           a \in Clients => (a \in Holding <=> a \in Holding'),
           a \in Clients /\ Destroying(a)' => Destroying(a) \/ external_count = 0
    PROVE  HolderInv'
<1>1. Holding' = Holding
    BY DEF Holding, Destroying, TypeOK
<1> QED
    BY <1>1 DEF HolderInv, Destroying, TypeOK, Clients

LEMMA HolderStep == Win32 /\ TypeOK /\ OwnerInv /\ HolderInv /\ [Next]_vars => HolderInv'
<1> SUFFICES ASSUME Win32, TypeOK, OwnerInv, HolderInv, [Next]_vars PROVE HolderInv'
    OBVIOUS
<1> USE DEF Holding, Destroying, Clients
<1>1. ASSUME NEW c \in Clients, ReleaseWrite(c) PROVE HolderInv'
    <2>1. Holding' = Holding \ {c} /\ c \in Holding
        BY <1>1 DEF ReleaseWrite, Step, TypeOK
    <2>2. IsFiniteSet(Holding)
        BY FS_Subset, PlatformAssumption
    <2>3. external_count' = Cardinality(Holding')
        <3>1. Cardinality(Holding \ {c}) = Cardinality(Holding) - 1
            BY <2>1, <2>2, FS_RemoveElement
        <3>2. external_count' = external_count - 1
            BY <1>1 DEF ReleaseWrite, HolderInv, Step
        <3> QED
            BY <2>1, <3>1, <3>2 DEF HolderInv
    <2>4. \A d \in Clients : d # c => pc'[d] = pc[d] /\ ~InContext(d)
        BY <1>1 DEF ReleaseWrite, Step, OwnerInv, InContext, TypeOK
    <2> QED
        BY <1>1, <2>3, <2>4 DEF ReleaseWrite, Step, HolderInv, InContext, TypeOK
<1>2. ASSUME NEW c \in Clients, ReleaseRead(c) PROVE HolderInv'
    <2>1. Holding' = Holding
        BY <1>2 DEF ReleaseRead, Step, TypeOK
    <2> QED
        BY <1>2, <2>1 DEF ReleaseRead, Step, HolderInv, TypeOK
<1>3. ASSUME NEW a \in Actors, Verify(a) \/ Process(a) PROVE HolderInv'
    BY <1>3, HolderFrame DEF Verify, VerifyLock, VerifyBegin, VerifyBody, VerifySet,
        Process, ProcessValid, ProcessLock, ProcessTest, ExecuteGraph, ProcessLeave, Step, Branch, Return, TypeOK, OnlyPc, OnlySems, OnlyResult, OnlyGraphCS
<1>4. CASE ThreadNext
    <2>1. CASE Verify(Thread) \/ Process(Thread)
        BY <2>1, <1>3, SchedulerAssumption
    <2>2. CASE ~(Verify(Thread) \/ Process(Thread))
        BY <1>4, <2>2, HolderFrame DEF ThreadNext, ThreadWait, ThreadWake, ThreadCheck, ThreadStatus, ThreadCount,
            ThreadInform, ThreadTerminate, ThreadLast, Step, Branch, TypeOK, OnlyPc, OnlySems, OnlyResult, OnlyGraphCS
    <2> QED
        BY <2>1, <2>2
<1>5. ASSUME NEW c \in Clients, CreateNode(c) \/ Wait(c) \/ ClientBegins(c) PROVE HolderInv'
    <2>1. CASE CreateNode(c)
        BY <2>1, HolderFrame DEF CreateNode, CreateNodeLock, CreateNodeAdd, CreateNodeMark, Step, TypeOK, OnlyPc, OnlyGraphCS
    <2>2. CASE Wait(c)
        BY <2>2, HolderFrame DEF Wait, WaitTest, WaitSet, WaitLoop, WaitPost, WaitCheck, WaitSleep, WaitWake, WaitDone,
            Step, Branch, TypeOK, OnlyPc, OnlySems, OnlyResult
    <2>3. CASE ClientBegins(c)
        BY <2>3, HolderFrame DEF ClientBegins, BeginCall, Begin, BeginRelease, Step, TypeOK, OnlyPc
    <2> QED
        BY <1>5, <2>1, <2>2, <2>3
<1>6. ASSUME NEW c \in Clients, Schedule(c) PROVE HolderInv'
    BY <1>6, HolderFrame DEF Schedule, ScheduleRead, ScheduleWrite, ScheduleTest, SchedulePost, Step, TypeOK, OnlyPc, OnlySems
<1>7. ASSUME NEW c \in Clients, Release(c), ~ReleaseRead(c), ~ReleaseWrite(c) PROVE HolderInv'
    BY <1>7, HolderFrame DEF Release, ReleaseLock, ReleaseTest, ReleaseLockGraph, ReleaseTerminate, ReleasePost,
        ReleaseLoop, ReleaseClose, ReleaseJoin, ReleaseShutdown, ReleaseLeave, Step, Branch, TypeOK, OnlyPc, OnlySems, OnlyResult, OnlyGraphCS
<1>8. CASE Wakeup \/ UNCHANGED vars
    BY <1>8 DEF HolderInv, Wakeup, vars
<1> QED
    BY <1>1, <1>2, <1>3, <1>4, <1>5, <1>6, <1>7, <1>8 DEF Next, ClientNext

\* With the critical sections of Windows a graph is taken down by the last
\* client that held a reference, when every other client is done with it.
THEOREM LastHolderReleases == ASSUME Win32 PROVE Spec => []LastHolderDestroys
<1>1. TypeOK /\ OwnerInv /\ HolderInv => LastHolderDestroys
    <2> SUFFICES ASSUME TypeOK, OwnerInv, HolderInv,
                        NEW c \in Clients, Destroying(c), NEW d \in Clients \ {c}
                 PROVE  pc[d] = "gone"
        BY DEF LastHolderDestroys
    <2>1. Holding = {}
        BY FS_EmptySet, FS_Subset, PlatformAssumption DEF HolderInv, Holding, Clients
    <2>2. ~InContext(d)
        BY DEF OwnerInv, InContext, Destroying, Clients
    <2> QED
        BY <2>1, <2>2 DEF Holding, InContext, Destroying
<1>2. TypeOK /\ OwnerInv /\ HolderInv /\ [Next]_vars => HolderInv'
    BY HolderStep
<1> QED
    BY <1>1, <1>2, HolderInit, OwnerCorrect, TypeCorrect, PTL DEF Spec

------------------------------------------------------------------------------
\* While a verification has yet to assign graph->verified, every edit counts as
\* seen (the exception in ExecutesOnlyVerified); otherwise a graph that is marked
\* as verified has an edit no verification saw only until agoCreateNode, which
\* holds graph->cs, marks it again.
CoverInv ==
    /\ (\E a \in Actors : pc[a] = "v_set") => covered
    /\ verified => covered \/ \E c \in Clients : pc[c] = "e_mark"
    /\ ExecutesOnlyVerified

LEMMA CoverInit == Init => CoverInv
    BY DEF Init, InitFrom, CoverInv, ExecutesOnlyVerified

LEMMA CoverVerify ==
    ASSUME TypeOK, OwnerInv, CoverInv, NEW a \in Actors, Verify(a)
    PROVE  CoverInv'
<1> USE DEF TypeOK, CoverInv, ExecutesOnlyVerified, Clients, Step, OnlyGraphCS
<1>1. CASE VerifyLock(a)
    BY <1>1 DEF VerifyLock, graph
<1>2. CASE VerifyBegin(a)
    BY <1>2 DEF VerifyBegin
<1>3. CASE VerifyBody(a)
    BY <1>3 DEF VerifyBody
<1>4. CASE VerifySet(a)
    BY <1>4 DEF VerifySet
<1> QED
    BY <1>1, <1>2, <1>3, <1>4 DEF Verify

LEMMA CoverProcess ==
    ASSUME TypeOK, OwnerInv, CoverInv, NEW a \in Actors, Process(a)
    PROVE  CoverInv'
<1> USE DEF TypeOK, CoverInv, ExecutesOnlyVerified, Clients, Step, Branch, Return, graph, OnlyResult, OnlyGraphCS
<1>1. CASE ProcessValid(a) \/ ProcessLock(a) \/ ExecuteGraph(a) \/ ProcessLeave(a)
    BY <1>1 DEF ProcessValid, ProcessLock, ExecuteGraph, ProcessLeave
<1>2. CASE ProcessTest(a)
    <2>1. ASSUME NEW c \in Clients, pc[c] = "e_mark" PROVE FALSE
        BY <1>2, <2>1 DEF ProcessTest, OwnerInv, InGraph
    <2> QED
        BY <1>2, <2>1 DEF ProcessTest
<1> QED
    BY <1>1, <1>2 DEF Process

LEMMA CoverThread ==
    ASSUME TypeOK, OwnerInv, CoverInv, ThreadNext
    PROVE  CoverInv'
<1>1. CASE Verify(Thread) \/ Process(Thread)
    BY <1>1, CoverVerify, CoverProcess
<1>2. CASE ~(Verify(Thread) \/ Process(Thread))
    BY <1>2 DEF ThreadNext, ThreadWait, ThreadWake, ThreadCheck, ThreadStatus, ThreadCount, ThreadInform, ThreadTerminate, ThreadLast,
        TypeOK, CoverInv, ExecutesOnlyVerified, Clients, Step, Branch, graph, OnlyPc, OnlySems
<1> QED
    BY <1>1, <1>2

LEMMA CoverClient ==
    ASSUME TypeOK, OwnerInv, CoverInv, NEW c \in Clients, ClientNext(c) \/ ClientBegins(c)
    PROVE  CoverInv'
<1> USE DEF TypeOK, CoverInv, ExecutesOnlyVerified, Clients, Step, Branch, graph, OnlyPc, OnlySems, OnlyResult, OnlyGraphCS
<1>1. CASE Verify(c) \/ Process(c)
    BY <1>1, CoverVerify, CoverProcess
<1>2. CASE CreateNode(c)
    <2>1. CASE CreateNodeLock(c) \/ CreateNodeMark(c)
        BY <2>1 DEF CreateNodeLock, CreateNodeMark
    <2>2. CASE CreateNodeAdd(c)
        <3>1. \A a \in Actors : pc[a] # "p_exec"
            BY <2>2 DEF CreateNodeAdd, OwnerInv, InGraph
        <3> QED
            BY <2>2, <3>1 DEF CreateNodeAdd
    <2> QED
        BY <1>2, <2>1, <2>2 DEF CreateNode
<1>3. CASE Schedule(c)
    BY <1>3 DEF Schedule, ScheduleRead, ScheduleWrite, ScheduleTest, SchedulePost
<1>4. CASE Wait(c)
    BY <1>4 DEF Wait, WaitTest, WaitSet, WaitLoop, WaitPost, WaitCheck, WaitSleep, WaitWake, WaitDone
<1>5. CASE Release(c)
    BY <1>5 DEF Release, ReleaseLock, ReleaseRead, ReleaseWrite, ReleaseTest, ReleaseLockGraph, ReleaseTerminate, ReleasePost,
        ReleaseLoop, ReleaseClose, ReleaseJoin, ReleaseShutdown, ReleaseLeave
<1>6. CASE ClientBegins(c)
    BY <1>6 DEF ClientBegins, BeginCall, Begin, BeginRelease
<1> QED
    BY <1>1, <1>2, <1>3, <1>4, <1>5, <1>6 DEF ClientNext

\* With the critical sections of Windows a graph is executed only when a verification
\* saw every edit of it: agoProcessGraph tests graph->verified under the lock that
\* agoCreateNode holds until it has reset it.
THEOREM VerifiedBeforeExecuted == ASSUME Win32 PROVE Spec => []ExecutesOnlyVerified
<1>1. TypeOK /\ OwnerInv /\ CoverInv /\ [Next]_vars => CoverInv'
    <2> SUFFICES ASSUME TypeOK, OwnerInv, CoverInv, [Next]_vars PROVE CoverInv'
        OBVIOUS
    <2>1. CASE Wakeup \/ UNCHANGED vars
        BY <2>1 DEF CoverInv, ExecutesOnlyVerified, Wakeup, vars, graph
    <2> QED
        BY <2>1, CoverThread, CoverClient DEF Next
<1>2. CoverInv => ExecutesOnlyVerified
    BY DEF CoverInv
<1> QED
    BY <1>1, <1>2, CoverInit, OwnerCorrect, TypeCorrect, PTL DEF Spec

------------------------------------------------------------------------------
\* The clients whose schedule call has counted its schedule and not yet posted it,
\* and those that are about to count it.
Posters == {c \in Clients : Posting(c)}
Counters == {c \in Clients : pc[c] \in {"s_read", "s_write"}}

\* What the count of schedules is, or becomes when a client writes back what it has read.
Counts == {threadScheduleCount} \cup {seen[c] : c \in {b \in Clients : pc[b] = "s_write"}}
Held == IF ThreadHasPermit THEN 1 ELSE 0

\* The permits: only the thread takes them.  The counts: no more than the calls made,
\* and each of them satisfies NoLostSchedule - an update that is lost makes the
\* count smaller, but a client may still write back a larger one.
PermitInv ==
    /\ op[Thread] = "thread"
    /\ sleeping["to"] \subseteq {Thread}
    /\ Thread \in sleeping["to"] => pc[Thread] = "t_asleep"
CountInv ==
    \A v \in Counts :
        /\ v + left + Cardinality(Counters) <= MaxCalls
        /\ threadThreadTerminationState = 0 =>
               v - Cardinality(Posters) - refused <= threadExecuteCount + permits["to"] + Held

LEMMA PermitStep == Win32 /\ TypeOK /\ PermitInv /\ [Next]_vars => PermitInv'
<1> SUFFICES ASSUME Win32, TypeOK, PermitInv, [Next]_vars PROVE PermitInv'
    OBVIOUS
<1> USE DEF TypeOK, PermitInv, Clients, Step, Branch, OnlyPc, OnlySems, OnlyResult, OnlyGraphCS
<1>1. ASSUME NEW a \in Actors, Verify(a) \/ Process(a) PROVE PermitInv'
    BY <1>1 DEF Verify, VerifyLock, VerifyBegin, VerifyBody, VerifySet,
        Process, ProcessValid, ProcessLock, ProcessTest, ExecuteGraph, ProcessLeave, sems
<1>2. CASE ThreadNext
    <2>1. CASE ThreadWait
        BY <2>1 DEF ThreadWait, WaitForSingleObject, OnClosed, sems, SemTypeOK, Semaphores
    <2>2. CASE ThreadInform \/ ThreadLast
        BY <2>2 DEF ThreadInform, ThreadLast, ReleaseSemaphore, OnClosed, sems, SemTypeOK, Semaphores
    <2>3. CASE ThreadWake \/ ThreadCheck \/ ThreadStatus \/ ThreadCount \/ ThreadTerminate
        BY <2>3 DEF ThreadWake, ThreadCheck, ThreadStatus, ThreadCount, ThreadTerminate, sems
    <2> QED
        BY <1>1, <1>2, <2>1, <2>2, <2>3 DEF ThreadNext
<1>3. ASSUME NEW c \in Clients, CreateNode(c) \/ ClientBegins(c) PROVE PermitInv'
    BY <1>3 DEF CreateNode, CreateNodeLock, CreateNodeAdd, CreateNodeMark, ClientBegins, BeginCall, Begin, BeginRelease, sems
<1>4. ASSUME NEW c \in Clients, Schedule(c) PROVE PermitInv'
    <2>1. CASE SchedulePost(c)
        BY <2>1 DEF SchedulePost, ReleaseSemaphore, OnClosed, sems, SemTypeOK, Semaphores
    <2>2. CASE ~ SchedulePost(c)
        BY <1>4, <2>2 DEF Schedule, ScheduleRead, ScheduleWrite, ScheduleTest, sems
    <2> QED
        BY <2>1, <2>2
<1>5. ASSUME NEW c \in Clients, Wait(c) PROVE PermitInv'
    <2>1. CASE WaitPost(c)
        BY <2>1 DEF WaitPost, ReleaseSemaphore, OnClosed, sems, SemTypeOK, Semaphores
    <2>2. CASE WaitSleep(c)
        BY <2>2 DEF WaitSleep, WaitForSingleObject, OnClosed, sems, SemTypeOK, Semaphores
    <2>3. CASE ~ WaitPost(c) /\ ~ WaitSleep(c)
        BY <1>5, <2>3 DEF Wait, WaitTest, WaitSet, WaitLoop, WaitCheck, WaitWake, WaitDone, sems
    <2> QED
        BY <2>1, <2>2, <2>3
<1>6. ASSUME NEW c \in Clients, Release(c) PROVE PermitInv'
    <2>1. CASE ReleasePost(c)
        BY <2>1 DEF ReleasePost, ReleaseSemaphore, OnClosed, sems, SemTypeOK, Semaphores
    <2>2. CASE ReleaseClose(c)
        BY <2>2 DEF ReleaseClose, CloseHandle, OnClosed, sems
    <2>3. CASE ~ ReleasePost(c) /\ ~ ReleaseClose(c)
        BY <1>6, <2>3 DEF Release, ReleaseLock, ReleaseRead, ReleaseWrite, ReleaseTest, ReleaseLockGraph,
            ReleaseTerminate, ReleaseLoop, ReleaseJoin, ReleaseShutdown, ReleaseLeave, sems
    <2> QED
        BY <2>1, <2>2, <2>3
<1>7. CASE Wakeup \/ UNCHANGED vars
    BY <1>7 DEF Wakeup, SpuriousWakeup, vars, sems
<1> QED
    BY <1>1, <1>2, <1>3, <1>4, <1>5, <1>6, <1>7 DEF Next, ClientNext

\* Both numbers are of finite sets; a step of one client changes each by that client at most.
LEMMA CountsAreFinite ==
    /\ IsFiniteSet(Posters) /\ Cardinality(Posters) \in Nat
    /\ IsFiniteSet(Counters) /\ Cardinality(Counters) \in Nat
BY FS_Subset, FS_CardinalityType DEF Posters, Counters, Clients

\* A step that counts nothing, takes nobody out of Posters and no permit away keeps the invariant.
LEMMA CountFrame ==
    ASSUME TypeOK, TypeOK', CountInv, UNCHANGED <<threadScheduleCount, threadExecuteCount, refused>>, left' <= left,
           Counters' = Counters, Posters \subseteq Posters',
           \A c \in Clients : pc'[c] = "s_write" => pc[c] = "s_write" /\ seen'[c] = seen[c],
           threadThreadTerminationState' = 0 => threadThreadTerminationState = 0
                                                /\ permits["to"] + Held <= permits'["to"] + Held'
    PROVE  CountInv'
<1> DEFINE P == Cardinality(Posters)
           Q == Cardinality(Posters')
<1>1. P \in Nat /\ Q \in Nat /\ P <= Q
    <2>1. IsFiniteSet(Posters')
        BY FS_Subset DEF Posters, Clients
    <2> QED
        BY <2>1, FS_Subset, FS_CardinalityType
<1>2. Cardinality(Counters) \in Nat
    BY CountsAreFinite
<1>3. Counts' \subseteq Counts /\ Counts \subseteq Int
    BY DEF Counts, TypeOK, Clients
<1>4. permits["to"] \in Nat /\ permits'["to"] \in Nat /\ Held \in {0, 1} /\ Held' \in {0, 1}
    BY DEF TypeOK, SemTypeOK, Semaphores, Held
<1> HIDE DEF P, Q
<1>5. SUFFICES ASSUME NEW v \in Counts
               PROVE  /\ v + left' + Cardinality(Counters) <= MaxCalls
                      /\ threadThreadTerminationState' = 0 =>
                             v - Q - refused <= threadExecuteCount + permits'["to"] + Held'
    BY <1>3 DEF CountInv, Q
<1>6. v \in Int /\ left \in Nat /\ left' \in Nat /\ refused \in Nat /\ threadExecuteCount \in Nat
    BY <1>3 DEF TypeOK
<1>7. /\ v + left + Cardinality(Counters) <= MaxCalls
      /\ threadThreadTerminationState = 0 => v - P - refused <= threadExecuteCount + permits["to"] + Held
    BY DEF CountInv, P
<1>8. v + left' + Cardinality(Counters) <= MaxCalls
    BY <1>2, <1>6, <1>7
<1>9. ASSUME threadThreadTerminationState' = 0 PROVE v - Q - refused <= threadExecuteCount + permits'["to"] + Held'
    BY <1>1, <1>4, <1>6, <1>7, <1>9
<1> QED
    BY <1>8, <1>9

\* A client that has posted its schedule, or was refused, is one Poster less, and the
\* permit it has posted or the refusal makes up for it.
LEMMA PosterLeaves ==
    ASSUME TypeOK, TypeOK', CountInv, NEW c \in Posters, Posters' = Posters \ {c}, Counters' = Counters,
           UNCHANGED <<threadScheduleCount, threadExecuteCount, left, seen, threadThreadTerminationState>>,
           \A d \in Clients : pc'[d] = "s_write" <=> pc[d] = "s_write",
           permits["to"] + Held + refused + 1 <= permits'["to"] + Held' + refused'
    PROVE  CountInv'
<1> DEFINE P == Cardinality(Posters)
           Q == Cardinality(Posters')
<1>1. P \in Nat /\ Q = P - 1
    BY CountsAreFinite, FS_RemoveElement
<1>2. Counts' = Counts /\ Counts \subseteq Int
    BY DEF Counts, TypeOK, Clients
<1>3. permits["to"] \in Nat /\ permits'["to"] \in Nat /\ Held \in {0, 1} /\ Held' \in {0, 1}
    BY DEF TypeOK, SemTypeOK, Semaphores, Held
<1> HIDE DEF P, Q
<1>4. SUFFICES ASSUME NEW v \in Counts, threadThreadTerminationState = 0
               PROVE  v - Q - refused' <= threadExecuteCount + permits'["to"] + Held'
    BY <1>2 DEF CountInv, Q
<1>5. v \in Int /\ refused \in Nat /\ refused' \in Nat /\ threadExecuteCount \in Nat
    BY <1>2 DEF TypeOK
<1>6. v - P - refused <= threadExecuteCount + permits["to"] + Held
    BY <1>4 DEF CountInv, P
<1> QED
    BY <1>1, <1>3, <1>5, <1>6

\* A step that only moves a thread on: not past the points where a schedule is
\* counted or posted, and not past the execution of a permit the thread holds.
LEMMA CountPlain ==
    ASSUME TypeOK, TypeOK', CountInv, NEW a \in Actors, NEW l, pc' = [pc EXCEPT ![a] = l],
           UNCHANGED <<op, sems, seen, counts, threadThreadTerminationState, left, refused>>,
           pc[a] \notin {"s_read", "s_write", "s_test", "s_post"}, l \notin {"s_read", "s_write", "s_test"},
           op[a] = "schedule" /\ pc[a] \in {"v_lock", "v_context", "v_body", "v_set"}
               => l \in {"v_lock", "v_context", "v_body", "v_set", "s_post"},
           a = Thread /\ ThreadHasPermit => l \in {"t_check", "t_status", "t_count", "p_valid", "p_lock", "p_test", "p_exec", "p_leave",
                                                  "v_lock", "v_context", "v_body", "v_set"}
    PROVE  CountInv'
<1>1. \A b \in Actors : b # a => pc'[b] = pc[b]
    BY DEF TypeOK
<1>2. pc'[a] = l
    BY DEF TypeOK
<1>3. \A c \in Clients : Posting(c) => Posting(c)'
    BY <1>1, <1>2 DEF Posting, Clients
<1>4. Posters \subseteq Posters'
    BY <1>3 DEF Posters
<1>5. Counters' = Counters
    BY <1>1, <1>2 DEF Counters, Clients
<1>6. ThreadHasPermit => ThreadHasPermit'
    <2>1. CASE a = Thread
        BY <1>2, <2>1 DEF ThreadHasPermit
    <2>2. CASE a # Thread
        BY <1>1, <2>2 DEF ThreadHasPermit, sems
    <2> QED
        BY <2>1, <2>2
<1>7. permits["to"] + Held <= permits'["to"] + Held'
    BY <1>6 DEF Held, sems, TypeOK, SemTypeOK, Semaphores
<1>8. \A c \in Clients : pc'[c] = "s_write" => pc[c] = "s_write" /\ seen'[c] = seen[c]
    BY <1>1, <1>2 DEF Clients
<1> QED
    BY <1>4, <1>5, <1>7, <1>8, CountFrame DEF counts, TypeOK

\* What one step of a verification or of agoProcessGraph does to the counts.
LEMMA CountVerify ==
    ASSUME TypeOK, TypeOK', PermitInv, CountInv, NEW a \in Actors, Verify(a)
    PROVE  CountInv'
<1> USE DEF Step, OnlyGraphCS
<1>1. CASE VerifyLock(a)
    BY <1>1, CountPlain DEF VerifyLock, states, history
<1>2. CASE VerifyBegin(a)
    BY <1>2, CountPlain DEF VerifyBegin, states, history
<1>3. CASE VerifyBody(a)
    BY <1>3, CountPlain DEF VerifyBody, states, history
<1>4. CASE VerifySet(a)
    <2> DEFINE to == CASE op[a] = "verify" -> "idle"
                       [] op[a] = "schedule" -> IF result[a] = "success" THEN "s_post" ELSE "idle"
                       [] OTHER -> IF result[a] = "success" THEN "p_test" ELSE "p_leave"
    <2>1. pc[a] = "v_set" /\ pc' = [pc EXCEPT ![a] = to] /\ UNCHANGED <<op, sems, seen, counts, states, left>>
        BY <1>4 DEF VerifySet
    <2>2. /\ to \in {"idle", "s_post", "p_test", "p_leave"}
          /\ op[a] = "schedule" => to = IF result[a] = "success" THEN "s_post" ELSE "idle"
          /\ op[a] = "thread" => to \in {"p_test", "p_leave"}
        <3>1. CASE op[a] = "verify"
            BY <3>1
        <3>2. CASE op[a] = "schedule"
            BY <3>2
        <3>3. CASE op[a] # "verify" /\ op[a] # "schedule"
            BY <3>3
        <3> QED
            BY <3>1, <3>2, <3>3
    <2>3. refused' = IF op[a] = "schedule" /\ result[a] # "success" THEN refused + 1 ELSE refused
        BY <1>4 DEF VerifySet
    <2> HIDE DEF to
    <2>4. CASE op[a] = "schedule" /\ result[a] # "success"
        <3>1. to = "idle" /\ a # Thread /\ a \in Clients
            BY <2>2, <2>4 DEF PermitInv, Clients
        <3>2. pc'[a] = "idle" /\ \A b \in Actors : b # a => pc'[b] = pc[b]
            BY <2>1, <3>1 DEF TypeOK
        <3>3. Posting(a) /\ ~ Posting(a)' /\ \A c \in Clients : c # a => Posting(c)' = Posting(c)
            BY <2>1, <2>4, <3>2 DEF Posting, Clients
        <3>4. a \in Posters /\ Posters' = Posters \ {a}
            BY <3>1, <3>3 DEF Posters
        <3>5. Counters' = Counters /\ \A d \in Clients : pc'[d] = "s_write" <=> pc[d] = "s_write"
            BY <2>1, <3>2 DEF Counters, Clients
        <3>6. Held' = Held
            BY <2>1, <3>1, <3>2 DEF Held, ThreadHasPermit, sems
        <3>7. permits["to"] + Held + refused + 1 <= permits'["to"] + Held' + refused'
            BY <2>1, <2>3, <2>4, <3>6 DEF sems, Held, TypeOK, SemTypeOK, Semaphores
        <3> QED
            BY <2>1, <3>4, <3>5, <3>7, PosterLeaves DEF counts, states
    <2>5. CASE ~ (op[a] = "schedule" /\ result[a] # "success")
        BY <2>1, <2>2, <2>3, <2>5, CountPlain DEF PermitInv, states
    <2> QED
        BY <2>4, <2>5
<1> QED
    BY <1>1, <1>2, <1>3, <1>4 DEF Verify

LEMMA CountProcess ==
    ASSUME TypeOK, TypeOK', PermitInv, CountInv, NEW a \in Actors, Process(a)
    PROVE  CountInv'
<1> USE DEF Step, Branch, Return, OnlyResult, OnlyGraphCS
<1>1. CASE ProcessValid(a)
    BY <1>1, CountPlain DEF ProcessValid, states, history
<1>2. CASE ProcessLock(a)
    BY <1>2, CountPlain DEF ProcessLock, states, history
<1>3. CASE ProcessTest(a)
    BY <1>3, CountPlain DEF ProcessTest, states, history
<1>4. CASE ExecuteGraph(a)
    BY <1>4, CountPlain DEF ExecuteGraph, states, history
<1>5. CASE ProcessLeave(a)
    BY <1>5, CountPlain DEF ProcessLeave, states, history
<1> QED
    BY <1>1, <1>2, <1>3, <1>4, <1>5 DEF Process

\* Of the thread's own steps two matter: it takes a permit, and it counts an execution.
LEMMA CountThread ==
    ASSUME Win32, TypeOK, TypeOK', PermitInv, CountInv, ThreadNext
    PROVE  CountInv'
<1> USE DEF Step, Branch, OnlyPc, OnlySems
<1>0. permits["to"] \in Nat /\ permits'["to"] \in Nat /\ Held \in {0, 1} /\ Held' \in {0, 1}
    BY DEF TypeOK, SemTypeOK, Semaphores, Held
<1>1. ASSUME UNCHANGED op, \A c \in Clients : pc'[c] = pc[c] PROVE Counters' = Counters /\ Posters' = Posters
    BY <1>1 DEF Counters, Posters, Posting
<1>2. CASE ThreadWait
    <2>1. permits["to"] + Held <= permits'["to"] + Held'
        <3>1. Thread \notin sleeping["to"]
            BY <1>2 DEF ThreadWait, PermitInv
        <3>2. Held = 0
            BY <1>2 DEF ThreadWait, Held, ThreadHasPermit
        <3>3. CASE OnClosed("to")
            BY <1>0, <3>2, <3>3 DEF OnClosed, sems
        <3>4. CASE open["to"] /\ permits["to"] > 0
            <4>1. permits'["to"] = permits["to"] - 1 /\ sleeping' = sleeping
                BY <1>2, <3>4 DEF ThreadWait, WaitForSingleObject, OnClosed, TypeOK, SemTypeOK, Semaphores
            <4>2. Held' = 1
                BY <1>2, <3>1, <4>1 DEF ThreadWait, Held, ThreadHasPermit, TypeOK
            <4> QED
                BY <1>0, <3>2, <4>1, <4>2
        <3>5. CASE open["to"] /\ permits["to"] = 0
            BY <1>0, <3>2, <3>5
        <3> QED
            BY <1>2, <3>3, <3>4, <3>5 DEF ThreadWait, WaitForSingleObject
    <2>2. Counters' = Counters /\ Posters' = Posters /\ \A c \in Clients : pc'[c] = pc[c]
        <3>1. UNCHANGED op /\ \A c \in Clients : pc'[c] = pc[c]
            BY <1>2 DEF ThreadWait, Clients, TypeOK
        <3> QED
            BY <1>1, <3>1
    <2> QED
        BY <1>2, <2>1, <2>2, CountFrame DEF ThreadWait, counts, states, history, TypeOK
<1>3. CASE ThreadInform \/ ThreadLast
    <2>1. permits'["to"] = permits["to"] /\ sleeping'["to"] = sleeping["to"]
        BY <1>3 DEF ThreadInform, ThreadLast, ReleaseSemaphore, OnClosed, sems, TypeOK, SemTypeOK, Semaphores
    <2>2. Held = 0
        BY <1>3 DEF ThreadInform, ThreadLast, Held, ThreadHasPermit
    <2>3. Counters' = Counters /\ Posters' = Posters /\ \A c \in Clients : pc'[c] = pc[c]
        <3>1. UNCHANGED op /\ \A c \in Clients : pc'[c] = pc[c]
            BY <1>3 DEF ThreadInform, ThreadLast, Clients, TypeOK
        <3> QED
            BY <1>1, <3>1
    <2> QED
        BY <1>0, <1>3, <2>1, <2>2, <2>3, CountFrame DEF ThreadInform, ThreadLast, counts, states, history, TypeOK
<1>4. CASE ThreadWake
    <2>1. Counters' = Counters /\ Posters' = Posters /\ \A c \in Clients : pc'[c] = pc[c]
        <3>1. UNCHANGED op /\ \A c \in Clients : pc'[c] = pc[c]
            BY <1>4 DEF ThreadWake, Clients, TypeOK
        <3> QED
            BY <1>1, <3>1
    <2>2. permits["to"] + Held <= permits'["to"] + Held'
        BY <1>0, <1>4 DEF ThreadWake, Held, ThreadHasPermit, sems, TypeOK
    <2> QED
        BY <1>4, <2>1, <2>2, CountFrame DEF ThreadWake, counts, TypeOK
<1>5. CASE ThreadCheck
    <2>1. Counters' = Counters /\ Posters' = Posters /\ \A c \in Clients : pc'[c] = pc[c]
        <3>1. UNCHANGED op /\ \A c \in Clients : pc'[c] = pc[c]
            BY <1>5 DEF ThreadCheck, Clients, TypeOK
        <3> QED
            BY <1>1, <3>1
    <2>2. threadThreadTerminationState = 0 => permits["to"] + Held <= permits'["to"] + Held'
        BY <1>0, <1>5 DEF ThreadCheck, Held, ThreadHasPermit, sems, TypeOK
    <2> QED
        BY <1>5, <2>1, <2>2, CountFrame DEF ThreadCheck, counts, states, history, TypeOK
<1>6. CASE ThreadStatus
    BY <1>6, CountPlain DEF ThreadStatus, states, history
<1>7. CASE ThreadTerminate
    <2>1. Counters' = Counters /\ Posters' = Posters /\ \A c \in Clients : pc'[c] = pc[c]
        <3>1. UNCHANGED op /\ \A c \in Clients : pc'[c] = pc[c]
            BY <1>7 DEF ThreadTerminate, Clients, TypeOK
        <3> QED
            BY <1>1, <3>1
    <2> QED
        BY <1>7, <2>1, CountFrame DEF ThreadTerminate, counts, history, TypeOK
<1>8. CASE ThreadCount
    <2>1. Counters' = Counters /\ Posters' = Posters /\ \A c \in Clients : pc'[c] = pc[c]
        <3>1. UNCHANGED op /\ \A c \in Clients : pc'[c] = pc[c]
            BY <1>8 DEF ThreadCount, Clients, TypeOK
        <3> QED
            BY <1>1, <3>1
    <2>2. Counts' = Counts /\ Counts \subseteq Int
        BY <1>8, <2>1 DEF ThreadCount, Counts, TypeOK, Clients
    <2>3. Held = 1 /\ permits' = permits
        BY <1>8 DEF ThreadCount, Held, ThreadHasPermit, sems
    <2>4. SUFFICES ASSUME NEW v \in Counts, threadThreadTerminationState = 0
                   PROVE  v - Cardinality(Posters) - refused <= threadExecuteCount' + permits["to"] + Held'
        BY <1>8, <2>1, <2>2, <2>3 DEF ThreadCount, CountInv, states
    <2>5. /\ v + left + Cardinality(Counters) <= MaxCalls
          /\ v - Cardinality(Posters) - refused <= threadExecuteCount + permits["to"] + 1
        BY <2>3, <2>4 DEF CountInv
    <2>6. /\ v \in Int /\ left \in Nat /\ refused \in Nat /\ threadExecuteCount \in Nat
          /\ Cardinality(Posters) \in Nat /\ Cardinality(Counters) \in Nat
        BY <2>2, CountsAreFinite DEF TypeOK
    <2>7. CASE threadExecuteCount < MaxCalls
        <3>1. threadExecuteCount' = threadExecuteCount + 1
            BY <1>8, <2>7 DEF ThreadCount
        <3> QED
            BY <1>0, <2>5, <2>6, <3>1
    <2>8. CASE ~ (threadExecuteCount < MaxCalls)
        <3>1. threadExecuteCount' = threadExecuteCount
            BY <1>8, <2>8 DEF ThreadCount
        <3> QED
            BY <1>0, <2>5, <2>6, <2>8, <3>1
    <2> QED
        BY <2>7, <2>8
<1>9. CASE Verify(Thread) \/ Process(Thread)
    BY <1>9, CountVerify, CountProcess
<1> QED
    BY <1>2, <1>3, <1>4, <1>5, <1>6, <1>7, <1>8, <1>9 DEF ThreadNext

\* A release of hSemToThread that succeeds gives the thread a permit to hold or to take.
LEMMA ReleaseGives ==
    ASSUME Win32, TypeOK, TypeOK', PermitInv, ReleaseSemaphore("to"), pc'[Thread] = pc[Thread]
    PROVE  /\ permits["to"] + Held <= permits'["to"] + Held'
           /\ ReleaseSucceeds("to") => permits["to"] + Held + 1 <= permits'["to"] + Held'
<1>0. permits["to"] \in Nat /\ permits'["to"] \in Nat /\ Held \in {0, 1} /\ Held' \in {0, 1} /\ SemLimit \in Nat
    BY DEF TypeOK, SemTypeOK, Semaphores, Held
<1>1. CASE OnClosed("to")
    BY <1>0, <1>1 DEF OnClosed, sems, ReleaseSucceeds, Held, ThreadHasPermit
<1>2. CASE open["to"] /\ sleeping["to"] # {}
    <2>1. sleeping["to"] = {Thread} /\ pc[Thread] = "t_asleep"
        BY <1>2 DEF PermitInv
    <2>2. sleeping'["to"] = {} /\ permits' = permits
        BY <1>2, <2>1 DEF ReleaseSemaphore, OnClosed, TypeOK, SemTypeOK, Semaphores
    <2>3. Held = 0 /\ Held' = 1
        BY <2>1, <2>2 DEF Held, ThreadHasPermit
    <2> QED
        BY <1>0, <2>2, <2>3
<1>3. CASE open["to"] /\ sleeping["to"] = {}
    <2>1. permits'["to"] = (IF permits["to"] < SemLimit THEN permits["to"] + 1 ELSE permits["to"]) /\ sleeping' = sleeping
        BY <1>3 DEF ReleaseSemaphore, OnClosed, TypeOK, SemTypeOK, Semaphores
    <2>2. Held' = Held
        BY <2>1 DEF Held, ThreadHasPermit
    <2>3. ReleaseSucceeds("to") => permits["to"] < SemLimit
        BY <1>3 DEF ReleaseSucceeds
    <2> QED
        BY <1>0, <2>1, <2>2, <2>3
<1> QED
    BY <1>1, <1>2, <1>3 DEF ReleaseSemaphore

LEMMA CountSchedule ==
    ASSUME Win32, Threaded, TypeOK, TypeOK', OwnerInv, PermitInv, CountInv, NEW c \in Clients, Schedule(c)
    PROVE  CountInv'
<1> USE DEF Step
<1>0. /\ IsFiniteSet(Counters) /\ Cardinality(Counters) \in Nat
      /\ IsFiniteSet(Posters) /\ Cardinality(Posters) \in Nat
    BY CountsAreFinite
<1>a. Counts \subseteq Int /\ Counts' \subseteq Int
    BY DEF Counts, TypeOK, Clients
<1>b. /\ permits["to"] \in Nat /\ Held \in {0, 1} /\ left \in Nat /\ refused \in Nat /\ threadExecuteCount \in Nat
      /\ MaxCalls \in Nat /\ c \in Actors /\ c # Thread
    BY DEF TypeOK, SemTypeOK, Semaphores, Held, Clients
<1>1. CASE ScheduleRead(c)
    <2>1. pc' = [pc EXCEPT ![c] = "s_write"] /\ pc[c] = "s_read" /\ seen' = [seen EXCEPT ![c] = threadScheduleCount]
          /\ UNCHANGED <<op, sems, counts, states, left, refused>>
        BY <1>1 DEF ScheduleRead, history
    <2>2. pc'[c] = "s_write" /\ \A d \in Clients \ {c} : pc'[d] = pc[d] /\ seen'[d] = seen[d]
        BY <2>1 DEF TypeOK, Clients
    <2>3. Counters' = Counters
        BY <2>1, <2>2 DEF Counters
    <2>4. Posters' = Posters
        <3>1. \A d \in Clients : Posting(d)' = Posting(d)
            BY <2>1, <2>2 DEF Posting
        <3> QED
            BY <3>1 DEF Posters
    <2>5. Counts' \subseteq Counts
        BY <2>1, <2>2 DEF Counts, counts, TypeOK, Clients
    <2>6. Held' = Held
        BY <1>b, <2>1 DEF Held, ThreadHasPermit, sems, TypeOK
    <2> QED
        BY <2>1, <2>3, <2>4, <2>5, <2>6 DEF CountInv, counts, states, sems
<1>2. CASE ScheduleWrite(c)
    <2>1. pc' = [pc EXCEPT ![c] = "s_test"] /\ pc[c] = "s_write" /\ threadScheduleCount' = seen[c] + 1
          /\ UNCHANGED <<op, sems, seen, threadExecuteCount, states, left, refused>>
        BY <1>2 DEF ScheduleWrite, history
    <2>2. pc'[c] = "s_test" /\ \A d \in Clients \ {c} : pc'[d] = pc[d]
        BY <2>1 DEF TypeOK, Clients
    <2>3. c \in Counters /\ Counters' = Counters \ {c}
        BY <2>1, <2>2 DEF Counters
    <2>4. c \notin Posters /\ Posters' = Posters \cup {c}
        <3>1. \A d \in Clients \ {c} : Posting(d)' = Posting(d)
            BY <2>1, <2>2 DEF Posting
        <3>2. ~ Posting(c) /\ Posting(c)'
            BY <2>1, <2>2 DEF Posting
        <3> QED
            BY <3>1, <3>2 DEF Posters
    <2>5. Cardinality(Counters') = Cardinality(Counters) - 1 /\ Cardinality(Posters') = Cardinality(Posters) + 1
        BY <1>0, <2>3, <2>4, FS_RemoveElement, FS_AddElement
    <2>6. Counts' \subseteq Counts \cup {seen[c] + 1} /\ seen[c] \in Counts
        BY <2>1, <2>2 DEF Counts
    <2>7. Held' = Held
        BY <1>b, <2>1 DEF Held, ThreadHasPermit, sems, TypeOK
    <2>8. SUFFICES ASSUME NEW v \in Counts'
                   PROVE  /\ v + left + Cardinality(Counters') <= MaxCalls
                          /\ threadThreadTerminationState = 0 =>
                                 v - Cardinality(Posters') - refused <= threadExecuteCount + permits["to"] + Held
        BY <2>1, <2>7 DEF CountInv, states, sems
    <2>9. PICK u \in Counts : v = u \/ v = u + 1
        BY <2>6
    <2>10. /\ u + left + Cardinality(Counters) <= MaxCalls
           /\ threadThreadTerminationState = 0 =>
                 u - Cardinality(Posters) - refused <= threadExecuteCount + permits["to"] + Held
        BY DEF CountInv
    <2>11. u \in Int /\ v \in Int
        BY <1>a
    <2>12. v + left + Cardinality(Counters') <= MaxCalls
        BY <1>0, <1>b, <2>5, <2>9, <2>10, <2>11
    <2>13. ASSUME threadThreadTerminationState = 0
           PROVE  v - Cardinality(Posters') - refused <= threadExecuteCount + permits["to"] + Held
        BY <1>0, <1>b, <2>5, <2>9, <2>10, <2>11, <2>13
    <2> QED
        BY <2>12, <2>13
<1>3. CASE ScheduleTest(c)
    <2>1. pc[c] = "s_test" /\ op[c] = "schedule" /\ op' = op /\ pc'[c] \in {"s_post", "v_lock"}
          /\ UNCHANGED <<sems, seen, counts, states, left, refused>> /\ \A d \in Actors \ {c} : pc'[d] = pc[d]
        BY <1>3 DEF ScheduleTest, history, OwnerInv, TypeOK, Clients
    <2>2. Counters' = Counters /\ Posters' = Posters
        <3>1. \A d \in Clients : Posting(d)' = Posting(d)
            BY <1>b, <2>1 DEF Posting, Clients
        <3> QED
            BY <2>1, <3>1 DEF Counters, Posters, Clients
    <2>3. Held' = Held
        BY <1>b, <2>1 DEF Held, ThreadHasPermit, sems
    <2>4. \A d \in Clients : pc'[d] = "s_write" => pc[d] = "s_write"
        BY <2>1 DEF Clients
    <2>5. permits["to"] + Held <= permits'["to"] + Held'
        BY <1>b, <2>1, <2>3 DEF sems
    <2> QED
        BY <1>b, <2>1, <2>2, <2>4, <2>5, CountFrame DEF counts, states
<1>4. CASE SchedulePost(c)
    <2>1. pc[c] = "s_post" /\ op' = op /\ pc'[c] = "idle" /\ ReleaseSemaphore("to")
          /\ UNCHANGED <<seen, counts, states, left>> /\ \A d \in Actors \ {c} : pc'[d] = pc[d]
          /\ refused' = IF ReleaseSucceeds("to") THEN refused ELSE refused + 1
        BY <1>4 DEF SchedulePost, TypeOK, Clients
    <2>2. c \in Posters /\ Posters' = Posters \ {c}
        <3>1. \A d \in Clients \ {c} : Posting(d)' = Posting(d)
            BY <2>1 DEF Posting, Clients
        <3>2. Posting(c) /\ ~ Posting(c)'
            BY <2>1 DEF Posting
        <3> QED
            BY <3>1, <3>2 DEF Posters
    <2>3. Counters' = Counters /\ \A d \in Clients : pc'[d] = "s_write" <=> pc[d] = "s_write"
        BY <2>1 DEF Counters, Clients
    <2>4. pc'[Thread] = pc[Thread]
        BY <1>b, <2>1
    <2>5. /\ permits["to"] + Held <= permits'["to"] + Held'
          /\ ReleaseSucceeds("to") => permits["to"] + Held + 1 <= permits'["to"] + Held'
        BY <2>1, <2>4, ReleaseGives
    <2>6. permits'["to"] \in Nat /\ Held' \in {0, 1}
        BY DEF TypeOK, SemTypeOK, Semaphores, Held
    <2>7. permits["to"] + Held + refused + 1 <= permits'["to"] + Held' + refused'
        BY <1>b, <2>1, <2>5, <2>6
    <2> QED
        BY <2>1, <2>2, <2>3, <2>7, PosterLeaves DEF counts, states
<1> QED
    BY <1>1, <1>2, <1>3, <1>4 DEF Schedule

\* The other calls count and post nothing of their own; those that release
\* hSemToThread give the thread one permit more.
LEMMA CountOther ==
    ASSUME TypeOK, TypeOK', CountInv, NEW c \in Clients, \A b \in Actors \ {c} : pc'[b] = pc[b],
           ~ Posting(c), pc[c] \notin {"s_read", "s_write"}, pc'[c] \notin {"s_read", "s_write"},
           \A d \in Clients \ {c} : op'[d] = op[d] /\ seen'[d] = seen[d],
           UNCHANGED <<threadScheduleCount, threadExecuteCount, refused>>, left' <= left,
           threadThreadTerminationState' = 0 => threadThreadTerminationState = 0,
           permits["to"] + Held <= permits'["to"] + Held'
    PROVE  CountInv'
<1>1. Counters' = Counters
    BY DEF Counters, Clients
<1>2. \A d \in Clients : Posting(d) => Posting(d)'
    BY DEF Posting, Clients
<1>3. Posters \subseteq Posters'
    BY <1>2 DEF Posters
<1>4. \A d \in Clients : pc'[d] = "s_write" => pc[d] = "s_write" /\ seen'[d] = seen[d]
    BY DEF Clients
<1> QED
    BY <1>1, <1>3, <1>4, CountFrame

LEMMA CountClient ==
    ASSUME Win32, Threaded, TypeOK, TypeOK', OwnerInv, PermitInv, CountInv, NEW c \in Clients, ClientNext(c) \/ ClientBegins(c)
    PROVE  CountInv'
<1> USE DEF Step, Branch, OnlyPc, OnlySems, OnlyResult, OnlyGraphCS
<1>0. permits["to"] \in Nat /\ permits'["to"] \in Nat /\ Held \in {0, 1} /\ Held' \in {0, 1} /\ left \in Nat /\ c \in Actors /\ c # Thread
    BY DEF TypeOK, SemTypeOK, Semaphores, Held, Clients
<1>a. ASSUME permits'["to"] = permits["to"], sleeping'["to"] = sleeping["to"], pc'[Thread] = pc[Thread]
      PROVE  permits["to"] + Held <= permits'["to"] + Held'
    BY <1>0, <1>a DEF Held, ThreadHasPermit
<1>c. ASSUME \A b \in Actors \ {c} : pc'[b] = pc[b],
             pc[c] \in {"idle", "r_read", "r_term", "r_post", "w_post", "w_sleep", "r_closeTo", "r_closeFrom"},
             pc'[c] \notin {"s_read", "s_write"}, \A d \in Clients \ {c} : op'[d] = op[d] /\ seen'[d] = seen[d],
             UNCHANGED <<counts, refused>>, left' <= left,
             threadThreadTerminationState' # 0 \/ UNCHANGED threadThreadTerminationState,
             permits["to"] + Held <= permits'["to"] + Held'
      PROVE  CountInv'
    <2>1. ~ Posting(c) /\ pc[c] \notin {"s_read", "s_write"}
        BY <1>c DEF Posting
    <2> QED
        BY <1>c, <2>1, CountOther DEF counts
<1>1. CASE Verify(c) \/ Process(c) \/ Schedule(c)
    BY <1>0, <1>1, CountVerify, CountProcess, CountSchedule
<1>2. CASE CreateNode(c)
    <2>1. CASE CreateNodeLock(c)
        BY <1>0, <2>1, CountPlain DEF CreateNodeLock, states, history
    <2>2. CASE CreateNodeAdd(c)
        BY <1>0, <2>2, CountPlain DEF CreateNodeAdd, states, history
    <2>3. CASE CreateNodeMark(c)
        BY <1>0, <2>3, CountPlain DEF CreateNodeMark, states, history
    <2> QED
        BY <1>2, <2>1, <2>2, <2>3 DEF CreateNode
<1>3. CASE Wait(c)
    <2>1. CASE WaitTest(c)
        BY <1>0, <2>1, CountPlain DEF WaitTest, states, history
    <2>2. CASE WaitSet(c)
        BY <1>0, <2>2, CountPlain DEF WaitSet, states, history
    <2>3. CASE WaitLoop(c)
        BY <1>0, <2>3, CountPlain DEF WaitLoop, states, history
    <2>4. CASE WaitPost(c)
        <3>1. pc[c] = "w_post" /\ pc'[c] = "w_loop" /\ \A b \in Actors \ {c} : pc'[b] = pc[b] /\ ReleaseSemaphore("to")
              /\ UNCHANGED <<op, seen, counts, threadThreadTerminationState, left, refused>>
            BY <1>0, <2>4 DEF WaitPost, states, history, TypeOK
        <3>2. permits["to"] + Held <= permits'["to"] + Held'
            BY <1>0, <3>1, ReleaseGives
        <3> QED
            BY <1>0, <1>c, <3>1, <3>2 DEF counts
    <2>5. CASE WaitCheck(c) \/ WaitWake(c)
        BY <1>0, <2>5, CountPlain DEF WaitCheck, WaitWake, states, history
    <2>6. CASE WaitSleep(c)
        <3>1. permits'["to"] = permits["to"] /\ sleeping'["to"] = sleeping["to"]
            BY <2>6 DEF WaitSleep, WaitForSingleObject, OnClosed, sems, TypeOK, SemTypeOK, Semaphores
        <3> QED
            <4>1. pc[c] = "w_sleep" /\ pc'[c] = "w_asleep" /\ \A b \in Actors \ {c} : pc'[b] = pc[b]
                  /\ UNCHANGED <<op, seen, counts, states, left, refused>>
                BY <1>0, <2>6 DEF WaitSleep, history, TypeOK
            <4> QED
                BY <1>0, <1>a, <1>c, <3>1, <4>1 DEF states
    <2>7. CASE WaitDone(c)
        BY <1>0, <2>7, CountPlain DEF WaitDone, states, history
    <2> QED
        BY <1>3, <2>1, <2>2, <2>3, <2>4, <2>5, <2>6, <2>7 DEF Wait
<1>4. CASE Release(c)
    <2>1. CASE ReleaseLock(c) \/ ReleaseTest(c) \/ ReleaseLockGraph(c) \/ ReleaseLoop(c)
        BY <1>0, <2>1, CountPlain DEF ReleaseLock, ReleaseTest, ReleaseLockGraph, ReleaseLoop, states, history
    <2>2. CASE ReleaseRead(c)
        <3>1. pc[c] = "r_read" /\ pc'[c] = "r_write" /\ \A b \in Actors \ {c} : pc'[b] = pc[b] /\ UNCHANGED <<op, sems, counts, states, left, refused>>
              /\ \A d \in Clients \ {c} : seen'[d] = seen[d]
            BY <1>0, <2>2 DEF ReleaseRead, history, TypeOK, Clients
        <3> QED
            BY <1>0, <1>a, <1>c, <3>1 DEF sems, states
    <2>3. CASE ReleaseWrite(c)
        BY <1>0, <2>3, CountPlain DEF ReleaseWrite, states, history
    <2>4. CASE ReleaseTerminate(c)
        <3>1. pc[c] = "r_term" /\ pc'[c] = "r_post" /\ \A b \in Actors \ {c} : pc'[b] = pc[b] /\ threadThreadTerminationState' = 1
              /\ UNCHANGED <<op, sems, seen, counts, left, refused>>
            BY <1>0, <2>4 DEF ReleaseTerminate, history, TypeOK
        <3> QED
            BY <1>0, <1>a, <1>c, <3>1 DEF sems
    <2>5. CASE ReleasePost(c)
        <3>1. pc[c] = "r_post" /\ pc'[c] = "r_loop" /\ \A b \in Actors \ {c} : pc'[b] = pc[b] /\ ReleaseSemaphore("to")
              /\ UNCHANGED <<op, seen, counts, threadThreadTerminationState, left, refused>>
            BY <1>0, <2>5 DEF ReleasePost, states, history, TypeOK
        <3>2. permits["to"] + Held <= permits'["to"] + Held'
            BY <1>0, <3>1, ReleaseGives
        <3> QED
            BY <1>0, <1>c, <3>1, <3>2 DEF counts
    <2>6. CASE ReleaseClose(c)
        <3>1. permits' = permits /\ sleeping' = sleeping
            BY <2>6 DEF ReleaseClose, CloseHandle, OnClosed, sems
        <3> QED
            <4>1. pc[c] \in {"r_closeTo", "r_closeFrom"} /\ pc'[c] \in {"r_closeFrom", "r_join"} /\ \A b \in Actors \ {c} : pc'[b] = pc[b]
                  /\ UNCHANGED <<op, seen, counts, states, left, refused>>
                BY <1>0, <2>6 DEF ReleaseClose, history, TypeOK
            <4> QED
                BY <1>0, <1>a, <1>c, <3>1, <4>1 DEF states
    <2>7. CASE ReleaseJoin(c) \/ ReleaseShutdown(c) \/ ReleaseLeave(c)
        BY <1>0, <2>7, CountPlain DEF ReleaseJoin, ReleaseShutdown, ReleaseLeave, states, history
    <2> QED
        BY <1>4, <2>1, <2>2, <2>3, <2>4, <2>5, <2>6, <2>7 DEF Release
<1>5. CASE BeginRelease(c)
    <2>1. pc[c] = "idle" /\ pc'[c] = "r_lock" /\ \A b \in Actors \ {c} : pc'[b] = pc[b] /\ UNCHANGED <<sems, seen, counts, states, left, refused>>
          /\ \A d \in Clients \ {c} : op'[d] = op[d]
        BY <1>0, <1>5 DEF BeginRelease, history, TypeOK, Clients
    <2> QED
        BY <1>0, <1>a, <1>c, <2>1 DEF sems, states
<1>6. ASSUME NEW call, NEW label, Begin(c, call, label), label \notin {"s_read", "s_write"} PROVE CountInv'
    <2>1. pc[c] = "idle" /\ pc'[c] = label /\ left' <= left /\ UNCHANGED <<sems, seen, counts, states, refused>>
          /\ \A b \in Actors \ {c} : pc'[b] = pc[b] /\ op'[b] = op[b]
        BY <1>0, <1>6 DEF Begin, history, TypeOK
    <2> QED
        BY <1>0, <1>6, <1>a, <1>c, <2>1 DEF sems, states, Clients
<1>7. CASE Begin(c, "schedule", "s_read")
    <2>1. pc[c] = "idle" /\ pc'[c] = "s_read" /\ left' = left - 1 /\ UNCHANGED <<sems, seen, counts, states, refused>>
          /\ \A d \in Actors \ {c} : pc'[d] = pc[d] /\ op'[d] = op[d]
        BY <1>0, <1>7 DEF Begin, history, TypeOK
    <2>2. c \notin Counters /\ Counters' = Counters \cup {c}
        BY <2>1 DEF Counters, Clients
    <2>3. Cardinality(Counters') = Cardinality(Counters) + 1 /\ Cardinality(Counters) \in Nat
        BY <2>2, CountsAreFinite, FS_AddElement
    <2>4. Posters' = Posters
        <3>1. \A d \in Clients : Posting(d)' = Posting(d)
            BY <2>1 DEF Posting, Clients
        <3> QED
            BY <3>1 DEF Posters
    <2>5. Counts' \subseteq Counts /\ Counts \subseteq Int
        BY <2>1 DEF Counts, counts, TypeOK, Clients
    <2>6. Held' = Held
        BY <1>0, <2>1 DEF Held, ThreadHasPermit, sems
    <2>7. SUFFICES ASSUME NEW v \in Counts PROVE v + left' + Cardinality(Counters') <= MaxCalls
        BY <2>1, <2>4, <2>5, <2>6 DEF CountInv, counts, states, sems
    <2>8. v + left + Cardinality(Counters) <= MaxCalls
        BY DEF CountInv
    <2> QED
        BY <1>0, <2>1, <2>3, <2>5, <2>8
<1> QED
    BY <1>1, <1>2, <1>3, <1>4, <1>5, <1>6, <1>7 DEF ClientNext, ClientBegins, BeginCall

LEMMA CountInit == Init => PermitInv /\ CountInv
<1> SUFFICES ASSUME NEW start \in Starts, InitFrom(start) PROVE PermitInv /\ CountInv
    BY DEF Init
<1>1. PermitInv
    BY DEF InitFrom, CreateSemaphores, Semaphores, PermitInv
<1>2. Counts = {0} /\ Posters = {} /\ Counters = {}
    BY DEF InitFrom, Counts, Posters, Posting, Counters, Clients
<1>3. left \in 0..MaxCalls /\ permits["to"] = 0 /\ threadExecuteCount = 0 /\ refused = 0 /\ Held \in {0, 1}
    BY DEF InitFrom, CreateSemaphores, Semaphores, Held
<1> QED
    BY <1>1, <1>2, <1>3, FS_EmptySet DEF CountInv

\* With the primitives of Windows, every schedule that vxScheduleGraph counts is being posted, was
\* refused, is a permit of hSemToThread or in the thread's hands, or is executed - although
\* threadScheduleCount++ is done without a lock: a lost update makes the count too small, never too large.
THEOREM SchedulesAreKept == ASSUME Win32, Threaded PROVE Spec => []NoLostSchedule
<1>1. TypeOK /\ TypeOK' /\ OwnerInv /\ PermitInv /\ CountInv /\ [Next]_vars => CountInv'
    <2> SUFFICES ASSUME TypeOK, TypeOK', OwnerInv, PermitInv, CountInv, [Next]_vars PROVE CountInv'
        OBVIOUS
    <2>1. CASE UNCHANGED vars \/ Wakeup
        <3>1. UNCHANGED vars
            BY <2>1 DEF Wakeup, SpuriousWakeup
        <3> QED
            BY <3>1 DEF CountInv, Counts, Posters, Posting, Counters, Held, ThreadHasPermit, vars, sems, counts, states, history
    <2> QED
        BY <2>1, CountThread, CountClient DEF Next
<1>2. TypeOK /\ PermitInv /\ [Next]_vars => PermitInv'
    BY PermitStep
<1>3. CountInv => NoLostSchedule
    BY DEF CountInv, Counts, Posters, Held, NoLostSchedule
<1> QED
    BY <1>1, <1>2, <1>3, CountInit, OwnerCorrect, TypeCorrect, PTL DEF Spec
==============================================================================
