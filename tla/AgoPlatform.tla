----------------------------- MODULE AgoPlatform -----------------------------
(***************************************************************************)
(* The synchronisation primitives the AGO engine is written against:       *)
(* counting semaphores and critical sections.  On Windows they are the     *)
(* system's own; everywhere else ago_platform.cpp emulates them, and the   *)
(* emulation differs in the two ways that matter to its callers:           *)
(*   - a POSIX "semaphore" counts its permits but never looks at them: a   *)
(*     wait always sleeps, and a release that finds nobody asleep is lost; *)
(*   - a POSIX "critical section" is left again before the call that       *)
(*     enters it returns (a lock_guard local), so it excludes nobody.      *)
(* Win32 selects the platform.                                             *)
(***************************************************************************)
EXTENDS Naturals, FiniteSets

CONSTANTS Win32,      \* TRUE: the Windows primitives, FALSE: the emulation
          SemLimit,   \* largest number of permits of a Windows semaphore
          Actors,     \* the threads of the process
          NoOwner     \* the owner of a critical section nobody is in

ASSUME PlatformAssumption ==
    /\ Win32 \in BOOLEAN
    /\ SemLimit \in Nat \ {0}
    /\ IsFiniteSet(Actors)
    /\ NoOwner \notin Actors

\* The two semaphores of a graph: hSemToThread and hSemFromThread.
Semaphores == {"to", "from"}

VARIABLES permits,    \* permits[s]: what a wait may consume (always 0 on POSIX)
          sleeping,   \* sleeping[s]: the threads asleep in a wait on s
          open        \* open[s]: the handle has not been closed

sems == <<permits, sleeping, open>>

SemTypeOK ==
    /\ permits \in [Semaphores -> 0..SemLimit]
    /\ sleeping \in [Semaphores -> SUBSET Actors]
    /\ open \in [Semaphores -> BOOLEAN]

CreateSemaphores ==
    /\ permits = [s \in Semaphores |-> 0]
    /\ sleeping = [s \in Semaphores |-> {}]
    /\ open = [s \in Semaphores |-> TRUE]

\* A call on a closed handle does nothing (on POSIX it reads freed memory).
OnClosed(s) == ~open[s] /\ UNCHANGED sems

\* Wakes one sleeper.  With nobody asleep Windows keeps the permit, up to the
\* limit; the POSIX notify_one is lost.
ReleaseSemaphore(s) ==
    \/ OnClosed(s)
    \/ /\ open[s] /\ sleeping[s] # {}
       /\ \E a \in sleeping[s] : sleeping' = [sleeping EXCEPT ![s] = @ \ {a}]
       /\ UNCHANGED <<permits, open>>
    \/ /\ open[s] /\ sleeping[s] = {}
       /\ permits' = [permits EXCEPT ![s] = IF Win32 /\ @ < SemLimit THEN @ + 1 ELSE @]
       /\ UNCHANGED <<sleeping, open>>

\* The value ReleaseSemaphore returns: Windows refuses a permit over the limit.
ReleaseSucceeds(s) == Win32 => open[s] /\ (sleeping[s] # {} \/ permits[s] < SemLimit)

\* The first half of a wait; it is over once the caller is not asleep.
WaitForSingleObject(a, s) ==
    \/ OnClosed(s)
    \/ /\ open[s] /\ permits[s] > 0
       /\ permits' = [permits EXCEPT ![s] = @ - 1]
       /\ UNCHANGED <<sleeping, open>>
    \/ /\ open[s] /\ permits[s] = 0
       /\ sleeping' = [sleeping EXCEPT ![s] = @ \cup {a}]
       /\ UNCHANGED <<permits, open>>

\* cv.wait(lk) has no predicate: a spurious wakeup ends the wait.
SpuriousWakeup(s) ==
    /\ ~Win32
    /\ \E a \in sleeping[s] : sleeping' = [sleeping EXCEPT ![s] = @ \ {a}]
    /\ UNCHANGED <<permits, open>>

CloseHandle(s) ==
    \/ OnClosed(s)
    \/ /\ open[s]
       /\ open' = [open EXCEPT ![s] = FALSE]
       /\ UNCHANGED <<permits, sleeping>>

\* Entering is recursive on Windows; the outermost Leave frees the section.
EnterCriticalSection(owner, a) == IF Win32 THEN owner \in {NoOwner, a} ELSE TRUE
Entered(owner, a) == IF Win32 THEN a ELSE owner
LeaveCriticalSection(owner) == IF Win32 THEN NoOwner ELSE owner
==============================================================================
