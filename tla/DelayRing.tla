------------------------------- MODULE DelayRing -------------------------------
(***************************************************************************)
(* A delay object and a graph whose node parameters refer to its slots.    *)
(* The data objects of the delay are numbered by their siblingIndex, the   *)
(* slot they were created in; children[i] is the one that is in slot i     *)
(* now.  A parameter was set to the data of some slot and must go on       *)
(* reading that slot while the ring turns: paramListForAgeDelay keeps the  *)
(* data object whose siblingIndex is the slot.  A verified graph's         *)
(* parameters cannot be set; creating a node withdraws the verification.   *)
(***************************************************************************)
EXTENDS Integers

CONSTANTS Slots,         \* u.delay.count
          Params,        \* the node parameters that can refer to the delay
          VerifyOnce,    \* the application verifies the graph once, and gets no parameter
                         \* between a turn of the ring and that verification
          MaxAge         \* bound on age: it must not overflow

ASSUME DelayAssumption ==
    /\ Slots \in Nat \ {0}
    /\ VerifyOnce \in BOOLEAN
    /\ MaxAge \in Nat

VARIABLES children, age,
          paramList, paramListForAgeDelay,
          slot,          \* history: the slot a parameter was set to, or NoSlot
          verified, everVerified,
          running,       \* between agoUpdateDelaySlots and the end of an execution
          autoAgeDelay,  \* how often the graph's autoAgeDelayList has the delay
          owed           \* history: agings owed by completed executions, minus those done

vars == <<children, age, paramList, paramListForAgeDelay, slot, verified, everVerified, running, autoAgeDelay, owed>>
ring == <<children, age>>
bindings == <<paramList, paramListForAgeDelay>>

Index == 0 .. Slots - 1
NoSlot == -1
Set(p) == slot[p] # NoSlot

Init ==
    /\ children = [i \in Index |-> i]
    /\ age = 0
    /\ paramList = [p \in Params |-> 0]
    /\ paramListForAgeDelay = [p \in Params |-> 0]
    /\ slot = [p \in Params |-> NoSlot]
    /\ verified = FALSE /\ everVerified = FALSE
    /\ running = FALSE
    /\ autoAgeDelay = 0 /\ owed = 0

\* Seeded fault: the pointers are moved from the front, and the first one spreads.
RotatedForward(c) == [i \in Index |-> IF i = 0 THEN c[Slots - 1] ELSE c[0]]

\* agoAgeDelay, from the last child down; the last one becomes the first.
Rotated(c) == [i \in Index |-> IF i = 0 THEN c[Slots - 1] ELSE c[i - 1]]

\* Seeded fault: the trace ignores that the ring has turned.
InitialSlotUnaged(child) == child

\* agoGetSiblingTraceToDelayForInit: the slot that a parameter set to the data
\* now in slot child is traced through.
InitialSlot(child) == (age + child) % Slots

\* agoUpdateDelaySlots: the data in the slot that paramListForAgeDelay came from.
CurrentData(p) == children[paramListForAgeDelay[p]]

Updated == [p \in Params |-> IF Set(p) THEN CurrentData(p) ELSE paramList[p]]

------------------------------------------------------------------------------
\* vxAgeDelay; not during an execution (vxRegisterAutoAging forbids it).
AgeDelay ==
    /\ ~running
    /\ age < MaxAge
    /\ children' = Rotated(children)
    /\ age' = age + 1
    /\ UNCHANGED <<bindings, slot, verified, everVerified, running, autoAgeDelay, owed>>

\* vxSetParameterByIndex with the data the delay has in slot child.
SetParameter(p, child) ==
    LET data == children[InitialSlot(child)]
    IN  /\ ~running /\ ~verified
        /\ paramList' = [paramList EXCEPT ![p] = data]
        /\ paramListForAgeDelay' = [paramListForAgeDelay EXCEPT ![p] = data]
        /\ slot' = [slot EXCEPT ![p] = child]
        /\ UNCHANGED <<ring, verified, everVerified, running, autoAgeDelay, owed>>

\* vxGetParameterByIndex updates the delay slots of its node.
GetParameter ==
    /\ ~running
    /\ VerifyOnce /\ ~everVerified => age = 0
    /\ paramList' = Updated
    /\ UNCHANGED <<ring, paramListForAgeDelay, slot, verified, everVerified, running, autoAgeDelay, owed>>

\* vxVerifyGraph: agoInitializeGraph copies paramList into paramListForAgeDelay.
VerifyGraph ==
    /\ ~running
    /\ ~VerifyOnce \/ ~everVerified
    /\ paramListForAgeDelay' = paramList
    /\ verified' = TRUE /\ everVerified' = TRUE
    /\ UNCHANGED <<ring, paramList, slot, running, autoAgeDelay, owed>>

\* agoCreateNode
CreateNode ==
    /\ ~running
    /\ verified' = FALSE
    /\ UNCHANGED <<ring, bindings, slot, everVerified, running, autoAgeDelay, owed>>

\* Seeded fault: a second registration is added to the list.
RegisterTwice ==
    /\ ~running
    /\ autoAgeDelay < 2
    /\ autoAgeDelay' = autoAgeDelay + 1
    /\ UNCHANGED <<ring, bindings, slot, verified, everVerified, running, owed>>

\* vxRegisterAutoAging
RegisterAutoAging ==
    /\ ~running
    /\ autoAgeDelay' = IF autoAgeDelay = 0 THEN 1 ELSE autoAgeDelay
    /\ UNCHANGED <<ring, bindings, slot, verified, everVerified, running, owed>>

Promised == IF autoAgeDelay > 0 THEN 1 ELSE 0

\* agoExecuteGraph up to its nodes.
BeginExecution ==
    /\ verified /\ ~running
    /\ age + Promised <= MaxAge
    /\ running' = TRUE
    /\ paramList' = Updated
    /\ UNCHANGED <<ring, paramListForAgeDelay, slot, verified, everVerified, autoAgeDelay, owed>>

\* The end of a completed execution ages every delay of autoAgeDelayList.
Complete ==
    /\ running
    /\ running' = FALSE
    /\ children' = IF autoAgeDelay = 0 THEN children ELSE Rotated(children)
    /\ age' = age + Promised
    /\ owed' = owed + Promised - autoAgeDelay
    /\ UNCHANGED <<bindings, slot, verified, everVerified, autoAgeDelay>>

\* A node fails, or its callback abandons the graph: agoExecuteGraph returns
\* before it gets to autoAgeDelayList.
Fail ==
    /\ running
    /\ running' = FALSE
    /\ UNCHANGED <<ring, bindings, slot, verified, everVerified, autoAgeDelay, owed>>

Next ==
    \/ AgeDelay \/ GetParameter \/ VerifyGraph \/ CreateNode \/ RegisterAutoAging
    \/ \E p \in Params, child \in Index: SetParameter(p, child)
    \/ BeginExecution \/ Complete \/ Fail

Spec == Init /\ [][Next]_vars

------------------------------------------------------------------------------
TypeOK ==
    /\ children \in [Index -> Index] /\ age \in 0..MaxAge
    /\ paramList \in [Params -> Index] /\ paramListForAgeDelay \in [Params -> Index]
    /\ slot \in [Params -> Index \cup {NoSlot}]
    /\ verified \in BOOLEAN /\ everVerified \in BOOLEAN /\ running \in BOOLEAN
    /\ autoAgeDelay \in 0..1 /\ owed \in Int

\* The ring after any number of agings: slot i has the data object that was in
\* slot i - age at the start, modulo the number of slots.
RingIsRotated == \A i \in Index: children[i] = (i - age) % Slots

\* A node that executes sees, in a parameter that was set to slot k, the data
\* that is in slot k now, however often the ring turned since.
ReadsItsSlot == running => \A p \in Params: Set(p) => paramList[p] = children[slot[p]]

\* A registered delay ages exactly once for every execution that completes,
\* however often it was registered.
AgesOncePerExecution == owed = 0
================================================================================
