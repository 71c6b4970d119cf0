--------------------------- MODULE DelayRing_proofs ---------------------------
EXTENDS DelayRing, TLAPS

(***************************************************************************)
(* Arithmetic modulo the number of slots.                                  *)
(***************************************************************************)
LEMMA ModUnique ==
    ASSUME NEW N \in Nat \ {0}, NEW q \in Int, NEW r \in 0 .. N - 1
    PROVE  (N * q + r) % N = r
OBVIOUS

LEMMA DivMod ==
    ASSUME NEW N \in Nat \ {0}, NEW x \in Int
    PROVE  /\ x = N * (x \div N) + (x % N)
           /\ x \div N \in Int
           /\ x % N \in 0 .. N - 1
OBVIOUS

LEMMA ModShift ==
    ASSUME NEW N \in Nat \ {0}, NEW x \in Int
    PROVE  (x + N) % N = x % N
<1> DEFINE q == x \div N
           r == x % N
<1>1. x = N * q + r /\ q \in Int /\ r \in 0 .. N - 1
    BY DivMod
<1> HIDE DEF q, r
<1>2. x + N = N * (q + 1) + r
    BY <1>1
<1>3. (N * (q + 1) + r) % N = r
    BY <1>1, ModUnique
<1> QED
    BY <1>2, <1>3 DEF r

LEMMA ModBack ==
    ASSUME NEW N \in Nat \ {0}, NEW a \in Int, NEW c \in 0 .. N - 1
    PROVE  (((a + c) % N) - a) % N = c
<1> DEFINE q == (a + c) \div N
           r == (a + c) % N
<1>1. a + c = N * q + r /\ q \in Int /\ r \in 0 .. N - 1
    <2>1. a + c \in Int
        OBVIOUS
    <2> QED
        BY <2>1, DivMod
<1> HIDE DEF q, r
<1>2. r - a = N * (-q) + c
    BY <1>1
<1>3. (N * (-q) + c) % N = c
    BY <1>1, ModUnique
<1> QED
    BY <1>2, <1>3 DEF r

USE DelayAssumption

LEMMA InitialSlotType ==
    ASSUME age \in Int, NEW child \in Index
    PROVE  InitialSlot(child) \in Index
<1>1. (age + child) % Slots \in 0 .. Slots - 1
    BY DivMod DEF Index
<1> QED
    BY <1>1 DEF InitialSlot, Index

LEMMA RotatedType ==
    ASSUME NEW c \in [Index -> Index]
    PROVE  Rotated(c) \in [Index -> Index]
BY DEF Rotated, Index

\* Whatever the ring holds, one aging turns it by one slot.
LEMMA RotatedOnce ==
    ASSUME children \in [Index -> Index], age \in Nat, RingIsRotated, NEW i \in Index
    PROVE  Rotated(children)[i] = (i - (age + 1)) % Slots
<1>1. CASE i = 0
    <2>1. Rotated(children)[i] = children[Slots - 1] /\ Slots - 1 \in Index
        BY <1>1 DEF Rotated, Index
    <2>2. children[Slots - 1] = (Slots - 1 - age) % Slots
        BY <2>1 DEF RingIsRotated
    <2>3. Slots - 1 - age = (i - (age + 1)) + Slots /\ i - (age + 1) \in Int
        BY <1>1
    <2> QED
        BY <2>1, <2>2, <2>3, ModShift
<1>2. CASE i # 0
    <2>1. Rotated(children)[i] = children[i - 1] /\ i - 1 \in Index
        BY <1>2 DEF Rotated, Index
    <2>2. children[i - 1] = (i - 1 - age) % Slots /\ i - 1 - age = i - (age + 1)
        BY <2>1 DEF RingIsRotated, Index
    <2> QED
        BY <2>1, <2>2
<1> QED
    BY <1>1, <1>2

\* The data a parameter is set to is the one created in the slot it is set to.
LEMMA SetToOriginal ==
    ASSUME age \in Nat, RingIsRotated, NEW child \in Index
    PROVE  children[InitialSlot(child)] = child
<1>1. children[InitialSlot(child)] = (((age + child) % Slots) - age) % Slots
    BY InitialSlotType DEF InitialSlot, RingIsRotated
<1>2. child \in 0 .. Slots - 1 /\ age \in Int
    BY DEF Index
<1> QED
    BY <1>1, <1>2, ModBack

--------------------------------------------------------------------------------
(***************************************************************************)
(* The ring: inductive with the bound that BeginExecution reserves for the *)
(* aging at the end of the execution.                                      *)
(***************************************************************************)
RingInv ==
    /\ TypeOK
    /\ running => age + Promised <= MaxAge
    /\ RingIsRotated

LEMMA PromisedType == TypeOK => Promised \in 0..1
BY DEF TypeOK, Promised

LEMMA UpdatedType == TypeOK => Updated \in [Params -> Index]
BY DEF TypeOK, Updated, CurrentData, Set, NoSlot

LEMMA RingInit == Init => RingInv
<1> SUFFICES ASSUME Init PROVE RingInv
    OBVIOUS
<1>1. 0 \in Index
    BY DEF Index
<1>2. TypeOK
    <2>1. children \in [Index -> Index] /\ age \in 0..MaxAge
        BY DEF Init
    <2>2. slot \in [Params -> Index \cup {NoSlot}]
        BY DEF Init
    <2>3. paramList \in [Params -> Index] /\ paramListForAgeDelay \in [Params -> Index]
        BY <1>1 DEF Init
    <2>4. verified \in BOOLEAN /\ everVerified \in BOOLEAN /\ running \in BOOLEAN
        BY DEF Init
    <2>5. autoAgeDelay \in 0..1 /\ owed \in Int
        BY DEF Init
    <2> QED
        BY <2>1, <2>2, <2>3, <2>4, <2>5 DEF TypeOK
<1>3. RingIsRotated
    <2> SUFFICES ASSUME NEW i \in Index PROVE children[i] = (i - age) % Slots
        BY DEF RingIsRotated
    <2>1. children[i] = i /\ i - age = Slots * 0 + i /\ i \in 0 .. Slots - 1
        BY DEF Init, Index
    <2> QED
        BY <2>1, ModUnique
<1> QED
    BY <1>2, <1>3 DEF Init, RingInv

LEMMA RingStep == RingInv /\ [Next]_vars => RingInv'
<1> SUFFICES ASSUME RingInv, [Next]_vars PROVE RingInv'
    OBVIOUS
<1> USE DEF RingInv
<1>p. Promised \in 0..1 /\ Updated \in [Params -> Index]
    BY PromisedType, UpdatedType
\* The ring stays as it is.
<1>r. ASSUME UNCHANGED ring PROVE RingIsRotated'
    BY <1>r DEF ring, RingIsRotated
\* The ring turns by one slot.
<1>t. ASSUME children' = Rotated(children), age' = age + 1 PROVE RingIsRotated'
    <2>1. age \in Nat /\ children \in [Index -> Index]
        BY DEF TypeOK
    <2> SUFFICES ASSUME NEW i \in Index PROVE children'[i] = (i - age') % Slots
        BY DEF RingIsRotated
    <2> QED
        BY <1>t, <2>1, RotatedOnce
<1>1. CASE AgeDelay
    <2>1. TypeOK'
        BY <1>1, RotatedType DEF AgeDelay, bindings, TypeOK
    <2> QED
        BY <1>1, <1>t, <2>1 DEF AgeDelay
<1>2. CASE GetParameter
    <2>1. TypeOK'
        BY <1>2, <1>p DEF GetParameter, ring, TypeOK
    <2> QED
        BY <1>2, <1>r, <2>1 DEF GetParameter, Promised
<1>3. CASE VerifyGraph
    <2>1. TypeOK'
        BY <1>3 DEF VerifyGraph, ring, TypeOK
    <2> QED
        BY <1>3, <1>r, <2>1 DEF VerifyGraph, Promised
<1>4. CASE CreateNode
    <2>1. TypeOK'
        BY <1>4 DEF CreateNode, ring, bindings, TypeOK
    <2> QED
        BY <1>4, <1>r, <2>1 DEF CreateNode, Promised
<1>5. CASE RegisterAutoAging
    <2>1. TypeOK'
        BY <1>5 DEF RegisterAutoAging, ring, bindings, TypeOK
    <2> QED
        BY <1>5, <1>r, <2>1 DEF RegisterAutoAging
<1>6. ASSUME NEW p \in Params, NEW child \in Index, SetParameter(p, child) PROVE RingInv'
    <2>1. InitialSlot(child) \in Index
        BY InitialSlotType DEF TypeOK
    <2>2. TypeOK'
        BY <1>6, <2>1 DEF SetParameter, ring, TypeOK
    <2> QED
        BY <1>6, <1>r, <2>2 DEF SetParameter, Promised
<1>7. CASE BeginExecution
    <2>1. TypeOK'
        BY <1>7, <1>p DEF BeginExecution, ring, TypeOK
    <2> QED
        BY <1>7, <1>r, <2>1 DEF BeginExecution, Promised, ring
<1>8. CASE Complete
    <2>1. CASE autoAgeDelay = 0
        <3>1. UNCHANGED ring /\ owed' \in Int
            BY <1>8, <2>1 DEF Complete, Promised, ring, TypeOK
        <3>2. TypeOK'
            BY <1>8, <3>1 DEF Complete, ring, bindings, TypeOK
        <3> QED
            BY <1>8, <1>r, <3>1, <3>2 DEF Complete
    <2>2. CASE autoAgeDelay = 1
        <3>1. children' = Rotated(children) /\ age' = age + 1 /\ owed' \in Int
            BY <1>8, <2>2 DEF Complete, Promised, TypeOK
        <3>2. age' \in 0..MaxAge
            BY <1>8, <2>2, <3>1 DEF Complete, Promised, TypeOK
        <3>3. TypeOK'
            BY <1>8, <3>1, <3>2, RotatedType DEF Complete, bindings, TypeOK
        <3> QED
            BY <1>8, <1>t, <3>1, <3>3 DEF Complete
    <2> QED
        BY <2>1, <2>2 DEF TypeOK
<1>9. CASE Fail
    <2>1. TypeOK'
        BY <1>9 DEF Fail, ring, bindings, TypeOK
    <2> QED
        BY <1>9, <1>r, <2>1 DEF Fail
<1>10. CASE UNCHANGED vars
    <2>1. TypeOK'
        BY <1>10 DEF vars, ring, bindings, TypeOK
    <2> QED
        BY <1>10, <1>r, <2>1 DEF vars, Promised, ring
<1> QED
    BY <1>1, <1>2, <1>3, <1>4, <1>5, <1>6, <1>7, <1>8, <1>9, <1>10 DEF Next

\* agoAgeDelay turns the ring and never loses or duplicates a data object:
\* after any calls, slot i holds the object created in slot i - age.
THEOREM RingTurns == Spec => []RingIsRotated
<1>1. RingInv => RingIsRotated
    BY DEF RingInv
<1> QED
    BY RingInit, RingStep, <1>1, PTL DEF Spec

\* The types of the delay and of the bindings, for every size of the delay.
THEOREM TypeCorrect == Spec => []TypeOK
<1>1. RingInv => TypeOK
    BY DEF RingInv
<1> QED
    BY RingInit, RingStep, <1>1, PTL DEF Spec

--------------------------------------------------------------------------------
(***************************************************************************)
(* The slots: paramListForAgeDelay holds the object that was created in    *)
(* the slot the parameter was set to.  A verification keeps that only as   *)
(* long as paramList still equals it: nothing may have updated paramList   *)
(* on a ring that has turned.                                              *)
(***************************************************************************)
Traced ==
    /\ verified \/ running => everVerified
    /\ \A p \in Params: Set(p) => /\ paramListForAgeDelay[p] = slot[p]
                                  /\ ~everVerified => paramList[p] = slot[p]

SlotInv == RingInv /\ Traced /\ ReadsItsSlot

LEMMA SlotInit == Init => SlotInv
BY RingInit DEF Init, SlotInv, Traced, ReadsItsSlot, Set

\* After agoUpdateDelaySlots a parameter holds the data in its slot.
LEMMA UpdatedReadsSlot ==
    ASSUME TypeOK, Traced, NEW p \in Params, Set(p)
    PROVE  Updated[p] = children[slot[p]]
BY DEF Updated, CurrentData, Traced

LEMMA SlotStep ==
    ASSUME VerifyOnce
    PROVE  SlotInv /\ [Next]_vars => SlotInv'
<1> SUFFICES ASSUME SlotInv, [Next]_vars PROVE Traced' /\ ReadsItsSlot'
    BY RingStep DEF SlotInv
<1> USE DEF SlotInv, RingInv
<1>1. CASE AgeDelay
    BY <1>1 DEF AgeDelay, bindings, Traced, ReadsItsSlot, Set, TypeOK
<1>2. CASE GetParameter
    <2>1. ASSUME NEW p \in Params, Set(p), ~everVerified PROVE paramList'[p] = slot[p]
        <3>1. slot[p] \in Index /\ paramList'[p] = children[slot[p]] /\ age = 0
            BY <1>2, <2>1, UpdatedReadsSlot DEF GetParameter, Traced, Set, TypeOK
        <3>2. slot[p] - age = Slots * 0 + slot[p] /\ slot[p] \in 0 .. Slots - 1
            BY <3>1 DEF Index
        <3>3. (Slots * 0 + slot[p]) % Slots = slot[p]
            BY <3>2, ModUnique, DelayAssumption
        <3> QED
            BY <3>1, <3>2, <3>3 DEF RingIsRotated
    <2> QED
        BY <1>2, <2>1 DEF GetParameter, ring, Traced, ReadsItsSlot, Set
<1>3. CASE VerifyGraph
    BY <1>3 DEF VerifyGraph, ring, Traced, ReadsItsSlot, Set
<1>4. CASE CreateNode
    BY <1>4 DEF CreateNode, ring, bindings, Traced, ReadsItsSlot, Set
<1>5. CASE RegisterAutoAging
    BY <1>5 DEF RegisterAutoAging, ring, bindings, Traced, ReadsItsSlot, Set
<1>6. ASSUME NEW q \in Params, NEW child \in Index, SetParameter(q, child)
      PROVE  Traced' /\ ReadsItsSlot'
    <2>1. children[InitialSlot(child)] = child
        BY SetToOriginal DEF TypeOK
    <2> QED
        BY <1>6, <2>1 DEF SetParameter, ring, Traced, ReadsItsSlot, Set, TypeOK
<1>7. CASE BeginExecution
    <2>1. ASSUME NEW p \in Params, Set(p) PROVE paramList'[p] = children[slot[p]]
        BY <1>7, <2>1, UpdatedReadsSlot DEF BeginExecution
    <2> QED
        BY <1>7, <2>1 DEF BeginExecution, ring, Traced, ReadsItsSlot, Set
<1>8. CASE Complete
    BY <1>8 DEF Complete, bindings, Traced, ReadsItsSlot, Set
<1>9. CASE Fail
    BY <1>9 DEF Fail, ring, bindings, Traced, ReadsItsSlot, Set
<1>10. CASE UNCHANGED vars
    BY <1>10 DEF vars, ring, bindings, Traced, ReadsItsSlot, Set
<1> QED
    BY <1>1, <1>2, <1>3, <1>4, <1>5, <1>6, <1>7, <1>8, <1>9, <1>10 DEF Next

\* For an application that verifies the graph once, and before that gets no
\* parameter on a ring that has turned, agoUpdateDelaySlots gives every parameter
\* the data in its own slot.
THEOREM SlotsAreRead ==
    ASSUME VerifyOnce
    PROVE  Spec => []ReadsItsSlot
<1>1. Init => SlotInv
    BY SlotInit
<1>2. SlotInv /\ [Next]_vars => SlotInv'
    BY SlotStep
<1>3. SlotInv => ReadsItsSlot
    BY DEF SlotInv
<1> QED
    BY <1>1, <1>2, <1>3, PTL DEF Spec

\* agoExecuteGraph ages a registered delay once for every execution that it completes,
\* for vxRegisterAutoAging never enters a delay twice in the graph's list.
THEOREM OneAgingPerExecution == Spec => []AgesOncePerExecution
<1>1. Init => AgesOncePerExecution
    BY DEF Init, AgesOncePerExecution
<1>2. TypeOK /\ AgesOncePerExecution /\ [Next]_vars => AgesOncePerExecution'
    <2> SUFFICES ASSUME TypeOK, AgesOncePerExecution, [Next]_vars PROVE owed' = 0
        BY DEF AgesOncePerExecution
    <2>1. CASE Complete
        <3>1. Promised = autoAgeDelay
            BY DEF Promised, TypeOK
        <3> QED
            BY <2>1, <3>1 DEF Complete, AgesOncePerExecution, TypeOK
    <2>2. CASE ~ Complete
        BY <2>2 DEF Next, AgeDelay, GetParameter, VerifyGraph, CreateNode, RegisterAutoAging, SetParameter,
                    BeginExecution, Fail, vars, AgesOncePerExecution
    <2> QED
        BY <2>1, <2>2
<1> QED
    BY <1>1, <1>2, TypeCorrect, PTL DEF Spec
================================================================================
