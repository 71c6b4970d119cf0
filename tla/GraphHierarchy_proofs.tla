------------------------ MODULE GraphHierarchy_proofs ------------------------
(***************************************************************************)
(* GraphHierarchy, and GraphAllocation after it, proved for every graph:   *)
(* any number of nodes and data, in any roles, any kernels.  LevelInv is   *)
(* the invariant of the passes that assign levels, SortInv the one of the  *)
(* sort, AllocInv the one of targets, groups, buffers and execution.  At   *)
(* the end: no loop goes on for ever, and none gets stuck.                 *)
(***************************************************************************)
EXTENDS GraphAllocation, FiniteSetTheorems, WellFoundedInduction, TLAPS

LEMMA SmallConstants == Count \in Nat /\ Virtual \subseteq Data
    BY HierarchyAssumption

USE SmallConstants

--------------------------------------------------------------------------------
\* Nonempty sets of naturals have a least element, and the bounded ones a greatest.

LEMMA LeastElement ==
    ASSUME NEW T \in SUBSET Nat, T # {}
    PROVE  \E x \in T: \A y \in T: x <= y
<1> DEFINE R == {p \in Nat \X Nat: p[1] < p[2]}
<1>1. OpToRel(<, Nat) = R
    BY DEF OpToRel
<1>2. IsWellFoundedOn(R, Nat)
    BY <1>1, NatLessThanWellFounded
<1> HIDE DEF R
<1>3. PICK x \in T: \A y \in T: ~ (<<y, x>> \in R)
    BY <1>2, WFMin
<1>4. ASSUME NEW y \in T PROVE x <= y
    <2>1. ~ (<<y, x>> \in R)
        BY <1>3
    <2>2. <<y, x>> \in Nat \X Nat /\ <<y, x>>[1] = y /\ <<y, x>>[2] = x
        OBVIOUS
    <2>3. ~ (y < x)
        BY <2>1, <2>2 DEF R
    <2> QED
        BY <2>2, <2>3
<1> QED
    BY <1>4

LEMMA GreatestElement ==
    ASSUME NEW T \in SUBSET Nat, T # {}, NEW b \in Nat, \A x \in T: x <= b
    PROVE  \E x \in T: \A y \in T: x >= y
<1> DEFINE D == {b - x: x \in T}
<1>1. D \in SUBSET Nat
    <2> SUFFICES ASSUME NEW x \in T PROVE b - x \in Nat
        OBVIOUS
    <2>1. x \in Nat /\ x <= b
        OBVIOUS
    <2> QED
        BY <2>1
<1>0. D # {}
    OBVIOUS
<1>2. PICK d \in D: \A e \in D: d <= e
    BY <1>0, <1>1, LeastElement
<1>3. PICK x \in T: d = b - x
    BY <1>2
<1>4. ASSUME NEW y \in T PROVE x >= y
    <2>1. b - y \in D
        BY <1>4
    <2>2. b - x <= b - y /\ x \in Nat /\ y \in Nat
        BY <1>2, <1>3, <2>1
    <2> QED
        BY <2>2
<1> QED
    BY <1>3, <1>4

--------------------------------------------------------------------------------
(***************************************************************************)
(* The levels.  LevelInv says what each loop has established; WritersBelow *)
(* and Placed carry LevelsFollowData, Fed and the notes that Heads and     *)
(* Rest keep on the nodes already visited carry the verdicts.              *)
(***************************************************************************)
Unique == \A d \in Data: \A m, n \in Writers(d): m = n

\* The levels of a node and of the data it uses.
WritersBelow ==
    \A d \in Data: \A w \in Writers(d):
        dataLevel[d] # 0 => hierarchical_level[w] # 0 /\ hierarchical_level[w] < dataLevel[d]

Placed ==
    \A m, n \in Node:
        DependsOn(m, n) /\ hierarchical_level[m] # 0
            => hierarchical_level[n] # 0 /\ hierarchical_level[n] < hierarchical_level[m]

\* Data that nobody writes, and data whose writer has a level, has a level.
Fed ==
    \A d \in Data: Used(d) /\ (\A w \in Writers(d): hierarchical_level[w] # 0) => dataLevel[d] # 0

\* The levels that the head nodes leave behind.
Heads ==
    pc = "heads" =>
        /\ \A n \in Node: n >= i => hierarchical_level[n] = 0
        /\ \A n \in Node: n < i /\ Inputs(n) = {} => hierarchical_level[n] # 0
        /\ (\A n \in Node: hierarchical_level[n] = 0) =>
               /\ \A d \in Data: dataLevel[d] \in {0, 1}
               /\ \A n \in Node: n < i => ~ IsHead(n)

\* The passes over the rest: the last one found no node ready.
Rest ==
    pc = "rest" =>
        /\ \A n \in Node: Inputs(n) = {} => hierarchical_level[n] # 0
        /\ ~changed => \A n \in Node: n < i => ~ Ready(n)

Bounded == \E b \in Nat: \A d \in Data: dataLevel[d] <= b

LevelInv ==
    /\ TypeOK /\ Bounded
    /\ pc \notin {"sort", "sorted"} => nodeList = [n \in Node |-> n]
    /\ pc = "usage" => i = 1 /\ \A n \in Node: hierarchical_level[n] = 0
    /\ pc \in {"usage", "multiple_writers"} => \A d \in Data: dataLevel[d] = 0
    /\ pc = "multiple_writers" => ~ SingleWriters
    /\ pc \notin {"usage", "multiple_writers"} => Unique /\ SingleWriters /\ Fed
    /\ WritersBelow /\ Placed
    /\ Heads /\ Rest
    /\ pc \in {"sort", "sorted"} => \A n \in Node: hierarchical_level[n] # 0
    /\ pc = "cycle" /\ Count # 0 => Cyclic

LEMMA SingleIsUnique == SingleWriters => Unique
<1> SUFFICES ASSUME SingleWriters, NEW d \in Data, NEW m \in Writers(d), NEW n \in Writers(d), m # n
             PROVE  FALSE
    BY DEF Unique
<1>1. IsFiniteSet(Writers(d))
    <2>1. IsFiniteSet(1 .. Count)
        BY FS_Interval
    <2>2. Writers(d) \in SUBSET (1 .. Count)
        BY DEF Writers, Node
    <2> QED
        BY <2>1, <2>2, FS_Subset
<1>2. IsFiniteSet({m}) /\ Cardinality({m}) = 1
    BY FS_Singleton
<1>3. IsFiniteSet({m} \cup {n}) /\ Cardinality({m} \cup {n}) = 2
    <2>1. n \notin {m}
        OBVIOUS
    <2>2. IsFiniteSet({m} \cup {n}) /\ Cardinality({m} \cup {n}) = Cardinality({m}) + 1
        BY <1>2, <2>1, FS_AddElement
    <2> QED
        BY <1>2, <2>2
<1>4. Cardinality({m} \cup {n}) <= Cardinality(Writers(d)) /\ Cardinality(Writers(d)) \in Nat
    BY <1>1, FS_Subset, FS_CardinalityType
<1> QED
    BY <1>3, <1>4 DEF SingleWriters

\* The highest level of the inputs of a node that has some.
LEMMA LevelMaxIsBound ==
    ASSUME TypeOK, Bounded,
           NEW n \in Node, Inputs(n) # {}
    PROVE  /\ LevelMax(n) \in Nat
           /\ \A d \in Inputs(n): dataLevel[d] <= LevelMax(n)
           /\ \E d \in Data: LevelMax(n) = dataLevel[d]
<1> DEFINE T == {dataLevel[d]: d \in Inputs(n)}
<1>1. PICK b \in Nat: \A d \in Data: dataLevel[d] <= b
    BY DEF Bounded
<1>2. T \in SUBSET Nat /\ T # {} /\ \A x \in T: x <= b
    BY <1>1 DEF Inputs, TypeOK
<1>3. \E l \in T: \A y \in T: l >= y
    BY <1>2, GreatestElement
<1>4. \E l \in T: \A d \in Inputs(n): l >= dataLevel[d]
    BY <1>3
<1>5. LevelMax(n) \in T /\ \A d \in Inputs(n): LevelMax(n) >= dataLevel[d]
    BY <1>4 DEF LevelMax
<1>6. PICK d \in Inputs(n): LevelMax(n) = dataLevel[d]
    BY <1>5
<1> QED
    BY <1>2, <1>5, <1>6 DEF Inputs, TypeOK

\* A node that takes a level above the writers of its inputs keeps the order.
LEMMA MarkKeepsOrder ==
    ASSUME TypeOK, Unique, WritersBelow, Placed,
           NEW n \in Node, NEW L \in Nat \ {0}, hierarchical_level[n] = 0,
           \A d \in Inputs(n): \A w \in Writers(d): hierarchical_level[w] # 0 /\ hierarchical_level[w] < L,
           Mark(n, L), role' = role
    PROVE  WritersBelow' /\ Placed'
<1>1. \A m \in Node: hierarchical_level'[m] = IF m = n THEN L ELSE hierarchical_level[m]
    BY DEF Mark, TypeOK
<1>2. \A d \in Data: dataLevel'[d] = IF d \in Outputs(n) THEN L + 1 ELSE dataLevel[d]
    BY DEF Mark
<1>3. WritersBelow'
    <2> SUFFICES ASSUME NEW d \in Data, NEW w \in Writers(d), dataLevel'[d] # 0
                 PROVE  hierarchical_level'[w] # 0 /\ hierarchical_level'[w] < dataLevel'[d]
        BY DEF WritersBelow, Writers
    <2>0. w \in Node /\ hierarchical_level[w] \in Nat /\ dataLevel[d] \in Nat
        BY DEF Writers, TypeOK
    <2>1. CASE n \in Writers(d)
        <3>1. w = n /\ d \in Outputs(n)
            BY <2>1 DEF Unique, Writers, Outputs
        <3> QED
            BY <1>1, <1>2, <2>0, <3>1
    <2>2. CASE n \notin Writers(d) /\ d \in Outputs(n)
        <3>1. d \in Inputs(n)
            BY <2>2 DEF Writers, Outputs, Inputs
        <3> QED
            BY <1>1, <1>2, <2>0, <2>2, <3>1
    <2>3. CASE d \notin Outputs(n)
        <3>1. w # n
            BY <2>3 DEF Writers, Outputs
        <3> QED
            BY <1>1, <1>2, <2>0, <2>3, <3>1 DEF WritersBelow
    <2> QED
        BY <2>1, <2>2, <2>3
<1>4. Placed'
    <2> SUFFICES ASSUME NEW m \in Node, NEW k \in Node, DependsOn(m, k), hierarchical_level'[m] # 0
                 PROVE  hierarchical_level'[k] # 0 /\ hierarchical_level'[k] < hierarchical_level'[m]
        BY DEF Placed, DependsOn, Writers, Inputs
    <2>1. CASE m = n
        BY <1>1, <2>1 DEF DependsOn
    <2>2. CASE m # n
        BY <1>1, <2>2 DEF Placed
    <2> QED
        BY <2>1, <2>2
<1> QED
    BY <1>3, <1>4

\* A marked node's outputs have a level; the levels stay bounded.
LEMMA MarkKeepsFed ==
    ASSUME TypeOK, Fed, NEW n \in Node, NEW L \in Nat \ {0}, Mark(n, L), role' = role
    PROVE  Fed'
<1> SUFFICES ASSUME NEW d \in Data, Used(d), \A w \in Writers(d): hierarchical_level'[w] # 0
             PROVE  dataLevel'[d] # 0
    BY DEF Fed, Used, Writers
<1>1. CASE d \in Outputs(n)
    BY <1>1 DEF Mark
<1>2. CASE d \notin Outputs(n)
    <2>1. \A w \in Writers(d): hierarchical_level'[w] = hierarchical_level[w]
        BY <1>2 DEF Mark, Writers, Outputs, TypeOK
    <2> QED
        BY <1>2, <2>1 DEF Mark, Fed
<1> QED
    BY <1>1, <1>2

LEMMA MarkType ==
    ASSUME TypeOK, Bounded, NEW n \in Node, NEW L \in Nat, Mark(n, L)
    PROVE  /\ hierarchical_level' \in [Node -> Nat] /\ dataLevel' \in [Data -> Nat]
           /\ Bounded'
<1>1. PICK b \in Nat: \A d \in Data: dataLevel[d] <= b
    BY DEF Bounded
<1>2. \A d \in Data: dataLevel'[d] <= b + L + 1
    BY <1>1 DEF Mark, TypeOK
<1>3. b + L + 1 \in Nat
    OBVIOUS
<1>4. Bounded'
    BY <1>2, <1>3 DEF Bounded
<1> QED
    BY <1>4 DEF Mark, TypeOK

LEMMA LevelInit == Init => LevelInv
<1> SUFFICES ASSUME Init PROVE LevelInv
    OBVIOUS
<1>0. 1 \in 1 .. Count + 1 /\ FALSE \in BOOLEAN
    OBVIOUS
<1>1. TypeOK
    BY <1>0, HierarchyAssumption DEF Init, TypeOK
<1>2. Bounded
    <2>1. \A d \in Data: dataLevel[d] <= 0
        BY DEF Init
    <2> QED
        BY <2>1 DEF Bounded
<1>3. WritersBelow /\ Placed
    BY DEF Init, WritersBelow, Placed, Writers
<1>4. pc = "usage" /\ i = 1 /\ nodeList = [n \in Node |-> n]
      /\ (\A n \in Node: hierarchical_level[n] = 0) /\ (\A d \in Data: dataLevel[d] = 0)
    BY DEF Init
<1>5. Heads /\ Rest
    BY <1>4 DEF Heads, Rest
<1> QED
    BY <1>1, <1>2, <1>3, <1>4, <1>5 DEF LevelInv

\* What does not depend on the loop survives when no level changes.
LEMMA LevelsKept ==
    ASSUME LevelInv, UNCHANGED <<role, levels>>
    PROVE  /\ Bounded' /\ WritersBelow' /\ Placed'
           /\ Unique' = Unique /\ SingleWriters' = SingleWriters /\ Fed' = Fed
           /\ Cyclic' = Cyclic
           /\ \A n \in Node: Inputs(n)' = Inputs(n)
<1>0. role' = role /\ hierarchical_level' = hierarchical_level /\ dataLevel' = dataLevel
    BY DEF levels
<1>1. Bounded'
    BY <1>0 DEF LevelInv, Bounded
<1>2. WritersBelow'
    BY <1>0 DEF LevelInv, WritersBelow, Writers
<1>3. Placed'
    BY <1>0 DEF LevelInv, Placed, DependsOn, Writers, Inputs
<1>4. Unique' = Unique /\ SingleWriters' = SingleWriters /\ Fed' = Fed
    BY <1>0 DEF Unique, SingleWriters, Fed, Used, Writers
<1>5. Cyclic' = Cyclic
    BY <1>0 DEF Cyclic, DependsOn, Writers, Inputs
<1>6. \A n \in Node: Inputs(n)' = Inputs(n)
    BY <1>0 DEF Inputs
<1> QED
    BY <1>1, <1>2, <1>3, <1>4, <1>5, <1>6

\* Nodes without a level that each read data without a level wait for each other.
LEMMA WaitingIsCyclic ==
    ASSUME TypeOK, Fed,
           NEW S \in SUBSET Node, S # {},
           \A n \in Node: n \in S <=> hierarchical_level[n] = 0,
           \A n \in S: \E d \in Inputs(n): dataLevel[d] = 0
    PROVE  Cyclic
<1>1. ASSUME NEW m \in S PROVE \E n \in S: DependsOn(m, n)
    <2>1. PICK d \in Inputs(m): dataLevel[d] = 0
        OBVIOUS
    <2>2. d \in Data /\ Used(d)
        BY <2>1 DEF Inputs, Used
    <2>3. PICK w \in Writers(d): hierarchical_level[w] = 0
        BY <2>1, <2>2 DEF Fed
    <2>4. w \in Node
        BY DEF Writers
    <2> QED
        BY <2>1, <2>2, <2>3, <2>4 DEF DependsOn
<1> QED
    BY <1>1 DEF Cyclic

LEMMA CheckUsageKeepsLevels == LevelInv /\ CheckUsage => LevelInv'
<1> SUFFICES ASSUME LevelInv, CheckUsage PROVE LevelInv'
    OBVIOUS
<1>0. /\ pc = "usage" /\ i = 1 /\ i' = 1
      /\ role' = role /\ hierarchical_level' = hierarchical_level
      /\ nodeList' = nodeList /\ changed' = changed
      /\ nodeList = [n \in Node |-> n]
      /\ \A n \in Node: hierarchical_level[n] = 0
    BY DEF LevelInv, CheckUsage
<1>1. CASE SingleWriters
    <2>1. pc' = "heads" /\ dataLevel' = [d \in Data |-> IF Used(d) /\ Writers(d) = {} THEN 1 ELSE 0]
        BY <1>1 DEF CheckUsage
    <2>2. \A d \in Data: dataLevel'[d] \in {0, 1} /\ (dataLevel'[d] # 0 <=> Used(d) /\ Writers(d) = {})
        BY <2>1
    <2>3. TypeOK'
        BY <1>0, <2>1 DEF LevelInv, TypeOK
    <2>4. Bounded'
        <3>1. \A d \in Data: dataLevel'[d] <= 1
            BY <2>2
        <3> QED
            BY <3>1 DEF Bounded
    <2>5. Unique' /\ SingleWriters'
        BY <1>0, <1>1, SingleIsUnique DEF Unique, SingleWriters, Used, Writers
    <2>6. Fed'
        <3> SUFFICES ASSUME NEW d \in Data, Used(d), \A w \in Writers(d): hierarchical_level[w] # 0
                     PROVE  dataLevel'[d] # 0
            BY <1>0 DEF Fed, Used, Writers
        <3>1. Writers(d) = {}
            BY <1>0 DEF Writers
        <3> QED
            BY <2>2, <3>1
    <2>7. WritersBelow'
        BY <1>0, <2>2 DEF WritersBelow, Writers
    <2>8. Placed'
        BY <1>0 DEF Placed
    <2>9. Heads'
        BY <1>0, <2>1, <2>2 DEF Heads, Node
    <2>10. Rest'
        BY <2>1 DEF Rest
    <2> QED
        BY <1>0, <2>1, <2>3, <2>4, <2>5, <2>6, <2>7, <2>8, <2>9, <2>10 DEF LevelInv
<1>2. CASE ~ SingleWriters
    <2>1. pc' = "multiple_writers" /\ dataLevel' = dataLevel /\ UNCHANGED <<role, levels>>
        BY <1>0, <1>2 DEF CheckUsage, levels
    <2>2. TypeOK'
        BY <1>0, <2>1 DEF LevelInv, TypeOK
    <2>3. Heads' /\ Rest'
        BY <2>1 DEF Heads, Rest
    <2> QED
        BY <1>0, <1>2, <2>1, <2>2, <2>3, LevelsKept DEF LevelInv
<1> QED
    BY <1>1, <1>2

LEMMA HeadNodeKeepsLevels == LevelInv /\ HeadNode => LevelInv'
<1> SUFFICES ASSUME LevelInv, HeadNode PROVE LevelInv'
    OBVIOUS
<1>0. /\ pc = "heads" /\ pc' = "heads" /\ i <= Count /\ i \in Node /\ nodeList[i] = i
      /\ role' = role /\ nodeList' = nodeList /\ changed' = changed /\ i' = i + 1
      /\ i + 1 \in 1 .. Count + 1
      /\ TypeOK /\ Bounded /\ Unique /\ SingleWriters /\ Fed /\ WritersBelow /\ Placed /\ Heads
    BY DEF LevelInv, HeadNode, TypeOK, Node
<1>1. hierarchical_level[i] = 0
    BY <1>0 DEF Heads, TypeOK, Node
<1>2. Unique' /\ SingleWriters'
    BY <1>0 DEF Unique, SingleWriters, Used, Writers
<1>3. Rest'
    BY <1>0 DEF Rest
<1>4. CASE IsHead(i)
    <2>1. Mark(i, 1)
        BY <1>0, <1>4 DEF HeadNode
    <2>2. \A d \in Inputs(i): \A w \in Writers(d): hierarchical_level[w] # 0 /\ hierarchical_level[w] < 1
        <3> SUFFICES ASSUME NEW d \in Inputs(i), NEW w \in Writers(d) PROVE FALSE
            OBVIOUS
        <3>1. dataLevel[d] = 1 /\ d \in Data /\ w \in Node
            BY <1>4 DEF IsHead, Inputs, Writers
        <3>2. hierarchical_level[w] # 0 /\ hierarchical_level[w] < 1
            BY <1>0, <3>1 DEF WritersBelow
        <3> QED
            BY <1>0, <3>1, <3>2 DEF TypeOK
    <2>3. WritersBelow' /\ Placed'
        BY <1>0, <1>1, <2>1, <2>2, MarkKeepsOrder
    <2>4. Fed'
        BY <1>0, <2>1, MarkKeepsFed
    <2>5. /\ hierarchical_level' \in [Node -> Nat] /\ dataLevel' \in [Data -> Nat]
          /\ Bounded'
        BY <1>0, <2>1, MarkType
    <2>6. TypeOK'
        BY <1>0, <2>5 DEF TypeOK
    <2>7. \A n \in Node: hierarchical_level'[n] = IF n = i THEN 1 ELSE hierarchical_level[n]
        BY <1>0, <2>1 DEF Mark, TypeOK
    <2>8. Heads'
        <3>0. \A n \in Node: /\ n >= i + 1 => n >= i /\ n # i
                             /\ n < i + 1 => n < i \/ n = i
            BY <1>0 DEF Node
        <3>1. \A n \in Node: n >= i + 1 => hierarchical_level'[n] = 0
            BY <1>0, <2>7, <3>0 DEF Heads
        <3>2. \A n \in Node: n < i + 1 /\ Inputs(n)' = {} => hierarchical_level'[n] # 0
            <4>1. \A n \in Node: Inputs(n)' = Inputs(n)
                BY <1>0 DEF Inputs
            <4> QED
                BY <1>0, <2>7, <3>0, <4>1 DEF Heads
        <3>3. hierarchical_level'[i] # 0
            BY <1>0, <2>7
        <3> QED
            BY <1>0, <3>1, <3>2, <3>3 DEF Heads
    <2> QED
        BY <1>0, <1>2, <1>3, <2>3, <2>4, <2>5, <2>6, <2>8 DEF LevelInv
<1>5. CASE ~ IsHead(i)
    <2>1. UNCHANGED levels /\ UNCHANGED <<role, levels>>
        BY <1>0, <1>5 DEF HeadNode
    <2>2. hierarchical_level' = hierarchical_level /\ dataLevel' = dataLevel
        BY <2>1 DEF levels
    <2>3. TypeOK'
        BY <1>0, <2>2 DEF TypeOK
    <2>4. Inputs(i) # {}
        BY <1>5 DEF IsHead
    <2>5. \A n \in Node: n < i + 1 <=> (n < i \/ n = i)
        BY <1>0 DEF Node
    <2>6. \A n \in Node: IsHead(n)' = IsHead(n)
        BY <1>0, <2>2 DEF IsHead, Inputs
    <2>7. Heads'
        <3>1. \A n \in Node: n >= i + 1 => hierarchical_level[n] = 0
            BY <1>0 DEF Heads, TypeOK, Node
        <3>2. \A n \in Node: n < i + 1 /\ Inputs(n) = {} => hierarchical_level[n] # 0
            BY <1>0, <2>4, <2>5 DEF Heads
        <3>3. (\A n \in Node: hierarchical_level[n] = 0) =>
                 /\ \A d \in Data: dataLevel[d] \in {0, 1}
                 /\ \A n \in Node: n < i + 1 => ~ IsHead(n)
            BY <1>0, <1>5, <2>5 DEF Heads
        <3> QED
            BY <1>0, <2>1, <2>2, <2>6, <3>1, <3>2, <3>3, LevelsKept DEF Heads
    <2> QED
        BY <1>0, <1>2, <1>3, <2>1, <2>3, <2>7, LevelsKept DEF LevelInv
<1> QED
    BY <1>4, <1>5

LEMMA NoHeadNodeKeepsLevels == LevelInv /\ NoHeadNode => LevelInv'
<1> SUFFICES ASSUME LevelInv, NoHeadNode PROVE LevelInv'
    OBVIOUS
<1>0. /\ pc = "heads" /\ pc' = "cycle" /\ i > Count /\ i' = i
      /\ role' = role /\ nodeList' = nodeList /\ changed' = changed
      /\ hierarchical_level' = hierarchical_level /\ dataLevel' = dataLevel
      /\ UNCHANGED <<role, levels>>
      /\ \A n \in Node: hierarchical_level[n] = 0
      /\ TypeOK /\ Fed /\ Heads
    BY DEF LevelInv, NoHeadNode, levels
<1>1. TypeOK'
    BY <1>0 DEF TypeOK
<1>2. Heads' /\ Rest'
    BY <1>0 DEF Heads, Rest
<1>3. Count # 0 => Cyclic
    <2> SUFFICES ASSUME Count # 0 PROVE Cyclic
        OBVIOUS
    <2>1. 1 \in Node
        BY DEF Node
    <2>2. ASSUME NEW n \in Node PROVE \E d \in Inputs(n): dataLevel[d] = 0
        <3>1. n < i
            BY <1>0 DEF Node, TypeOK
        <3>2. ~ IsHead(n) /\ \A d \in Data: dataLevel[d] \in {0, 1}
            BY <1>0, <3>1 DEF Heads
        <3> QED
            BY <3>2 DEF IsHead, Inputs
    <2> QED
        BY <1>0, <2>1, <2>2, WaitingIsCyclic
<1> QED
    BY <1>0, <1>1, <1>2, <1>3, LevelsKept DEF LevelInv

LEMMA HeadNodesDoneKeepsLevels == LevelInv /\ HeadNodesDone => LevelInv'
<1> SUFFICES ASSUME LevelInv, HeadNodesDone PROVE LevelInv'
    OBVIOUS
<1>0. /\ pc = "heads" /\ pc' = "rest" /\ i > Count /\ i' = 1 /\ changed' = FALSE
      /\ role' = role /\ nodeList' = nodeList
      /\ hierarchical_level' = hierarchical_level /\ dataLevel' = dataLevel
      /\ UNCHANGED <<role, levels>>
      /\ TypeOK /\ Heads
    BY DEF LevelInv, HeadNodesDone, levels
<1>1. TypeOK'
    <2>1. 1 \in 1 .. Count + 1 /\ FALSE \in BOOLEAN
        OBVIOUS
    <2> QED
        BY <1>0, <2>1 DEF TypeOK
<1>2. Heads'
    BY <1>0 DEF Heads
<1>3. \A n \in Node: n < i /\ ~ (n < 1)
    BY <1>0 DEF Node, TypeOK
<1>4. \A n \in Node: Inputs(n) = {} => hierarchical_level[n] # 0
    BY <1>0, <1>3 DEF Heads
<1>5. Rest'
    BY <1>0, <1>3, <1>4, LevelsKept DEF Rest
<1> QED
    BY <1>0, <1>1, <1>2, <1>5, LevelsKept DEF LevelInv

LEMMA VisitNodeKeepsLevels == LevelInv /\ VisitNode => LevelInv'
<1> SUFFICES ASSUME LevelInv, VisitNode PROVE LevelInv'
    OBVIOUS
<1>0. /\ pc = "rest" /\ pc' = "rest" /\ i <= Count /\ i \in Node /\ nodeList[i] = i
      /\ role' = role /\ nodeList' = nodeList /\ i' = i + 1
      /\ i + 1 \in 1 .. Count + 1
      /\ TypeOK /\ Bounded /\ Unique /\ SingleWriters /\ Fed /\ WritersBelow /\ Placed /\ Rest
    BY DEF LevelInv, VisitNode, TypeOK, Node
<1>1. Unique' /\ SingleWriters'
    BY <1>0 DEF Unique, SingleWriters, Used, Writers
<1>2. Heads'
    BY <1>0 DEF Heads
<1>3. CASE Ready(i)
    <2>1. Mark(i, LevelMax(i)) /\ changed' = TRUE
        BY <1>0, <1>3 DEF VisitNode
    <2>2. hierarchical_level[i] = 0 /\ \A d \in Inputs(i): dataLevel[d] > 0
        BY <1>3 DEF Ready
    <2>3. Inputs(i) # {}
        BY <1>0, <2>2 DEF Rest
    <2>4. /\ LevelMax(i) \in Nat
          /\ \A d \in Inputs(i): dataLevel[d] <= LevelMax(i)
        BY <1>0, <2>3, LevelMaxIsBound
    <2>5. LevelMax(i) \in Nat \ {0}
        <3>1. PICK d \in Inputs(i): TRUE
            BY <2>3
        <3>2. dataLevel[d] > 0 /\ dataLevel[d] <= LevelMax(i) /\ dataLevel[d] \in Nat
            BY <1>0, <2>2, <2>4 DEF TypeOK, Inputs
        <3> QED
            BY <2>4, <3>2
    <2>6. \A d \in Inputs(i): \A w \in Writers(d):
              hierarchical_level[w] # 0 /\ hierarchical_level[w] < LevelMax(i)
        <3> SUFFICES ASSUME NEW d \in Inputs(i), NEW w \in Writers(d)
                     PROVE  hierarchical_level[w] # 0 /\ hierarchical_level[w] < LevelMax(i)
            OBVIOUS
        <3>1. d \in Data /\ w \in Node /\ dataLevel[d] > 0 /\ dataLevel[d] <= LevelMax(i)
            BY <2>2, <2>4 DEF Inputs, Writers
        <3>2. hierarchical_level[w] \in Nat /\ dataLevel[d] \in Nat
            BY <1>0, <3>1 DEF TypeOK
        <3>3. hierarchical_level[w] # 0 /\ hierarchical_level[w] < dataLevel[d]
            BY <1>0, <3>1, <3>2 DEF WritersBelow
        <3> QED
            BY <2>4, <3>1, <3>2, <3>3
    <2>7. WritersBelow' /\ Placed'
        BY <1>0, <2>1, <2>2, <2>5, <2>6, MarkKeepsOrder
    <2>8. Fed'
        BY <1>0, <2>1, <2>5, MarkKeepsFed
    <2>9. /\ hierarchical_level' \in [Node -> Nat] /\ dataLevel' \in [Data -> Nat]
          /\ Bounded'
        BY <1>0, <2>1, <2>4, MarkType
    <2>10. TypeOK'
        BY <1>0, <2>1, <2>9 DEF TypeOK
    <2>11. \A n \in Node: hierarchical_level[n] # 0 => hierarchical_level'[n] # 0
        BY <1>0, <2>1, <2>5 DEF Mark, TypeOK
    <2>12. Rest'
        <3>1. \A n \in Node: Inputs(n)' = {} => hierarchical_level'[n] # 0
            BY <1>0, <2>11 DEF Rest, Inputs
        <3> QED
            BY <2>1, <3>1 DEF Rest
    <2> QED
        BY <1>0, <1>1, <1>2, <2>7, <2>8, <2>9, <2>10, <2>12 DEF LevelInv
<1>4. CASE ~ Ready(i)
    <2>1. UNCHANGED levels /\ changed' = changed /\ UNCHANGED <<role, levels>>
        BY <1>0, <1>4 DEF VisitNode
    <2>2. hierarchical_level' = hierarchical_level /\ dataLevel' = dataLevel
        BY <2>1 DEF levels
    <2>3. TypeOK'
        BY <1>0, <2>1, <2>2 DEF TypeOK
    <2>4. \A n \in Node: n < i + 1 <=> (n < i \/ n = i)
        BY <1>0 DEF Node
    <2>5. \A n \in Node: Ready(n)' = Ready(n)
        BY <1>0, <2>2 DEF Ready, Inputs
    <2>6. ~ changed => \A n \in Node: n < i + 1 => ~ Ready(n)
        BY <1>0, <1>4, <2>4 DEF Rest
    <2>7. Rest'
        BY <1>0, <2>1, <2>2, <2>5, <2>6, LevelsKept DEF Rest
    <2> QED
        BY <1>0, <1>1, <1>2, <2>1, <2>3, <2>7, LevelsKept DEF LevelInv
<1> QED
    BY <1>3, <1>4

LEMMA NextPassKeepsLevels == LevelInv /\ NextPass => LevelInv'
<1> SUFFICES ASSUME LevelInv, NextPass PROVE LevelInv'
    OBVIOUS
<1>0. /\ pc = "rest" /\ pc' = "rest" /\ i' = 1 /\ changed' = FALSE
      /\ role' = role /\ nodeList' = nodeList
      /\ hierarchical_level' = hierarchical_level /\ dataLevel' = dataLevel
      /\ UNCHANGED <<role, levels>>
      /\ TypeOK /\ Rest
    BY DEF LevelInv, NextPass, levels
<1>1. TypeOK'
    <2>1. 1 \in 1 .. Count + 1 /\ FALSE \in BOOLEAN
        OBVIOUS
    <2> QED
        BY <1>0, <2>1 DEF TypeOK
<1>2. Heads'
    BY <1>0 DEF Heads
<1>3. \A n \in Node: ~ (n < 1)
    BY DEF Node
<1>4. Rest'
    BY <1>0, <1>3, LevelsKept DEF Rest
<1> QED
    BY <1>0, <1>1, <1>2, <1>4, LevelsKept DEF LevelInv

LEMMA PassesDoneKeepsLevels == LevelInv /\ PassesDone => LevelInv'
<1> SUFFICES ASSUME LevelInv, PassesDone PROVE LevelInv'
    OBVIOUS
<1>0. /\ pc = "rest" /\ i > Count /\ i' = 1 /\ ~ changed /\ changed' = changed
      /\ role' = role /\ nodeList' = nodeList
      /\ hierarchical_level' = hierarchical_level /\ dataLevel' = dataLevel
      /\ UNCHANGED <<role, levels>>
      /\ pc' = IF \A n \in Node: hierarchical_level[n] # 0 THEN "sort" ELSE "cycle"
      /\ TypeOK /\ Fed /\ Rest
    BY DEF LevelInv, PassesDone, levels
<1>1. TypeOK'
    <2>1. 1 \in 1 .. Count + 1 /\ pc' \in {"sort", "cycle"}
        BY <1>0
    <2> QED
        BY <1>0, <2>1 DEF TypeOK
<1>2. Heads' /\ Rest'
    BY <1>0 DEF Heads, Rest
<1>3. CASE \A n \in Node: hierarchical_level[n] # 0
    <2>1. pc' = "sort"
        BY <1>0, <1>3
    <2> QED
        BY <1>0, <1>1, <1>2, <1>3, <2>1, LevelsKept DEF LevelInv
<1>4. CASE ~ \A n \in Node: hierarchical_level[n] # 0
    <2> DEFINE S == {n \in Node: hierarchical_level[n] = 0}
    <2>1. pc' = "cycle"
        BY <1>0, <1>4
    <2>2. S # {} /\ S \in SUBSET Node
        BY <1>4
    <2>3. ASSUME NEW n \in S PROVE \E d \in Inputs(n): dataLevel[d] = 0
        <3>1. n < i
            BY <1>0 DEF Node, TypeOK
        <3>2. PICK d \in Inputs(n): ~ (dataLevel[d] > 0)
            BY <1>0, <3>1 DEF Rest, Ready
        <3> QED
            BY <1>0, <3>2 DEF TypeOK, Inputs
    <2>4. \A n \in Node: n \in S <=> hierarchical_level[n] = 0
        OBVIOUS
    <2> HIDE DEF S
    <2>5. Cyclic
        BY <1>0, <2>2, <2>3, <2>4, WaitingIsCyclic
    <2> QED
        BY <1>0, <1>1, <1>2, <2>1, <2>5, LevelsKept DEF LevelInv
<1> QED
    BY <1>3, <1>4

LEMMA SortKeepsLevels == LevelInv /\ (SortPair \/ SortAgain \/ SortDone) => LevelInv'
<1> SUFFICES ASSUME LevelInv, SortPair \/ SortAgain \/ SortDone PROVE LevelInv'
    OBVIOUS
<1>0. /\ pc = "sort" /\ pc' \in {"sort", "sorted"}
      /\ role' = role /\ hierarchical_level' = hierarchical_level /\ dataLevel' = dataLevel
      /\ UNCHANGED <<role, levels>>
      /\ TypeOK
    BY DEF LevelInv, SortPair, SortAgain, SortDone, levels
<1>1. nodeList' \in [Node -> Node] /\ i' \in 1 .. Count + 1 /\ changed' \in BOOLEAN
    <2>1. CASE SortPair
        <3>1. i \in Node /\ i + 1 \in Node /\ i' = i + 1 /\ i + 1 \in 1 .. Count + 1
            BY <1>0, <2>1 DEF SortPair, TypeOK, Node
        <3>2. CASE OutOfOrder(i)
            <4>1. nodeList' = [nodeList EXCEPT ![i] = nodeList[i + 1], ![i + 1] = nodeList[i]]
                BY <2>1, <3>2 DEF SortPair
            <4>2. changed' = TRUE /\ TRUE \in BOOLEAN
                BY <2>1, <3>2 DEF SortPair
            <4>3. nodeList \in [Node -> Node]
                BY <1>0 DEF TypeOK
            <4>4. nodeList' \in [Node -> Node]
                BY <3>1, <4>1, <4>3
            <4> QED
                BY <3>1, <4>2, <4>4
        <3>3. CASE ~ OutOfOrder(i)
            <4>1. nodeList' = nodeList /\ changed' = changed
                BY <2>1, <3>3 DEF SortPair
            <4> QED
                BY <1>0, <3>1, <4>1 DEF TypeOK
        <3> QED
            BY <3>2, <3>3
    <2>2. CASE SortAgain
        <3>1. nodeList' = nodeList /\ i' = 1 /\ changed' = FALSE
            BY <2>2 DEF SortAgain
        <3>2. changed' \in BOOLEAN
            BY <3>1
        <3>3. i' \in 1 .. Count + 1
            BY <3>1
        <3> QED
            BY <1>0, <3>1, <3>2, <3>3 DEF TypeOK
    <2>3. CASE SortDone
        BY <1>0, <2>3 DEF SortDone, TypeOK
    <2> QED
        BY <2>1, <2>2, <2>3
<1>2. TypeOK'
    BY <1>0, <1>1 DEF TypeOK
<1>3. Heads' /\ Rest'
    BY <1>0 DEF Heads, Rest
<1> QED
    BY <1>0, <1>2, <1>3, LevelsKept DEF LevelInv

LEMMA LevelStep == LevelInv /\ [Next]_vars => LevelInv'
<1> SUFFICES ASSUME LevelInv, [Next]_vars PROVE LevelInv'
    OBVIOUS
<1>1. CASE UNCHANGED vars
    <2>1. UNCHANGED <<role, levels>> /\ nodeList' = nodeList /\ pc' = pc /\ i' = i /\ changed' = changed
          /\ role' = role /\ hierarchical_level' = hierarchical_level /\ dataLevel' = dataLevel
        BY <1>1 DEF vars, levels
    <2>2. TypeOK'
        BY <2>1 DEF LevelInv, TypeOK
    <2>3. Heads'
        BY <2>1 DEF LevelInv, Heads, IsHead, Inputs
    <2>4. Rest'
        BY <2>1 DEF LevelInv, Rest, Ready, Inputs
    <2> QED
        BY <2>1, <2>2, <2>3, <2>4, LevelsKept DEF LevelInv
<1> QED
    BY <1>1, CheckUsageKeepsLevels, HeadNodeKeepsLevels, NoHeadNodeKeepsLevels, HeadNodesDoneKeepsLevels,
       VisitNodeKeepsLevels, NextPassKeepsLevels, PassesDoneKeepsLevels, SortKeepsLevels DEF Next

--------------------------------------------------------------------------------
(***************************************************************************)
(* The sort.  A pass that has exchanged nothing so far leaves the list     *)
(* ordered up to the position it has reached.                              *)
(***************************************************************************)
Ordered(last) ==
    \A j, k \in Node: j <= k /\ k <= last
        => hierarchical_level[nodeList[j]] <= hierarchical_level[nodeList[k]]

SortInv ==
    /\ \A n \in Node: \E k \in Node: nodeList[k] = n
    /\ SortIsStable
    /\ pc = "sort" /\ ~ changed => Ordered(i)
    /\ pc = "sorted" => Ordered(Count)

LEMMA IdentityIsSorted ==
    nodeList = [n \in Node |-> n] => (\A n \in Node: \E k \in Node: nodeList[k] = n) /\ SortIsStable
BY DEF SortIsStable

LEMMA FirstIsOrdered == TypeOK => Ordered(1)
<1> SUFFICES ASSUME TypeOK, NEW j \in Node, NEW k \in Node, j <= k, k <= 1
             PROVE  hierarchical_level[nodeList[j]] <= hierarchical_level[nodeList[k]]
    BY DEF Ordered
<1>1. j = k /\ hierarchical_level[nodeList[j]] \in Nat
    BY DEF Node, TypeOK
<1> QED
    BY <1>1

LEMMA SortPairKeepsSort == LevelInv /\ SortInv /\ SortPair => SortInv'
<1> SUFFICES ASSUME LevelInv, SortInv, SortPair PROVE SortInv'
    OBVIOUS
<1>0. /\ pc = "sort" /\ pc' = "sort" /\ i \in Node /\ i + 1 \in Node /\ i' = i + 1
      /\ hierarchical_level' = hierarchical_level
      /\ nodeList \in [Node -> Node] /\ \A n \in Node: hierarchical_level[n] \in Nat
    <2>1. TypeOK
        BY DEF LevelInv
    <2>2. i \in Node /\ i + 1 \in Node
        BY <2>1 DEF SortPair, TypeOK, Node
    <2> QED
        BY <2>1, <2>2 DEF SortPair, TypeOK, levels
<1>1. CASE OutOfOrder(i)
    <2> DEFINE p(k) == IF k = i THEN i + 1 ELSE IF k = i + 1 THEN i ELSE k
    <2>1. nodeList' = [nodeList EXCEPT ![i] = nodeList[i + 1], ![i + 1] = nodeList[i]]
        BY <1>1 DEF SortPair
    <2>2. changed' = TRUE
        BY <1>1 DEF SortPair
    <2>3. \A k \in Node: p(k) \in Node /\ p(p(k)) = k
        BY <1>0 DEF Node
    <2>4. \A k \in Node: nodeList'[k] = nodeList[p(k)]
        BY <1>0, <2>1 DEF Node
    <2>5. \A j, k \in Node: j < k => p(j) < p(k) \/ (j = i /\ k = i + 1)
        BY <1>0 DEF Node
    <2>6. p(i) = i + 1 /\ p(i + 1) = i
        BY <1>0 DEF Node
    <2> HIDE DEF p
    <2>7. \A n \in Node: \E k \in Node: nodeList'[k] = n
        <3> SUFFICES ASSUME NEW n \in Node PROVE \E k \in Node: nodeList'[k] = n
            OBVIOUS
        <3>1. PICK k \in Node: nodeList[k] = n
            BY DEF SortInv
        <3>2. p(k) \in Node /\ nodeList'[p(k)] = n
            BY <2>3, <2>4, <3>1
        <3> QED
            BY <3>2
    <2>8. SortIsStable'
        <3> SUFFICES ASSUME NEW j \in Node, NEW k \in Node, j < k,
                            hierarchical_level[nodeList'[j]] = hierarchical_level[nodeList'[k]]
                     PROVE  nodeList'[j] < nodeList'[k]
            BY <1>0 DEF SortIsStable
        <3>1. hierarchical_level[nodeList[p(j)]] = hierarchical_level[nodeList[p(k)]]
            BY <2>4
        <3>2. ~ (j = i /\ k = i + 1)
            <4>1. hierarchical_level[nodeList[i + 1]] # hierarchical_level[nodeList[i]]
                BY <1>0, <1>1 DEF OutOfOrder
            <4> QED
                BY <2>6, <3>1, <4>1
        <3>3. p(j) < p(k) /\ p(j) \in Node /\ p(k) \in Node
            BY <2>3, <2>5, <3>2
        <3>4. nodeList[p(j)] < nodeList[p(k)]
            BY <3>1, <3>3 DEF SortInv, SortIsStable
        <3> QED
            BY <2>4, <3>4
    <2> QED
        BY <1>0, <2>2, <2>7, <2>8 DEF SortInv
<1>2. CASE ~ OutOfOrder(i)
    <2>1. nodeList' = nodeList /\ changed' = changed
        BY <1>2 DEF SortPair
    <2>2. SortIsStable'
        BY <1>0, <2>1 DEF SortInv, SortIsStable
    <2>3. ~ changed => Ordered(i + 1)
        <3> SUFFICES ASSUME ~ changed, NEW j \in Node, NEW k \in Node, j <= k, k <= i + 1
                     PROVE  hierarchical_level[nodeList[j]] <= hierarchical_level[nodeList[k]]
            BY DEF Ordered
        <3>0. Ordered(i)
            BY <1>0 DEF SortInv
        <3>1. CASE k <= i
            BY <3>0, <3>1 DEF Ordered
        <3>2. CASE j = i + 1
            <4>1. j = k
                BY <1>0, <3>2 DEF Node
            <4> QED
                BY <1>0, <4>1
        <3>3. CASE k = i + 1 /\ j <= i
            <4>1. hierarchical_level[nodeList[j]] <= hierarchical_level[nodeList[i]]
                <5>1. i <= i
                    BY <1>0 DEF Node
                <5> QED
                    BY <1>0, <3>0, <3>3, <5>1 DEF Ordered
            <4>2. hierarchical_level[nodeList[i]] <= hierarchical_level[nodeList[i + 1]]
                BY <1>0, <1>2 DEF OutOfOrder
            <4>3. /\ hierarchical_level[nodeList[j]] \in Nat /\ hierarchical_level[nodeList[i]] \in Nat
                  /\ hierarchical_level[nodeList[i + 1]] \in Nat
                BY <1>0
            <4> QED
                BY <3>3, <4>1, <4>2, <4>3
        <3>4. k <= i \/ j = i + 1 \/ (k = i + 1 /\ j <= i)
            BY <1>0 DEF Node
        <3> QED
            BY <3>1, <3>2, <3>3, <3>4
    <2>4. pc' = "sort" /\ ~ changed' => Ordered(i)'
        BY <1>0, <2>1, <2>3 DEF Ordered
    <2> QED
        BY <1>0, <2>1, <2>2, <2>4 DEF SortInv
<1> QED
    BY <1>1, <1>2

LEMMA SortStep == LevelInv /\ LevelInv' /\ SortInv /\ [Next]_vars => SortInv'
<1> SUFFICES ASSUME LevelInv, LevelInv', SortInv, [Next]_vars PROVE SortInv'
    OBVIOUS
\* The list is in creation order until the sort begins.
<1>1. CASE pc' \notin {"sort", "sorted"}
    <2>1. nodeList' = [n \in Node |-> n]
        BY <1>1 DEF LevelInv
    <2>2. (\A n \in Node: \E k \in Node: nodeList'[k] = n) /\ SortIsStable'
        BY <2>1 DEF SortIsStable
    <2> QED
        BY <1>1, <2>2 DEF SortInv
<1>2. CASE PassesDone /\ pc' = "sort"
    <2>1. nodeList' = [n \in Node |-> n] /\ i' = 1
        BY <1>2 DEF PassesDone, LevelInv
    <2>2. (\A n \in Node: \E k \in Node: nodeList'[k] = n) /\ SortIsStable'
        BY <2>1 DEF SortIsStable
    <2>3. Ordered(1)'
        <3>1. TypeOK'
            BY DEF LevelInv
        <3> SUFFICES ASSUME NEW j \in Node, NEW k \in Node, j <= k, k <= 1
                     PROVE  hierarchical_level'[nodeList'[j]] <= hierarchical_level'[nodeList'[k]]
            BY DEF Ordered
        <3>2. j = k /\ hierarchical_level'[nodeList'[j]] \in Nat
            BY <3>1 DEF Node, TypeOK
        <3> QED
            BY <3>2
    <2>4. Ordered(i)'
        BY <2>1, <2>3 DEF Ordered
    <2> QED
        BY <1>2, <2>2, <2>4 DEF SortInv
<1>3. CASE SortPair
    BY <1>3, SortPairKeepsSort
<1>4. CASE SortAgain
    <2>1. nodeList' = nodeList /\ hierarchical_level' = hierarchical_level /\ i' = 1 /\ pc' = "sort" /\ TypeOK
        BY <1>4 DEF SortAgain, levels, LevelInv
    <2>2. Ordered(i)'
        BY <2>1, FirstIsOrdered DEF Ordered
    <2>3. SortIsStable'
        BY <2>1 DEF SortInv, SortIsStable
    <2> QED
        BY <2>1, <2>2, <2>3 DEF SortInv
<1>5. CASE SortDone
    <2>1. /\ nodeList' = nodeList /\ hierarchical_level' = hierarchical_level /\ pc' = "sorted"
          /\ pc = "sort" /\ ~ changed /\ Count <= i /\ i \in Nat
        BY <1>5 DEF SortDone, levels, LevelInv, TypeOK
    <2>2. \A k \in Node: k <= Count => k <= i
        BY <2>1 DEF Node
    <2>3. Ordered(Count)
        BY <2>1, <2>2 DEF SortInv, Ordered
    <2>4. Ordered(Count)' /\ SortIsStable'
        BY <2>1, <2>3 DEF SortInv, SortIsStable, Ordered
    <2> QED
        BY <2>1, <2>4 DEF SortInv
<1>6. CASE UNCHANGED vars
    <2>1. nodeList' = nodeList /\ hierarchical_level' = hierarchical_level /\ pc' = pc /\ i' = i /\ changed' = changed
        BY <1>6 DEF vars
    <2>2. Ordered(i)' = Ordered(i) /\ Ordered(Count)' = Ordered(Count) /\ SortIsStable' = SortIsStable
        BY <2>1 DEF Ordered, SortIsStable
    <2> QED
        BY <2>1, <2>2 DEF SortInv
<1>7. CASE CheckUsage \/ HeadNode \/ NoHeadNode \/ HeadNodesDone \/ VisitNode \/ NextPass
    <2>1. pc' \notin {"sort", "sorted"}
        BY <1>7 DEF CheckUsage, HeadNode, NoHeadNode, HeadNodesDone, VisitNode, NextPass
    <2> QED
        BY <1>1, <2>1
<1>8. CASE PassesDone
    <2>1. pc' \in {"sort", "cycle"}
        BY <1>8 DEF PassesDone
    <2> QED
        BY <1>1, <1>2, <1>8, <2>1
<1> QED
    BY <1>3, <1>4, <1>5, <1>6, <1>7, <1>8 DEF Next

--------------------------------------------------------------------------------
LEMMA Invariant == Spec => [](LevelInv /\ SortInv)
<1>1. Init => LevelInv /\ SortInv
    <2> SUFFICES ASSUME Init PROVE LevelInv /\ SortInv
        OBVIOUS
    <2>1. LevelInv
        BY LevelInit
    <2>2. SortInv
        BY IdentityIsSorted DEF Init, SortInv
    <2> QED
        BY <2>1, <2>2
<1>2. LevelInv /\ SortInv /\ [Next]_vars => (LevelInv /\ SortInv)'
    BY LevelStep, SortStep
<1> QED
    BY <1>1, <1>2, PTL DEF Spec

\* agoOptimizeDramaComputeGraphHierarchy and agoOptimizeDramaSortGraphHierarchy
\* stay inside nodeList, whatever the graph.
THEOREM TypeCorrect == Spec => []TypeOK
<1>1. LevelInv => TypeOK
    BY DEF LevelInv
<1> QED
    BY <1>1, Invariant, PTL

LEMMA LevelsHold == LevelInv => LevelsFollowData
    BY DEF LevelInv, LevelsFollowData, Placed

LEMMA OrderHolds == LevelInv /\ SortInv => WritersRunFirst
<1> SUFFICES ASSUME LevelInv, SortInv, pc = "sorted",
                    NEW j \in Node, NEW k \in Node, DependsOn(nodeList[k], nodeList[j])
             PROVE  j < k /\ hierarchical_level[nodeList[j]] < hierarchical_level[nodeList[k]]
    BY DEF WritersRunFirst, SortInv
<1>1. nodeList[j] \in Node /\ nodeList[k] \in Node
    BY DEF LevelInv, TypeOK
<1>2. hierarchical_level[nodeList[j]] < hierarchical_level[nodeList[k]]
    BY <1>1 DEF LevelInv, Placed
<1>3. hierarchical_level[nodeList[j]] \in Nat /\ hierarchical_level[nodeList[k]] \in Nat
    BY <1>1 DEF LevelInv, TypeOK
<1>4. ~ (k <= j)
    <2> SUFFICES ASSUME k <= j PROVE FALSE
        OBVIOUS
    <2>1. hierarchical_level[nodeList[k]] <= hierarchical_level[nodeList[j]]
        BY DEF SortInv, Ordered, Node
    <2> QED
        BY <1>2, <1>3, <2>1
<1>5. j < k
    BY <1>4 DEF Node
<1> QED
    BY <1>2, <1>5

\* In every graph that agoOptimizeDramaComputeGraphHierarchy accepts, the level of
\* a node is above the levels of the nodes whose data it reads.
THEOREM LevelsAreRight == Spec => []LevelsFollowData
BY LevelsHold, Invariant, PTL

\* Executed in the order of nodeList, every node of an accepted graph finds its
\* inputs written, and no node is lost by agoOptimizeDramaSortGraphHierarchy.
THEOREM ReadersRunLater == Spec => []WritersRunFirst
BY OrderHolds, Invariant, PTL

\* The sort by exchanges of neighbours never reorders nodes of one level.
THEOREM SortKeepsOrder == Spec => []SortIsStable
<1>1. SortInv => SortIsStable
    BY DEF SortInv
<1> QED
    BY <1>1, Invariant, PTL

\* Where every node has a level above those of the nodes it depends on, the node
\* of the lowest level depends on none of the others.
LEMMA PlacedIsAcyclic ==
    ASSUME TypeOK, Placed, \A n \in Node: hierarchical_level[n] # 0
    PROVE  ~ Cyclic
<1> SUFFICES ASSUME NEW S \in SUBSET Node, S # {}, \A m \in S: \E n \in S: DependsOn(m, n)
             PROVE  FALSE
    BY DEF Cyclic
<1> DEFINE T == {hierarchical_level[n]: n \in S}
<1>1. T \in SUBSET Nat /\ T # {}
    BY DEF TypeOK
<1>2. PICK l \in T: \A x \in T: l <= x
    BY <1>1, LeastElement
<1>3. PICK m \in S: l = hierarchical_level[m]
    BY <1>2
<1>4. PICK n \in S: DependsOn(m, n)
    BY <1>3
<1>5. hierarchical_level[n] < hierarchical_level[m]
    BY <1>4 DEF Placed
<1>6. hierarchical_level[m] <= hierarchical_level[n]
    BY <1>2, <1>3
<1>7. hierarchical_level[m] \in Nat /\ hierarchical_level[n] \in Nat
    BY DEF TypeOK
<1> QED
    BY <1>5, <1>6, <1>7

LEMMA UniqueIsSingle == OneWriterEach => SingleWriters
<1> SUFFICES ASSUME OneWriterEach, NEW d \in Data
             PROVE  Cardinality(Writers(d)) <= 1 /\ (d \in Virtual /\ Used(d) => Writers(d) # {})
    BY DEF SingleWriters
<1>1. CASE Writers(d) = {}
    <2>1. Cardinality({}) = 0
        BY FS_EmptySet
    <2> QED
        BY <1>1, <2>1 DEF OneWriterEach
<1>2. CASE Writers(d) # {}
    <2>1. PICK w \in Writers(d): TRUE
        BY <1>2
    <2>2. Writers(d) = {w}
        BY <2>1 DEF OneWriterEach
    <2>3. Cardinality({w}) = 1
        BY FS_Singleton
    <2> QED
        BY <2>2, <2>3
<1> QED
    BY <1>1, <1>2

LEMMA VerdictHolds == LevelInv => VerdictIsRight
<1> SUFFICES ASSUME LevelInv PROVE VerdictIsRight
    OBVIOUS
<1>1. Unique /\ SingleWriters => OneWriterEach
    <2>1. \A d \in Data: Writers(d) # {} => \E n \in Node: n \in Writers(d)
        BY DEF Writers
    <2> QED
        BY <2>1 DEF Unique, SingleWriters, OneWriterEach
<1>2. pc \in {"heads", "rest", "sort", "sorted", "cycle"} => OneWriterEach
    BY <1>1 DEF LevelInv
<1>3. pc = "multiple_writers" => ~ OneWriterEach
    BY UniqueIsSingle DEF LevelInv
<1>4. pc \in {"sort", "sorted"} => ~ Cyclic
    BY PlacedIsAcyclic DEF LevelInv
<1> QED
    BY <1>2, <1>3, <1>4 DEF LevelInv, VerdictIsRight

\* agoOptimizeDramaComputeGraphHierarchy accepts the graphs without a cycle in
\* which all data has one writer and the virtual data has one, and no other graph.
THEOREM VerdictIsCorrect == Spec => []VerdictIsRight
BY VerdictHolds, Invariant, PTL

--------------------------------------------------------------------------------
(***************************************************************************)
(* From the sorted list to the execution.  Settled is what the hierarchy   *)
(* leaves behind; nothing later changes it.                                *)
(***************************************************************************)
Later == {"failed", "merge", "share", "run"}

Settled ==
    /\ nodeList \in [Node -> Node] /\ hierarchical_level \in [Node -> Nat] /\ dataLevel \in [Data -> Nat]
    /\ i \in 1 .. Count + 1
    /\ \A n \in Node: \E k \in Node: nodeList[k] = n
    /\ \A j, k \in Node: j # k => nodeList[j] # nodeList[k]
    /\ Ordered(Count)
    /\ \A m, n \in Node: DependsOn(m, n) => hierarchical_level[n] < hierarchical_level[m]
    /\ \A d \in Data: \A w \in Writers(d): hierarchical_level[w] < dataLevel[d]
    /\ Unique /\ \A d \in Virtual: Used(d) => Writers(d) # {}

HierarchyInv ==
    /\ pc \notin Later => LevelInv /\ SortInv
    /\ pc \in Later => Settled

LEMMA SortedIsSettled == LevelInv /\ SortInv /\ pc = "sorted" => Settled
<1> SUFFICES ASSUME LevelInv, SortInv, pc = "sorted" PROVE Settled
    OBVIOUS
<1>1. TypeOK /\ Unique /\ SingleWriters /\ Fed /\ WritersBelow /\ Placed /\ \A n \in Node: hierarchical_level[n] # 0
    BY DEF LevelInv
<1>2. \A j, k \in Node: j # k => nodeList[j] # nodeList[k]
    <2>1. ASSUME NEW j \in Node, NEW k \in Node, j < k PROVE nodeList[j] # nodeList[k]
        <3>1. nodeList[j] = nodeList[k] => nodeList[j] < nodeList[k]
            BY <2>1 DEF SortInv, SortIsStable
        <3>2. nodeList[j] \in Nat
            BY <1>1 DEF TypeOK, Node
        <3> QED
            BY <3>1, <3>2
    <2>2. \A j, k \in Node: j # k => j < k \/ k < j
        BY DEF Node
    <2> QED
        BY <2>1, <2>2
<1>3. \A m, n \in Node: DependsOn(m, n) => hierarchical_level[n] < hierarchical_level[m]
    BY <1>1 DEF Placed
<1>4. ASSUME NEW d \in Data, NEW w \in Writers(d) PROVE hierarchical_level[w] < dataLevel[d]
    <2>1. Used(d)
        BY DEF Used, Writers
    <2>2. dataLevel[d] # 0
        BY <1>1, <2>1 DEF Fed, Writers
    <2> QED
        BY <1>1, <2>2 DEF WritersBelow
<1>5. \A d \in Virtual: Used(d) => Writers(d) # {}
    BY <1>1 DEF SingleWriters
<1> QED
    BY <1>1, <1>2, <1>3, <1>4, <1>5 DEF Settled, SortInv, TypeOK

\* The graph, its list and its levels stay as they are.
LEMMA SettledStays ==
    ASSUME Settled, UNCHANGED <<role, nodeList, levels>>, i' \in 1 .. Count + 1
    PROVE  Settled'
<1>1. role' = role /\ nodeList' = nodeList /\ hierarchical_level' = hierarchical_level /\ dataLevel' = dataLevel
    BY DEF levels
<1>2. Ordered(Count)'
    BY <1>1 DEF Settled, Ordered
<1>3. \A m, n \in Node: DependsOn(m, n)' <=> DependsOn(m, n)
    BY <1>1 DEF DependsOn, Writers, Inputs
<1>4. \A d \in Data: Writers(d)' = Writers(d) /\ (Used(d)' <=> Used(d))
    BY <1>1 DEF Writers, Used
<1>5. Unique'
    BY <1>4 DEF Settled, Unique
<1>6. \A d \in Virtual: Used(d)' => Writers(d)' # {}
    BY <1>4 DEF Settled
<1> QED
    BY <1>1, <1>2, <1>3, <1>4, <1>5, <1>6 DEF Settled

LEMMA HierarchyEndsSorted == HierarchyInv /\ Hierarchy => pc \notin Later /\ LevelInv' /\ SortInv' /\ pc' \notin Later
<1> SUFFICES ASSUME HierarchyInv, Hierarchy PROVE pc \notin Later /\ LevelInv' /\ SortInv' /\ pc' \notin Later
    OBVIOUS
<1>1. pc \notin Later
    BY DEF Hierarchy, Next, CheckUsage, HeadNode, NoHeadNode, HeadNodesDone, VisitNode, NextPass,
           PassesDone, SortPair, SortAgain, SortDone, Later
<1>2. LevelInv' /\ SortInv'
    BY <1>1, LevelStep, SortStep DEF Hierarchy, HierarchyInv
<1>3. pc' \notin Later
    BY <1>2 DEF LevelInv, TypeOK, Later
<1> QED
    BY <1>1, <1>2, <1>3

LEMMA HierarchyStep == HierarchyInv /\ [AllocNext]_allocVars => HierarchyInv'
<1> SUFFICES ASSUME HierarchyInv, [AllocNext]_allocVars PROVE HierarchyInv'
    OBVIOUS
<1>1. CASE Hierarchy
    BY <1>1, HierarchyEndsSorted DEF HierarchyInv
<1>2. CASE SetDefaultTargets
    <2>1. pc = "sorted" /\ UNCHANGED <<role, nodeList, levels>> /\ i' = 1 /\ pc' \in {"failed", "merge"}
        BY <1>2 DEF SetDefaultTargets
    <2>2. i' \in 1 .. Count + 1
        BY <2>1
    <2>3. Settled
        BY <2>1, SortedIsSettled DEF HierarchyInv, Later
    <2> QED
        BY <2>1, <2>2, <2>3, SettledStays DEF HierarchyInv, Later
<1>3. CASE MergeNode
    <2>1. pc = "merge" /\ UNCHANGED <<role, nodeList, levels>> /\ i <= Count /\ i' = i + 1 /\ pc' = pc
        BY <1>3 DEF MergeNode
    <2>2. Settled
        BY <2>1 DEF HierarchyInv, Later
    <2>3. i' \in 1 .. Count + 1
        BY <2>1, <2>2 DEF Settled
    <2> QED
        BY <2>1, <2>2, <2>3, SettledStays DEF HierarchyInv, Later
<1>4. CASE MakeSuperNodes \/ ShareBuffer \/ BuffersDone \/ Execute
    <2>1. pc \in Later /\ UNCHANGED <<role, nodeList, levels>> /\ i' = i /\ pc' \in Later
        <3>1. CASE MakeSuperNodes
            BY <3>1 DEF MakeSuperNodes, Later
        <3>2. CASE ShareBuffer \/ BuffersDone
            BY <3>2 DEF ShareBuffer, BuffersDone, Later
        <3>3. CASE Execute
            BY <3>3 DEF Execute, LaunchSingle, LaunchSuperNode, PassLaunched, RunWithAccess, RunOnHost, Visit,
                        vars, levels, Later
        <3> QED
            BY <1>4, <3>1, <3>2, <3>3
    <2>2. Settled /\ i' \in 1 .. Count + 1
        BY <2>1 DEF HierarchyInv, Settled
    <2> QED
        BY <2>1, <2>2, SettledStays DEF HierarchyInv
<1>5. CASE UNCHANGED allocVars
    <2>1. UNCHANGED vars
        BY <1>5 DEF allocVars
    <2>2. pc' = pc /\ UNCHANGED <<role, nodeList, levels>> /\ i' = i
        BY <2>1 DEF vars, levels
    <2>3. CASE pc \in Later
        BY <2>2, <2>3, SettledStays DEF HierarchyInv, Settled
    <2>4. CASE pc \notin Later
        BY <2>1, <2>2, <2>4, LevelStep, SortStep DEF HierarchyInv
    <2> QED
        BY <2>3, <2>4
<1> QED
    BY <1>1, <1>2, <1>3, <1>4, <1>5 DEF AllocNext

\* The nodes due are of the lowest level left.
LEMMA DueIsNext ==
    ASSUME Settled, NEW n \in Node, IsDue(n), NEW m \in Node, m \notin ran
    PROVE  hierarchical_level[n] <= hierarchical_level[m]
<1>1. m = n \/ Sooner(n, m)
    BY DEF IsDue
<1>2. hierarchical_level[n] \in Nat /\ hierarchical_level[m] \in Nat
    BY DEF Settled
<1> QED
    BY <1>1, <1>2 DEF Sooner

\* What a node that is due reads has been written.
LEMMA DueIsReady ==
    ASSUME Settled, NEW n \in Node, IsDue(n), NEW w \in Node, hierarchical_level[w] < hierarchical_level[n]
    PROVE  w \in ran
<1>1. hierarchical_level[n] \in Nat /\ hierarchical_level[w] \in Nat
    BY DEF Settled
<1> QED
    BY <1>1, DueIsNext

LEMMA PlaceIs == ASSUME Settled, NEW n \in Node PROVE Place(n) \in Node /\ nodeList[Place(n)] = n
BY DEF Settled, Place

\* Earlier in the list, not on a higher level.
LEMMA EarlierIsLower ==
    ASSUME Settled, NEW j \in Node, NEW k \in Node, j <= k
    PROVE  hierarchical_level[nodeList[j]] <= hierarchical_level[nodeList[k]]
<1>1. k <= Count
    BY DEF Node
<1> QED
    BY <1>1 DEF Settled, Ordered

LEMMA MinOfIsLeast ==
    ASSUME NEW T \in SUBSET Nat, T # {}
    PROVE  MinOf(T) \in T /\ \A x \in T: MinOf(T) <= x
<1>1. \E x \in T: \A y \in T: x <= y
    BY LeastElement
<1> QED
    BY <1>1 DEF MinOf

LEMMA FirstLevelIsLeast ==
    ASSUME Settled, NEW n \in Node, Grouped(n)
    PROVE  FirstLevel(group[n]) \in Nat /\ FirstLevel(group[n]) <= hierarchical_level[n]
<1> DEFINE T == {hierarchical_level[m]: m \in Members(group[n])}
<1>1. T \in SUBSET Nat /\ hierarchical_level[n] \in T
    BY DEF Settled, Members
<1>2. MinOf(T) \in T /\ MinOf(T) <= hierarchical_level[n]
    BY <1>1, MinOfIsLeast
<1> QED
    BY <1>1, <1>2 DEF FirstLevel

--------------------------------------------------------------------------------
(***************************************************************************)
(* The groups.  A node's group reads what it does not compute itself from  *)
(* levels below all of its members; nodes that have not been visited are   *)
(* groups of their own.                                                    *)
(***************************************************************************)
Together(m, n) == Grouped(m) /\ Grouped(n) /\ group[m] = group[n]

FedFromBelow ==
    \A m, n, w \in Node: Together(m, n) /\ DependsOn(m, w)
                             => Together(m, w) \/ hierarchical_level[w] < hierarchical_level[n]

GathersFromOutside ==
    \A m, n \in Node: Together(m, n) /\ m # n /\ kind[n] = "m2r" => ~ DependsOn(n, m)

AloneFrom(first) == \A j, n \in Node: j >= first /\ Together(n, nodeList[j]) => n = nodeList[j]

GroupInv ==
    AutoGroups =>
        /\ pc \in {"merge", "share", "run"} => FedFromBelow /\ GathersFromOutside
        /\ pc = "merge" => AloneFrom(i)

\* Groups of one node each are in order.
LEMMA SinglesAreGroups ==
    ASSUME Settled, \A m, n \in Node: Together(m, n) => m = n
    PROVE  FedFromBelow /\ GathersFromOutside
<1>1. FedFromBelow
    BY DEF FedFromBelow, Settled
<1>2. GathersFromOutside
    BY DEF GathersFromOutside
<1> QED
    BY <1>1, <1>2

\* The numbers that agoOptimizeDramaAllocSetDefaultTargets gives are all different.
LEMMA DefaultsAreSingle ==
    ASSUME Settled, AutoGroups, SetDefaultTargets
    PROVE  \A m, n \in Node: Together(m, n)' => m = n
<1>1. PICK k \in [Node -> given.kernels], r \in [Node -> given.affinities]:
          LET on == [n \in Node |-> Chosen(k[n], r[n])]
              kept == [n \in Node |-> IF r[n].target = "gpu" /\ on[n] \in OnGpu THEN r[n].group ELSE 0]
              asked == {0} \cup {r[n].group: n \in {m \in Node: r[m].target = "gpu"}}
              unused == 1 + (CHOOSE g \in asked: \A h \in asked: h <= g)
              Numbered(j) == on[nodeList[j]] \in Fusible /\ kept[nodeList[j]] = 0
          IN  /\ kind' = on
              /\ size' = [n \in Node |-> k[n].size]
              /\ group' = [n \in Node |->
                     LET j == CHOOSE l \in Node: nodeList[l] = n
                     IN  IF Numbered(j) THEN unused + Cardinality({l \in 1 .. j - 1: Numbered(l)})
                                        ELSE kept[n]]
              /\ pc' = IF \E n \in Node: on[n] = "full" /\ kept[n] # 0 THEN "failed" ELSE "merge"
    BY Zenon DEF SetDefaultTargets
<1> DEFINE on == [n \in Node |-> Chosen(k[n], r[n])]
           kept == [n \in Node |-> IF r[n].target = "gpu" /\ on[n] \in OnGpu THEN r[n].group ELSE 0]
           asked == {0} \cup {r[n].group: n \in {m \in Node: r[m].target = "gpu"}}
           highest == CHOOSE g \in asked: \A h \in asked: h <= g
           unused == 1 + highest
           Numbered(j) == on[nodeList[j]] \in Fusible /\ kept[nodeList[j]] = 0
           Before(j) == {l \in 1 .. j - 1: Numbered(l)}
<1>2. kind' = on
    BY <1>1
<1>3. group' = [n \in Node |-> IF Numbered(Place(n)) THEN unused + Cardinality(Before(Place(n))) ELSE kept[n]]
    BY <1>1 DEF Place
<1>4. \A n \in Node: r[n].group = 0
    BY DEF AutoGroups
<1>5. \A n \in Node: kept[n] = 0
    BY <1>4
<1>6. unused = 1
    <2>1. asked = {0}
        BY <1>4
    <2>2. highest = 0
        BY <2>1
    <2> HIDE DEF highest
    <2> QED
        BY <2>2
<1>7. \A j \in Node: IsFiniteSet(Before(j)) /\ Cardinality(Before(j)) \in Nat
    <2> SUFFICES ASSUME NEW j \in Node PROVE IsFiniteSet(Before(j)) /\ Cardinality(Before(j)) \in Nat
        OBVIOUS
    <2>1. IsFiniteSet(1 .. j - 1)
        BY FS_Interval DEF Node
    <2>2. IsFiniteSet(Before(j))
        BY <2>1, FS_Subset
    <2> QED
        BY <2>2, FS_CardinalityType
<1>8. \A j \in Node: Numbered(j) <=> on[nodeList[j]] \in Fusible
    BY <1>5 DEF Settled
<1> HIDE DEF Numbered, unused
\* A later node that is numbered counts one more.
<1>9. ASSUME NEW j \in Node, NEW l \in Node, j < l, Numbered(j)
      PROVE  Cardinality(Before(j)) < Cardinality(Before(l))
    <2>1. j \notin Before(j)
        BY DEF Node
    <2>2. Before(j) \cup {j} \in SUBSET Before(l)
        BY <1>9 DEF Node
    <2>3. Cardinality(Before(j) \cup {j}) = Cardinality(Before(j)) + 1
        BY <1>7, <2>1, FS_AddElement
    <2>4. Cardinality(Before(j) \cup {j}) <= Cardinality(Before(l))
        BY <1>7, <2>2, FS_Subset
    <2> QED
        BY <1>7, <2>3, <2>4
<1> HIDE DEF Before, on, kept
<1>10. ASSUME NEW n \in Node, Grouped(n)'
       PROVE  Numbered(Place(n)) /\ Place(n) \in Node /\ nodeList[Place(n)] = n
              /\ group'[n] = 1 + Cardinality(Before(Place(n)))
    <2>1. Place(n) \in Node /\ nodeList[Place(n)] = n
        BY PlaceIs
    <2>2. group'[n] = IF Numbered(Place(n)) THEN unused + Cardinality(Before(Place(n))) ELSE kept[n]
        BY <1>3
    <2>3. group'[n] > 0
        BY <1>10 DEF Grouped
    <2>4. Numbered(Place(n))
        BY <1>5, <2>2, <2>3
    <2> QED
        BY <1>6, <2>1, <2>2, <2>4
<1>11. ASSUME NEW m \in Node, NEW n \in Node, Together(m, n)' PROVE m = n
    <2>1. Grouped(m)' /\ Grouped(n)' /\ group'[m] = group'[n]
        BY <1>11 DEF Together
    <2>2. Cardinality(Before(Place(m))) = Cardinality(Before(Place(n))) /\ Place(m) \in Node /\ Place(n) \in Node
        BY <1>7, <1>10, <2>1
    <2>3. ~ (Place(m) < Place(n)) /\ ~ (Place(n) < Place(m))
        BY <1>7, <1>9, <1>10, <2>1, <2>2
    <2>4. Place(m) = Place(n)
        BY <2>2, <2>3 DEF Node
    <2> QED
        BY <1>10, <2>1, <2>4
<1> QED
    BY <1>11

LEMMA DefaultsAreGroups ==
    ASSUME Settled, AutoGroups, SetDefaultTargets
    PROVE  FedFromBelow' /\ GathersFromOutside' /\ AloneFrom(i)'
<1>1. UNCHANGED <<role, nodeList, levels>> /\ i' = 1 /\ i' \in 1 .. Count + 1
    BY DEF SetDefaultTargets
<1>2. Settled'
    BY <1>1, SettledStays
<1>3. \A m, n \in Node: Together(m, n)' => m = n
    BY DefaultsAreSingle
<1>4. FedFromBelow'
    BY <1>2, <1>3 DEF FedFromBelow, Settled
<1>5. GathersFromOutside'
    BY <1>3 DEF GathersFromOutside
<1>6. AloneFrom(i)'
    <2>1. \A j \in Node: nodeList'[j] \in Node
        BY <1>2 DEF Settled
    <2> QED
        BY <1>3, <2>1 DEF AloneFrom
<1> QED
    BY <1>4, <1>5, <1>6

\* Group g joins group h.
Joined(g, h) == [n \in Node |-> IF group[n] = g THEN h ELSE group[n]]

LEMMA MergeKeepsGroups ==
    ASSUME Settled, MergeNode, FedFromBelow, GathersFromOutside, AloneFrom(i),
           NEW j \in 1 .. i - 1, Grouped(nodeList[i]), Grouped(nodeList[j]), ~ Conflict(nodeList[j], nodeList[i]),
           group' = Joined(group[nodeList[i]], group[nodeList[j]])
    PROVE  FedFromBelow' /\ GathersFromOutside' /\ AloneFrom(i)'
<1> DEFINE c == nodeList[i]
           p == nodeList[j]
           Now(m, n) == Together(m, n)'
<1>1. /\ role' = role /\ nodeList' = nodeList /\ hierarchical_level' = hierarchical_level /\ kind' = kind
      /\ i \in Node /\ j \in Node /\ j < i /\ i' = i + 1
    <2>1. role' = role /\ nodeList' = nodeList /\ hierarchical_level' = hierarchical_level /\ kind' = kind
        BY DEF MergeNode, levels
    <2>2. i \in 1 .. Count + 1 /\ i <= Count /\ i' = i + 1
        BY DEF MergeNode, Settled
    <2> QED
        BY <2>1, <2>2 DEF Node
<1>2. c \in Node /\ p \in Node /\ Grouped(c) /\ Grouped(p) /\ ~ Conflict(p, c)
    BY <1>1 DEF Settled
<1>3. \A n \in Node: Together(n, c) => n = c
    BY <1>1 DEF AloneFrom, Node
<1>4. hierarchical_level[p] <= hierarchical_level[c]
    BY <1>1, EarlierIsLower DEF Node
<1>5. \A m, n \in Node: DependsOn(m, n)' <=> DependsOn(m, n)
    BY <1>1 DEF DependsOn, Writers, Inputs
<1>6. \A n \in Node: hierarchical_level[n] \in Nat
    BY DEF Settled
<1> HIDE DEF c, p, Now
<1>7. group' = Joined(group[c], group[p])
    BY DEF c, p
<1>8. /\ \A m, n \in Node: Now(m, n) => \/ Together(m, n)
                                              \/ (m = c /\ Together(p, n))
                                              \/ (n = c /\ Together(m, p))
      /\ \A m, n \in Node: Together(m, n) => Now(m, n)
      /\ \A n \in Node: Together(p, n) => Now(c, n)
    <2>1. \A m, n \in Node: Now(m, n) <=> Grouped(m) /\ Grouped(n) /\ group'[m] = group'[n]
        BY <1>1, <1>2, <1>7 DEF Now, Together, Grouped, Joined
    <2>2. \A n \in Node: Grouped(n) => group'[n] = IF n = c THEN group[p] ELSE group[n]
        BY <1>2, <1>3, <1>7 DEF Joined, Together
    <2>3. ASSUME NEW m \in Node, NEW n \in Node, Now(m, n)
          PROVE  Together(m, n) \/ (m = c /\ Together(p, n)) \/ (n = c /\ Together(m, p))
        BY <1>2, <2>1, <2>2, <2>3 DEF Together
    <2>4. ASSUME NEW m \in Node, NEW n \in Node, Together(m, n) PROVE Now(m, n)
        <3>1. m = c <=> n = c
            BY <1>3, <2>4 DEF Together
        <3> QED
            BY <2>1, <2>2, <2>4, <3>1 DEF Together
    <2>5. ASSUME NEW n \in Node, Together(p, n) PROVE Now(c, n)
        <3>1. Grouped(n) /\ group[n] = group[p]
            BY <2>5 DEF Together
        <3>2. group'[c] = group[p] /\ group'[n] = group[p]
            BY <1>2, <2>2, <3>1
        <3> QED
            BY <1>2, <2>1, <3>1, <3>2
    <2> QED
        BY <2>3, <2>4, <2>5
<1>9. FedFromBelow'
    <2> SUFFICES ASSUME NEW m \in Node, NEW n \in Node, NEW w \in Node, Now(m, n), DependsOn(m, w)
                 PROVE  Now(m, w) \/ hierarchical_level[w] < hierarchical_level[n]
        BY <1>1, <1>5 DEF FedFromBelow, Now
    <2>1. CASE Together(m, n)
        BY <1>8, <2>1 DEF FedFromBelow
    <2>2. CASE n = c /\ Together(m, p)
        <3>1. Together(m, w) \/ hierarchical_level[w] < hierarchical_level[p]
            BY <1>2, <2>2 DEF FedFromBelow
        <3> QED
            BY <1>2, <1>4, <1>6, <1>8, <2>2, <3>1
    <2>3. CASE m = c /\ Together(p, n)
        <3>1. PICK d \in Data: w \in Writers(d) /\ d \in Inputs(c)
            BY <2>3 DEF DependsOn
        <3>2. d \in GroupInputs(group[c])
            BY <1>2, <3>1 DEF GroupInputs, Members
        <3>3. CASE d \in GroupOutputs(group[p])
            <4>1. PICK x \in Node: Grouped(x) /\ group[x] = group[p] /\ d \in Outputs(x)
                BY <3>3 DEF GroupOutputs, Members
            <4>2. Together(x, n) /\ Together(p, x) /\ Together(x, p)
                BY <1>2, <2>3, <4>1 DEF Together
            <4>3. CASE x \in Writers(d)
                <5>1. x = w
                    BY <3>1, <4>3 DEF Settled, Unique
                <5> QED
                    BY <1>8, <2>3, <4>2, <5>1
            <4>4. CASE x \notin Writers(d)
                <5>1. DependsOn(x, w)
                    BY <3>1, <4>1, <4>4 DEF DependsOn, Writers, Inputs, Outputs
                <5>2. Together(x, w) \/ hierarchical_level[w] < hierarchical_level[n]
                    BY <4>2, <5>1 DEF FedFromBelow
                <5>3. Together(x, w) => Together(p, w)
                    BY <4>2 DEF Together
                <5> QED
                    BY <1>8, <2>3, <5>2, <5>3
            <4> QED
                BY <4>3, <4>4
        <3>4. CASE d \notin GroupOutputs(group[p])
            <4>1. ~ (dataLevel[d] > FirstLevel(group[p]))
                BY <1>2, <3>2, <3>4 DEF Conflict
            <4>2. FirstLevel(group[p]) \in Nat /\ FirstLevel(group[p]) <= hierarchical_level[n]
                BY <2>3, FirstLevelIsLeast DEF Together
            <4>3. hierarchical_level[w] < dataLevel[d] /\ dataLevel[d] \in Nat
                BY <3>1 DEF Settled
            <4> QED
                BY <1>6, <4>1, <4>2, <4>3
        <3> QED
            BY <3>3, <3>4
    <2> QED
        BY <1>8, <2>1, <2>2, <2>3
<1>10. GathersFromOutside'
    <2> SUFFICES ASSUME NEW m \in Node, NEW n \in Node, Now(m, n), m # n, kind[n] = "m2r", DependsOn(n, m)
                 PROVE  FALSE
        BY <1>1, <1>5 DEF GathersFromOutside, Now
    <2>0. hierarchical_level[m] < hierarchical_level[n]
        BY DEF Settled
    <2>1. CASE Together(m, n)
        BY <2>1 DEF GathersFromOutside
    <2>2. CASE n = c /\ Together(m, p)
        <3>1. PICK d \in Data: m \in Writers(d) /\ d \in Inputs(c)
            BY <2>2 DEF DependsOn
        <3>2. d \in GroupInputs(group[c])
            BY <1>2, <3>1 DEF GroupInputs, Members
        <3>3. d \in GroupOutputs(group[p])
            BY <2>2, <3>1 DEF GroupOutputs, Members, Together, Writers, Outputs
        <3> QED
            BY <1>2, <2>2, <3>2, <3>3 DEF Conflict
    \* The new member of the group comes after the others.
    <2>3. CASE m = c /\ Together(p, n)
        <3>1. Place(n) \in Node /\ nodeList[Place(n)] = n
            BY PlaceIs
        <3>2. CASE Place(n) < i
            <4>1. hierarchical_level[n] <= hierarchical_level[c]
                BY <1>1, <3>1, <3>2, EarlierIsLower DEF c, Node
            <4> QED
                BY <1>6, <2>0, <2>3, <4>1
        <3>3. CASE i <= Place(n)
            <4>1. p = n
                BY <1>1, <1>2, <2>3, <3>1, <3>3 DEF AloneFrom, Node
            <4> QED
                BY <1>4, <1>6, <2>0, <2>3, <4>1
        <3> QED
            BY <1>1, <3>1, <3>2, <3>3 DEF Node
    <2> QED
        BY <1>8, <2>1, <2>2, <2>3
<1>11. AloneFrom(i)'
    <2> SUFFICES ASSUME NEW l \in Node, NEW n \in Node, l >= i + 1, Now(n, nodeList[l])
                 PROVE  n = nodeList[l]
        BY <1>1 DEF AloneFrom, Now
    <2>1. nodeList[l] \in Node /\ nodeList[l] # c /\ nodeList[l] # p
        BY <1>1 DEF Settled, c, p, Node
    <2>2. \A m \in Node: Together(m, nodeList[l]) => m = nodeList[l]
        BY <1>1 DEF AloneFrom, Node
    <2>3. ~ Together(p, nodeList[l])
        BY <1>2, <2>1, <2>2
    <2> QED
        BY <1>8, <2>1, <2>2, <2>3
<1> QED
    BY <1>9, <1>10, <1>11

LEMMA MergeStep ==
    ASSUME Settled, MergeNode, FedFromBelow, GathersFromOutside, AloneFrom(i)
    PROVE  FedFromBelow' /\ GathersFromOutside' /\ AloneFrom(i)'
<1> DEFINE c == nodeList[i]
           fits == {j \in 1 .. i - 1: /\ Grouped(nodeList[j]) /\ group[nodeList[j]] # group[c]
                                      /\ ~ Conflict(nodeList[j], c)}
<1>1. group' = IF Grouped(c) /\ fits # {}
                  THEN [n \in Node |-> IF group[n] = group[c] THEN group[nodeList[MinOf(fits)]]
                                                              ELSE group[n]]
                  ELSE group
    BY DEF MergeNode
<1>2. CASE Grouped(c) /\ fits # {}
    <2>1. fits \in SUBSET Nat
        OBVIOUS
    <2>2. MinOf(fits) \in fits
        BY <1>2, <2>1, MinOfIsLeast
    <2>3. PICK j \in fits: group' = Joined(group[c], group[nodeList[j]])
        BY <1>1, <1>2, <2>2 DEF Joined
    <2> QED
        BY <1>2, <2>3, MergeKeepsGroups
<1>3. CASE ~ (Grouped(c) /\ fits # {})
    <2>1. /\ role' = role /\ nodeList' = nodeList /\ hierarchical_level' = hierarchical_level /\ kind' = kind
          /\ i' = i + 1 /\ group' = group
        BY <1>1, <1>3 DEF MergeNode, levels
    <2>2. \A m, n \in Node: (DependsOn(m, n)' <=> DependsOn(m, n)) /\ (Together(m, n)' <=> Together(m, n))
        BY <2>1 DEF DependsOn, Writers, Inputs, Together, Grouped
    <2>3. FedFromBelow'
        BY <2>1, <2>2 DEF FedFromBelow
    <2>4. GathersFromOutside'
        BY <2>1, <2>2 DEF GathersFromOutside
    <2>5. AloneFrom(i)'
        <3>1. \A l \in Node: l >= i + 1 => l >= i
            BY DEF Settled, Node
        <3>2. \A l, n \in Node: Together(n, nodeList[l])' <=> Together(n, nodeList[l])
            BY <2>1 DEF Together, Grouped
        <3> QED
            BY <2>1, <3>1, <3>2 DEF AloneFrom
    <2> QED
        BY <2>3, <2>4, <2>5
<1> QED
    BY <1>2, <1>3

LEMMA GroupStep == HierarchyInv /\ GroupInv /\ [AllocNext]_allocVars => GroupInv'
<1> SUFFICES ASSUME HierarchyInv, GroupInv, [AllocNext]_allocVars, AutoGroups'
             PROVE  /\ pc' \in {"merge", "share", "run"} => FedFromBelow' /\ GathersFromOutside'
                    /\ pc' = "merge" => AloneFrom(i)'
    BY DEF GroupInv
<1>1. CASE Hierarchy
    <2>1. pc' \notin Later
        BY <1>1, HierarchyEndsSorted
    <2> QED
        BY <2>1 DEF Later
<1>2. CASE SetDefaultTargets
    <2>1. pc = "sorted" /\ given' = given
        BY <1>2 DEF SetDefaultTargets
    <2>2. Settled /\ AutoGroups
        BY <2>1, SortedIsSettled DEF HierarchyInv, Later, AutoGroups
    <2> QED
        BY <1>2, <2>2, DefaultsAreGroups
<1>3. CASE MergeNode
    <2>1. pc = "merge" /\ given' = given
        BY <1>3 DEF MergeNode
    <2>2. Settled /\ AutoGroups
        BY <2>1 DEF HierarchyInv, Later, AutoGroups
    <2> QED
        BY <1>3, <2>1, <2>2, MergeStep DEF GroupInv
<1>4. CASE MakeSuperNodes \/ ShareBuffer \/ BuffersDone \/ Execute \/ UNCHANGED allocVars
    <2>1. /\ given' = given /\ kind' = kind /\ group' = group
          /\ role' = role /\ nodeList' = nodeList /\ hierarchical_level' = hierarchical_level
          /\ pc' = "merge" => pc = "merge" /\ i' = i
          /\ pc' \in {"merge", "share", "run"} => pc \in {"merge", "share", "run"}
        <3>1. CASE MakeSuperNodes
            BY <3>1 DEF MakeSuperNodes, targets, levels
        <3>2. CASE ShareBuffer
            BY <3>2 DEF ShareBuffer, targets, levels
        <3>3. CASE BuffersDone
            BY <3>3 DEF BuffersDone, targets, levels
        <3>4. CASE Execute
            BY <3>4 DEF Execute, LaunchSingle, LaunchSuperNode, PassLaunched, RunWithAccess, RunOnHost, Visit,
                        vars, targets
        <3>5. CASE UNCHANGED allocVars
            BY <3>5 DEF allocVars, vars, targets
        <3> QED
            BY <1>4, <3>1, <3>2, <3>3, <3>4, <3>5
    <2>2. AutoGroups
        BY <2>1 DEF AutoGroups
    <2>3. FedFromBelow' <=> FedFromBelow
        BY <2>1 DEF FedFromBelow, Together, Grouped, DependsOn, Writers, Inputs
    <2>4. GathersFromOutside' <=> GathersFromOutside
        BY <2>1 DEF GathersFromOutside, Together, Grouped, DependsOn, Writers, Inputs
    <2>5. pc' = "merge" => (AloneFrom(i)' <=> AloneFrom(i))
        BY <2>1 DEF AloneFrom, Together, Grouped
    <2> QED
        BY <2>1, <2>2, <2>3, <2>4, <2>5 DEF GroupInv
<1> QED
    BY <1>1, <1>2, <1>3, <1>4 DEF AllocNext

--------------------------------------------------------------------------------
(***************************************************************************)
(* The execution.                                                          *)
(***************************************************************************)

\* A node that is due finds what it reads, or what its supernode reads, computed.
LEMMA NodeFindsInputs ==
    ASSUME Settled, NEW n \in Node, IsDue(n)
    PROVE  NotComputed(Inputs(n)) = {}
<1> SUFFICES ASSUME NEW d \in Inputs(n), NEW w \in Writers(d) PROVE Launched(w)
    BY DEF NotComputed
<1>1. w \in Node /\ DependsOn(n, w)
    BY DEF DependsOn, Writers, Inputs
<1>2. w \in ran
    BY <1>1, DueIsReady DEF Settled
<1> QED
    BY <1>2 DEF Launched

LEMMA GroupFindsInputs ==
    ASSUME Settled, FedFromBelow, NEW n \in Node, IsDue(n), InSuperNode(n)
    PROVE  NotComputed(GroupInputs(group[n]) \ GroupOutputs(group[n])) = {}
<1> SUFFICES ASSUME NEW d \in GroupInputs(group[n]), d \notin GroupOutputs(group[n]), NEW w \in Writers(d)
             PROVE  Launched(w)
    BY DEF NotComputed
<1>1. PICK m \in Node: Grouped(m) /\ group[m] = group[n] /\ d \in Inputs(m)
    BY DEF GroupInputs, Members
<1>2. w \in Node /\ DependsOn(m, w)
    BY <1>1 DEF DependsOn, Writers, Inputs
<1>3. Together(m, n)
    BY <1>1 DEF Together, InSuperNode
<1>4. ~ Together(m, w)
    <2> SUFFICES ASSUME Together(m, w) PROVE FALSE
        OBVIOUS
    <2>1. w \in Members(group[n])
        BY <1>1, <1>2 DEF Together, Members
    <2>2. d \in Outputs(w)
        BY <1>1 DEF Outputs, Writers, Inputs
    <2> QED
        BY <2>1, <2>2 DEF GroupOutputs
<1>5. hierarchical_level[w] < hierarchical_level[n]
    BY <1>2, <1>3, <1>4 DEF FedFromBelow
<1>6. w \in ran
    BY <1>2, <1>5, DueIsReady
<1> QED
    BY <1>6 DEF Launched

ReadyInv ==
    /\ pc # "run" => ran = {} /\ host = {} /\ early = {} /\ misread = {}
    /\ AutoGroups => early = {}

LEMMA ReadyStep == HierarchyInv /\ GroupInv /\ ReadyInv /\ [AllocNext]_allocVars => ReadyInv'
<1> SUFFICES ASSUME HierarchyInv, GroupInv, ReadyInv, [AllocNext]_allocVars PROVE ReadyInv'
    OBVIOUS
<1>1. CASE Execute
    <2>1. pc = "run" /\ pc' = "run" /\ given' = given
        BY <1>1 DEF Execute, LaunchSingle, LaunchSuperNode, PassLaunched, RunWithAccess, RunOnHost, Visit, vars
    <2> SUFFICES ASSUME AutoGroups PROVE early' = {}
        BY <2>1 DEF ReadyInv, AutoGroups
    <2>2. Settled /\ FedFromBelow /\ early = {}
        BY <2>1 DEF HierarchyInv, Later, GroupInv, ReadyInv
    <2>3. PICK n \in Node: LaunchSingle(n) \/ LaunchSuperNode(n) \/ PassLaunched(n) \/ RunWithAccess(n) \/ RunOnHost(n)
        BY <1>1 DEF Execute
    <2>4. IsDue(n)
        BY <2>3 DEF LaunchSingle, LaunchSuperNode, PassLaunched, RunWithAccess, RunOnHost, Visit
    <2>5. CASE LaunchSingle(n) \/ RunWithAccess(n) \/ RunOnHost(n)
        <3>1. early' = early \cup NotComputed(Inputs(n))
            BY <2>5 DEF LaunchSingle, RunWithAccess, RunOnHost, OnTheDevice
        <3> QED
            BY <2>2, <2>4, <3>1, NodeFindsInputs
    <2>6. CASE LaunchSuperNode(n)
        <3>1. InSuperNode(n) /\ early' = early \cup NotComputed(GroupInputs(group[n]) \ GroupOutputs(group[n]))
            BY <2>6 DEF LaunchSuperNode, OnTheDevice
        <3> QED
            BY <2>2, <2>4, <3>1, GroupFindsInputs
    <2>7. CASE PassLaunched(n)
        <3>1. early' = early \cup NotComputed({})
            BY <2>7 DEF PassLaunched, OnTheDevice
        <3>2. NotComputed({}) = {}
            BY DEF NotComputed
        <3> QED
            BY <2>2, <3>1, <3>2
    <2> QED
        BY <2>3, <2>5, <2>6, <2>7
<1>2. CASE ~ Execute
    <2>1. /\ pc' = "run" => pc = "run" \/ (ran = {} /\ host = {} /\ early = {} /\ misread = {})
          /\ pc = "run" => pc' = "run"
          /\ given' = given
          /\ ran' = ran /\ host' = host /\ early' = early /\ misread' = misread
        <3>1. CASE Hierarchy
            <4>1. pc \notin Later
                BY <3>1, HierarchyEndsSorted
            <4> QED
                BY <3>1, <4>1 DEF Hierarchy, running, Later, ReadyInv
        <3>2. CASE SetDefaultTargets
            BY <3>2 DEF SetDefaultTargets, running, ReadyInv
        <3>3. CASE MergeNode
            BY <3>3 DEF MergeNode, running, ReadyInv
        <3>4. CASE MakeSuperNodes
            BY <3>4 DEF MakeSuperNodes, running, ReadyInv
        <3>5. CASE ShareBuffer
            BY <3>5 DEF ShareBuffer, running, ReadyInv
        <3>6. CASE BuffersDone
            BY <3>6 DEF BuffersDone, running, ReadyInv
        <3>7. CASE UNCHANGED allocVars
            BY <3>7 DEF allocVars, vars, running
        <3> QED
            BY <1>2, <3>1, <3>2, <3>3, <3>4, <3>5, <3>6, <3>7 DEF AllocNext
    <2>2. AutoGroups' <=> AutoGroups
        BY <2>1 DEF AutoGroups
    <2> QED
        BY <2>1, <2>2 DEF ReadyInv
<1> QED
    BY <1>1, <1>2

--------------------------------------------------------------------------------
(***************************************************************************)
(* The buffers, where every node uses the device and none is fused.  Data  *)
(* are collected in the order in which their lives start, so a life cannot *)
(* contain one that is already in the buffer.                              *)
(***************************************************************************)

LEMMA MaxOfIsGreatest ==
    ASSUME NEW T \in SUBSET Nat, T # {}, NEW b \in Nat, \A x \in T: x <= b
    PROVE  MaxOf(T) \in T /\ \A x \in T: MaxOf(T) >= x
<1>1. \E x \in T: \A y \in T: x >= y
    BY GreatestElement
<1> QED
    BY <1>1 DEF MaxOf

\* What the nodes have, a level or dimensions, is bounded: there are finitely many.
LEMMA NodesAreBounded ==
    ASSUME NEW f \in [Node -> Nat]
    PROVE  \E b \in Nat: \A n \in Node: f[n] <= b
<1> DEFINE Below(l) == \E b \in Nat: \A n \in Node: n <= l => f[n] <= b
           T == {l \in Nat: ~ Below(l)}
<1>1. Below(0)
    BY DEF Node
<1>2. ASSUME NEW l \in Nat, l # 0, Below(l - 1) PROVE Below(l)
    <2>1. PICK b \in Nat: \A n \in Node: n <= l - 1 => f[n] <= b
        BY <1>2
    <2>2. CASE l \in Node
        <3> DEFINE B == b + f[l]
        <3>1. B \in Nat /\ b <= B /\ f[l] <= B
            BY <2>2
        <3> HIDE DEF B
        <3>2. ASSUME NEW n \in Node, n <= l PROVE f[n] <= B
            <4>1. n = l \/ n <= l - 1
                BY <3>2 DEF Node
            <4>2. f[n] \in Nat
                OBVIOUS
            <4> QED
                BY <2>1, <3>1, <4>1, <4>2
        <3> QED
            BY <3>1, <3>2
    <2>3. CASE l \notin Node
        <3>1. \A n \in Node: n <= l => n <= l - 1
            BY <2>3 DEF Node
        <3> QED
            BY <2>1, <3>1
    <2> QED
        BY <2>2, <2>3
<1> HIDE DEF Below
<1>3. T = {}
    <2> SUFFICES ASSUME T # {} PROVE FALSE
        OBVIOUS
    <2>1. PICK l \in T: \A k \in T: l <= k
        BY LeastElement
    <2>2. l \in Nat /\ l # 0 /\ ~ Below(l)
        BY <1>1
    <2>3. l - 1 \in Nat /\ l - 1 \notin T
        BY <2>1, <2>2
    <2> QED
        BY <1>2, <2>2, <2>3
<1>4. Below(Count)
    BY <1>3
<1> QED
    BY <1>4 DEF Below, Node

\* One life ends before the other one starts; one starts no later than the other.
EndsBefore(d, e) == \A m \in Users(d), n \in Users(e): hierarchical_level[m] < hierarchical_level[n]
StartsBefore(d, e) == \A n \in Users(e): \E m \in Users(d): hierarchical_level[m] <= hierarchical_level[n]

LEMMA ApartIsAfter ==
    ASSUME Settled, Uniform, NEW d \in Data, NEW e \in Data, Used(d), Used(e), Apart(d, e), StartsBefore(e, d)
    PROVE  EndsBefore(e, d)
<1>1. \A n \in Node: Start(n) = hierarchical_level[n] /\ End(n) = hierarchical_level[n]
    BY DEF Uniform, Start, End
<1>2. PICK b \in Nat: \A n \in Node: hierarchical_level[n] <= b
    BY NodesAreBounded DEF Settled
<1> DEFINE Life(x) == {hierarchical_level[n]: n \in Users(x)}
<1>3. \A x \in {d, e}: /\ Life(x) \in SUBSET Nat /\ Life(x) # {}
                       /\ LifeStart(x) = MinOf(Life(x)) /\ LifeEnd(x) = MaxOf(Life(x))
    <2>1. \A x \in {d, e}: Users(x) # {} /\ Users(x) \in SUBSET Node
        BY DEF Users, Used
    <2>2. \A x \in {d, e}: {Start(n): n \in Users(x)} = Life(x) /\ {End(n): n \in Users(x)} = Life(x)
        BY <1>1, <2>1
    <2>3. \A x \in {d, e}: Life(x) \in SUBSET Nat /\ Life(x) # {}
        BY <2>1 DEF Settled
    <2> QED
        BY <2>2, <2>3 DEF LifeStart, LifeEnd
<1>4. \A x \in {d, e}: \A y \in Life(x): y <= b
    BY <1>2 DEF Users
<1>5. \A x \in {d, e}: MinOf(Life(x)) \in Life(x) /\ \A y \in Life(x): MinOf(Life(x)) <= y
    BY <1>3, MinOfIsLeast
<1>6. \A x \in {d, e}: MaxOf(Life(x)) \in Life(x) /\ \A y \in Life(x): MaxOf(Life(x)) >= y
    BY <1>3, <1>4, MaxOfIsGreatest
<1>7. \A x \in {d, e}: LifeStart(x) \in Nat /\ LifeEnd(x) \in Nat
    BY <1>3, <1>5, <1>6
<1>8. LifeStart(e) <= LifeStart(d)
    <2>1. PICK n \in Users(d): LifeStart(d) = hierarchical_level[n]
        BY <1>3, <1>5
    <2>2. PICK m \in Users(e): hierarchical_level[m] <= hierarchical_level[n]
        BY <2>1 DEF StartsBefore
    <2>3. hierarchical_level[m] \in Life(e) /\ hierarchical_level[m] \in Nat /\ LifeStart(e) <= hierarchical_level[m]
        BY <1>3, <1>5
    <2> QED
        BY <1>7, <2>1, <2>2, <2>3
<1>9. LifeEnd(e) < LifeStart(d)
    BY <1>7, <1>8 DEF Apart
<1>10. ASSUME NEW m \in Users(e), NEW n \in Users(d) PROVE hierarchical_level[m] < hierarchical_level[n]
    <2>1. hierarchical_level[m] \in Life(e) /\ hierarchical_level[n] \in Life(d)
        OBVIOUS
    <2>2. hierarchical_level[m] <= LifeEnd(e) /\ LifeStart(d) <= hierarchical_level[n]
        BY <1>3, <1>5, <1>6, <2>1
    <2>3. hierarchical_level[m] \in Nat /\ hierarchical_level[n] \in Nat
        BY <1>3, <2>1
    <2> QED
        BY <1>7, <1>9, <2>2, <2>3
<1> QED
    BY <1>10 DEF EndsBefore

\* agoGpuAllocBuffers finds a buffer whenever one is possible.
LEMMA CheapestIsPossible ==
    ASSUME Settled, size \in [Node -> Nat], \A e \in Data: buffer[e] # 0 => e \in Virtual /\ Used(e),
           NEW d \in Virtual, Used(d), NEW P \in SUBSET (Buffers \cap Nat), P # {}
    PROVE  MinOf({b \in P: \A c \in P: Cost(b, d) <= Cost(c, d)}) \in P
<1>1. PICK top \in Nat: \A n \in Node: size[n] <= top
    BY NodesAreBounded
<1>2. ASSUME NEW e \in Virtual, Used(e) PROVE Bytes(e) \in Nat /\ Bytes(e) <= top
    <2> DEFINE T == {size[n]: n \in Writers(e)}
    <2>1. T \in SUBSET Nat /\ T # {}
        BY <1>2 DEF Settled, Writers
    <2>2. \A x \in T: x <= top
        BY <1>1 DEF Writers
    <2>3. MaxOf(T) \in T
        BY <2>1, <2>2, MaxOfIsGreatest
    <2> QED
        BY <2>1, <2>2, <2>3 DEF Bytes
<1>3. ASSUME NEW b \in P PROVE Cost(b, d) \in Nat
    <2> DEFINE T == {Bytes(e): e \in Sharers(b) \cup {d}}
    <2>1. \A e \in Sharers(b) \cup {d}: e \in Virtual /\ Used(e)
        BY DEF Sharers, Buffers
    <2>2. T \in SUBSET Nat /\ T # {} /\ \A x \in T: x <= top
        BY <1>2, <2>1
    <2>3. MaxOf(T) \in T
        BY <2>2, MaxOfIsGreatest
    <2> QED
        BY <2>2, <2>3 DEF Cost
<1> DEFINE C == {Cost(b, d): b \in P}
           F == {b \in P: \A c \in P: Cost(b, d) <= Cost(c, d)}
<1>4. PICK x \in C: \A y \in C: x <= y
    <2>1. C \in SUBSET Nat /\ C # {}
        BY <1>3
    <2> QED
        BY <2>1, LeastElement
<1>5. PICK b \in P: x = Cost(b, d)
    BY <1>4
<1>6. b \in F
    BY <1>4, <1>5
<1>7. F \in SUBSET Nat /\ F # {} /\ F \in SUBSET P
    BY <1>6
<1> HIDE DEF F
<1>8. MinOf(F) \in F
    BY <1>7, MinOfIsLeast
<1>9. MinOf(F) \in P
    BY <1>7, <1>8
<1> QED
    BY <1>9 DEF F

BufferInv ==
    /\ role \in Graphs /\ given \in Cases(role) /\ size \in [Node -> Nat]
    /\ buffer \in [Data -> Nat] /\ todo \in SUBSET Data
    /\ pc \notin {"share", "run"} => todo = {} /\ \A d \in Data: buffer[d] = 0
    /\ \A d \in Data: buffer[d] # 0 \/ d \in todo => d \in Virtual /\ Used(d)
    /\ \A d \in todo: buffer[d] = 0
    /\ \E k \in Nat: Buffers = 1 .. k
    /\ Uniform => /\ \A d, e \in Data: d # e /\ buffer[d] # 0 /\ buffer[d] = buffer[e]
                                           => EndsBefore(d, e) \/ EndsBefore(e, d)
                  /\ \A d \in Data, e \in todo: buffer[d] # 0 => StartsBefore(d, e)

\* Nothing that the buffers depend on changes.
LEMMA BuffersStay ==
    ASSUME BufferInv, role' = role, given' = given, size' = size, buffer' = buffer, todo' = todo,
           hierarchical_level' = hierarchical_level,
           pc' \notin {"share", "run"} => pc \notin {"share", "run"},
           (\A d \in Data: buffer[d] = 0) \/ (kind' = kind /\ group' = group)
    PROVE  BufferInv'
<1>1. \A d \in Data: (Used(d)' <=> Used(d)) /\ Users(d)' = Users(d)
    BY DEF Used, Users
<1>2. Buffers' = Buffers
    BY DEF Buffers
<1>3. /\ role' \in Graphs /\ given' \in Cases(role') /\ size' \in [Node -> Nat]
      /\ buffer' \in [Data -> Nat] /\ todo' \in SUBSET Data
      /\ pc' \notin {"share", "run"} => todo' = {} /\ \A d \in Data: buffer'[d] = 0
      /\ \A d \in Data: buffer'[d] # 0 \/ d \in todo' => d \in Virtual /\ Used(d)'
      /\ \A d \in todo': buffer'[d] = 0
      /\ \E k \in Nat: Buffers' = 1 .. k
    BY <1>1, <1>2 DEF BufferInv
<1>4. \A d, e \in Data: (EndsBefore(d, e)' <=> EndsBefore(d, e)) /\ (StartsBefore(d, e)' <=> StartsBefore(d, e))
    BY <1>1 DEF EndsBefore, StartsBefore
<1>5. ASSUME Uniform'
      PROVE  /\ \A d, e \in Data: d # e /\ buffer'[d] # 0 /\ buffer'[d] = buffer'[e]
                                      => EndsBefore(d, e)' \/ EndsBefore(e, d)'
             /\ \A d \in Data, e \in todo': buffer'[d] # 0 => StartsBefore(d, e)'
    <2>1. CASE \A d \in Data: buffer[d] = 0
        BY <2>1
    <2>2. CASE kind' = kind /\ group' = group
        <3>1. Uniform
            BY <1>5, <2>2 DEF Uniform, UsesDevice, InSuperNode, Grouped
        <3> QED
            BY <1>4, <3>1 DEF BufferInv
    <2> QED
        BY <2>1, <2>2
<1> QED
    BY <1>3, <1>5 DEF BufferInv

\* The data collected next starts no later than those that follow.
LEMMA NextStartsFirst ==
    ASSUME Settled, Uniform, NEW d \in Data, IsNext(d), NEW e \in todo, todo \in SUBSET Data
    PROVE  StartsBefore(d, e)
<1>1. PICK n \in DeviceUsers(d): \A x \in todo: \A m \in DeviceUsers(x): ~ Collected(m, n)
    BY DEF IsNext
<1>2. n \in Node /\ n \in Users(d)
    BY <1>1 DEF DeviceUsers, Users
<1> SUFFICES ASSUME NEW m \in Users(e) PROVE hierarchical_level[n] <= hierarchical_level[m]
    BY <1>2 DEF StartsBefore
<1>3. m \in Node /\ m \in DeviceUsers(e)
    BY DEF DeviceUsers, Users, Uniform
<1>4. ~ Collected(m, n)
    BY <1>1, <1>3
<1>5. ~ (Place(m) < Place(n))
    BY <1>2, <1>3, <1>4 DEF Collected, Uniform
<1>6. /\ Place(m) \in Node /\ nodeList[Place(m)] = m
      /\ Place(n) \in Node /\ nodeList[Place(n)] = n
    BY <1>2, <1>3, PlaceIs
<1>7. Place(n) <= Place(m)
    BY <1>5, <1>6 DEF Node
<1> QED
    BY <1>6, <1>7, EarlierIsLower

LEMMA ShareKeepsBuffers == Settled /\ BufferInv /\ ShareBuffer => BufferInv'
<1> SUFFICES ASSUME Settled, BufferInv, ShareBuffer PROVE BufferInv'
    OBVIOUS
<1>0. /\ role' = role /\ given' = given /\ kind' = kind /\ size' = size /\ group' = group /\ pc = "share" /\ pc' = pc
      /\ hierarchical_level' = hierarchical_level
    BY DEF ShareBuffer, targets, levels
<1>1. PICK d \in todo:
          LET possible == {b \in Buffers: \A e \in Sharers(b): Apart(d, e)}
              cheapest == {b \in possible: \A c \in possible: Cost(b, d) <= Cost(c, d)}
          IN  /\ IsNext(d)
              /\ buffer' = [buffer EXCEPT ![d] = IF possible = {} THEN Cardinality(Buffers) + 1
                                                                  ELSE MinOf(cheapest)]
              /\ todo' = todo \ {d}
    BY DEF ShareBuffer
<1> DEFINE P == {b \in Buffers: \A e \in Sharers(b): Apart(d, e)}
           own == IF P = {} THEN Cardinality(Buffers) + 1 ELSE MinOf({b \in P: \A c \in P: Cost(b, d) <= Cost(c, d)})
<1>2. IsNext(d) /\ buffer' = [buffer EXCEPT ![d] = own] /\ todo' = todo \ {d}
    BY <1>1
<1>3. d \in Data /\ d \in Virtual /\ Used(d) /\ buffer[d] = 0
    BY DEF BufferInv
<1>4. PICK k \in Nat: Buffers = 1 .. k
    BY DEF BufferInv
<1>5. own \in P \/ own = k + 1
    <2>1. CASE P = {}
        <3>1. Cardinality(Buffers) = k
            BY <1>4, FS_Interval
        <3> QED
            BY <2>1, <3>1
    <2>2. CASE P # {}
        <3>1. P \in SUBSET (Buffers \cap Nat)
            BY <1>4
        <3>2. size \in [Node -> Nat] /\ \A e \in Data: buffer[e] # 0 => e \in Virtual /\ Used(e)
            BY DEF BufferInv
        <3> HIDE DEF P
        <3>3. MinOf({b \in P: \A c \in P: Cost(b, d) <= Cost(c, d)}) \in P
            BY <1>3, <2>2, <3>1, <3>2, CheapestIsPossible
        <3> QED
            BY <2>2, <3>3
    <2> QED
        BY <2>1, <2>2
<1>6. own \in Nat \ {0} /\ (own \in 1 .. k \/ own = k + 1)
    BY <1>4, <1>5
<1> HIDE DEF own
<1>7. \A e \in Data: buffer'[e] = IF e = d THEN own ELSE buffer[e]
    BY <1>2, <1>3 DEF BufferInv
<1>8. /\ buffer' \in [Data -> Nat] /\ todo' \in SUBSET Data
      /\ \A e \in Data: buffer'[e] # 0 \/ e \in todo' => e \in Virtual /\ Used(e)
      /\ \A e \in todo': buffer'[e] = 0
    BY <1>2, <1>3, <1>6, <1>7 DEF BufferInv
<1>9. \E l \in Nat: Buffers' = 1 .. l
    <2>1. Buffers' = Buffers \cup {own}
        <3>1. \A b: b \in Buffers' <=> b # 0 /\ \E e \in Data: b = buffer'[e]
            BY DEF Buffers
        <3>2. \A b: b \in Buffers <=> b # 0 /\ \E e \in Data: b = buffer[e]
            BY DEF Buffers
        <3> QED
            BY <1>3, <1>6, <1>7, <3>1, <3>2
    <2>2. CASE own \in 1 .. k
        BY <1>4, <2>1, <2>2
    <2>3. CASE own = k + 1
        <3>1. Buffers' = 1 .. k + 1
            BY <1>4, <2>1, <2>3
        <3> QED
            BY <3>1
    <2> QED
        BY <1>6, <2>2, <2>3
<1>10. ASSUME Uniform
       PROVE  /\ \A e, f \in Data: e # f /\ buffer'[e] # 0 /\ buffer'[e] = buffer'[f]
                                       => EndsBefore(e, f) \/ EndsBefore(f, e)
              /\ \A e \in Data, f \in todo': buffer'[e] # 0 => StartsBefore(e, f)
    <2>1. \A e, f \in Data: e # f /\ buffer[e] # 0 /\ buffer[e] = buffer[f] => EndsBefore(e, f) \/ EndsBefore(f, e)
        BY <1>10 DEF BufferInv
    <2>2. \A e \in Data, f \in todo: buffer[e] # 0 => StartsBefore(e, f)
        BY <1>10 DEF BufferInv
    <2>3. ASSUME NEW e \in Data, buffer[e] = own PROVE EndsBefore(e, d)
        <3>1. e \in Sharers(own) /\ own \in Buffers /\ buffer[e] # 0
            BY <1>6, <2>3 DEF Sharers, Buffers
        <3>2. Apart(d, e)
            BY <1>4, <1>5, <3>1
        <3>3. Used(e) /\ StartsBefore(e, d)
            BY <2>2, <3>1 DEF BufferInv
        <3> QED
            BY <1>3, <1>10, <3>2, <3>3, ApartIsAfter
    <2>4. \A f \in todo: StartsBefore(d, f)
        BY <1>2, <1>3, <1>10, NextStartsFirst DEF BufferInv
    <2> QED
        BY <1>2, <1>3, <1>7, <2>1, <2>2, <2>3, <2>4
<1>11. \A e \in Data: (Used(e)' <=> Used(e)) /\ Users(e)' = Users(e)
    BY <1>0 DEF Used, Users
<1>12. \A e, f \in Data: (EndsBefore(e, f)' <=> EndsBefore(e, f)) /\ (StartsBefore(e, f)' <=> StartsBefore(e, f))
    BY <1>0, <1>11 DEF EndsBefore, StartsBefore
<1>13. Uniform' <=> Uniform
    BY <1>0 DEF Uniform, UsesDevice, InSuperNode, Grouped
<1>14. role' \in Graphs /\ given' \in Cases(role') /\ size' \in [Node -> Nat]
    BY <1>0 DEF BufferInv
<1>15. \A e \in Data: buffer'[e] # 0 \/ e \in todo' => e \in Virtual /\ Used(e)'
    BY <1>8, <1>11
<1>16. Uniform' => /\ \A e, f \in Data: e # f /\ buffer'[e] # 0 /\ buffer'[e] = buffer'[f]
                                            => EndsBefore(e, f)' \/ EndsBefore(f, e)'
                   /\ \A e \in Data, f \in todo': buffer'[e] # 0 => StartsBefore(e, f)'
    <2>1. \A f \in todo': f \in Data
        BY <1>8
    <2> QED
        BY <1>10, <1>12, <1>13, <2>1
<1> QED
    BY <1>0, <1>8, <1>9, <1>14, <1>15, <1>16 DEF BufferInv

LEMMA BufferStep == HierarchyInv /\ BufferInv /\ [AllocNext]_allocVars => BufferInv'
<1> SUFFICES ASSUME HierarchyInv, BufferInv, [AllocNext]_allocVars PROVE BufferInv'
    OBVIOUS
<1>1. CASE Hierarchy
    <2>1. pc \notin {"share", "run"} /\ pc' \notin {"share", "run"}
        BY <1>1, HierarchyEndsSorted DEF Later
    <2>2. /\ role' = role /\ given' = given /\ size' = size /\ kind' = kind /\ group' = group
          /\ buffer' = buffer /\ todo' = todo
        <3>1. role' = role
            BY <1>1 DEF Hierarchy, Next, CheckUsage, HeadNode, NoHeadNode, HeadNodesDone, VisitNode, NextPass,
                        PassesDone, SortPair, SortAgain, SortDone
        <3> QED
            BY <1>1, <3>1 DEF Hierarchy, targets, sharing
    <2>3. \A d \in Data: buffer[d] = 0
        BY <2>1 DEF BufferInv
    <2>4. todo' = {} /\ (\A d \in Data: buffer'[d] = 0)
        BY <2>1, <2>2 DEF BufferInv
    <2>5. \A d \in Data: Used(d)' <=> Used(d)
        BY <2>2 DEF Used
    <2>6. Buffers' = Buffers
        BY <2>2 DEF Buffers
    <2> QED
        BY <2>1, <2>2, <2>4, <2>5, <2>6 DEF BufferInv
<1>2. CASE SetDefaultTargets
    <2>1. /\ role' = role /\ given' = given /\ buffer' = buffer /\ todo' = todo
          /\ pc = "sorted" /\ pc' \in {"failed", "merge"}
        BY <1>2 DEF SetDefaultTargets, sharing
    <2>2. size' \in [Node -> Nat]
        <3>1. PICK k \in [Node -> given.kernels], r \in [Node -> given.affinities]: size' = [n \in Node |-> k[n].size]
            BY <1>2 DEF SetDefaultTargets
        <3>2. given.kernels \in SUBSET Kernels
            BY AllocationAssumption DEF BufferInv
        <3>3. \A x \in Kernels: x.size \in Nat
            BY DEF Kernels
        <3> QED
            BY <3>1, <3>2, <3>3
    <2>3. todo' = {} /\ \A d \in Data: buffer'[d] = 0
        BY <2>1 DEF BufferInv
    <2>4. Buffers' = Buffers
        BY <2>1 DEF Buffers
    <2> QED
        BY <2>1, <2>2, <2>3, <2>4 DEF BufferInv
<1>3. CASE MergeNode
    <2>1. /\ role' = role /\ given' = given /\ size' = size /\ buffer' = buffer /\ todo' = todo
          /\ pc = "merge" /\ pc' = pc /\ hierarchical_level' = hierarchical_level
        BY <1>3 DEF MergeNode, sharing, levels
    <2>2. \A d \in Data: buffer[d] = 0
        BY <2>1 DEF BufferInv
    <2> QED
        BY <2>1, <2>2, BuffersStay
<1>4. CASE MakeSuperNodes
    <2>1. /\ role' = role /\ given' = given /\ size' = size /\ buffer' = buffer
          /\ pc = "merge" /\ ((pc' = "failed" /\ todo' = todo) \/ (pc' = "share" /\ todo' = OnDevice))
        BY <1>4 DEF MakeSuperNodes, targets
    <2>2. todo = {} /\ \A d \in Data: buffer'[d] = 0
        BY <2>1 DEF BufferInv
    <2>3. \A d \in OnDevice: d \in Data /\ d \in Virtual /\ Used(d)'
        BY <2>1 DEF OnDevice, DeviceUsers, Users, Used
    <2>4. Buffers' = Buffers
        BY <2>1 DEF Buffers
    <2> QED
        BY <2>1, <2>2, <2>3, <2>4 DEF BufferInv
<1>5. CASE ShareBuffer
    <2>1. Settled
        BY <1>5 DEF ShareBuffer, HierarchyInv, Later
    <2> QED
        BY <1>5, <2>1, ShareKeepsBuffers
<1>6. CASE BuffersDone \/ Execute \/ UNCHANGED allocVars
    <2>1. /\ role' = role /\ given' = given /\ size' = size /\ kind' = kind /\ group' = group
          /\ buffer' = buffer /\ todo' = todo /\ hierarchical_level' = hierarchical_level
          /\ pc' \notin {"share", "run"} => pc \notin {"share", "run"}
        <3>1. CASE BuffersDone
            BY <3>1 DEF BuffersDone, targets, sharing, levels
        <3>2. CASE Execute
            BY <3>2 DEF Execute, LaunchSingle, LaunchSuperNode, PassLaunched, RunWithAccess, RunOnHost, Visit,
                        vars, targets, sharing
        <3>3. CASE UNCHANGED allocVars
            BY <3>3 DEF allocVars, vars, targets, sharing
        <3> QED
            BY <1>6, <3>1, <3>2, <3>3
    <2> QED
        BY <2>1, BuffersStay
<1> QED
    BY <1>1, <1>2, <1>3, <1>4, <1>5, <1>6 DEF AllocNext

--------------------------------------------------------------------------------
\* What has been computed and will be read is in its buffer.
RunInv ==
    /\ ran \in SUBSET Node
    /\ pc # "run" => ran = {} /\ host = {} /\ misread = {}
    /\ \A m \in ran, n \in Node \ ran: hierarchical_level[m] <= hierarchical_level[n]
    /\ Uniform => /\ host = {} /\ misread = {}
                  /\ \A d \in Data: \A w \in Writers(d), u \in Users(d):
                         buffer[d] # 0 /\ w \in ran /\ u \notin ran => d \in resident

LEMMA RunStep == HierarchyInv /\ BufferInv /\ RunInv /\ [AllocNext]_allocVars => RunInv'
<1> SUFFICES ASSUME HierarchyInv, BufferInv, RunInv, [AllocNext]_allocVars PROVE RunInv'
    OBVIOUS
<1>1. CASE Execute
    <2>1. /\ pc = "run" /\ pc' = "run" /\ role' = role /\ given' = given /\ kind' = kind /\ group' = group
          /\ buffer' = buffer /\ hierarchical_level' = hierarchical_level
        BY <1>1 DEF Execute, LaunchSingle, LaunchSuperNode, PassLaunched, RunWithAccess, RunOnHost, Visit,
                    vars, targets, sharing
    <2>2. Settled
        BY <2>1 DEF HierarchyInv, Later
    <2>3. PICK n \in Node: LaunchSingle(n) \/ LaunchSuperNode(n) \/ PassLaunched(n) \/ RunWithAccess(n) \/ RunOnHost(n)
        BY <1>1 DEF Execute
    <2>4. IsDue(n) /\ ran' = ran \cup {n} /\ n \notin ran
        BY <2>3 DEF LaunchSingle, LaunchSuperNode, PassLaunched, RunWithAccess, RunOnHost, Visit, IsDue
    <2>5. \A m \in Node: m \notin ran => hierarchical_level[n] <= hierarchical_level[m]
        BY <2>2, <2>4, DueIsNext
    <2>6. \A m \in ran', u \in Node \ ran': hierarchical_level[m] <= hierarchical_level[u]
        BY <2>4, <2>5 DEF RunInv
    <2>7. ASSUME Uniform
          PROVE  /\ host' = {} /\ misread' = {}
                 /\ \A d \in Data: \A w \in Writers(d), u \in Users(d):
                        buffer[d] # 0 /\ w \in ran' /\ u \notin ran' => d \in resident'
        <3>1. host = {} /\ misread = {}
            BY <2>7 DEF RunInv
        <3>2. OnTheDevice(n, Inputs(n), Outputs(n))
            BY <2>3, <2>7 DEF Uniform, UsesDevice, OnGpu, Fusible, LaunchSingle, LaunchSuperNode, PassLaunched,
                              RunWithAccess, RunOnHost
        <3>3. (Buffered(Inputs(n) \cup Inputs(n)) \cap host) \ dev = {}
            BY <3>1
        <3>4. Load({}, resident) = resident
            BY DEF Load
        <3>5. /\ resident' = Load(Buffered(Outputs(n)), resident)
              /\ host' = host \ Buffered(Outputs(n))
              /\ misread' = misread \cup (Buffered(Inputs(n)) \ resident)
            BY <3>2, <3>3, <3>4 DEF OnTheDevice
        <3>6. ASSUME NEW d \in Buffered(Inputs(n)) PROVE d \in resident
            <4>1. d \in Data /\ d \in Inputs(n) /\ buffer[d] # 0
                BY DEF Buffered, Inputs
            <4>2. PICK w \in Writers(d): TRUE
                BY <2>2, <4>1 DEF BufferInv, Settled
            <4>3. w \in Node /\ DependsOn(n, w)
                BY <4>1 DEF DependsOn, Writers
            <4>4. w \in ran
                BY <2>2, <2>4, <4>3, DueIsReady DEF Settled
            <4>5. n \in Users(d)
                BY <4>1 DEF Users, Inputs
            <4> QED
                BY <2>4, <2>7, <4>1, <4>4, <4>5 DEF RunInv
        <3>7. ASSUME NEW d \in Data, NEW w \in Writers(d), NEW u \in Users(d),
                     buffer[d] # 0, w \in ran', u \notin ran'
              PROVE  d \in resident'
            <4>1. w \in Node /\ u \in Node /\ w \in Users(d) /\ u \notin ran
                BY <2>4, <3>7 DEF Writers, Users
            <4>2. /\ hierarchical_level[w] \in Nat /\ hierarchical_level[u] \in Nat
                  /\ hierarchical_level[n] \in Nat
                BY <2>2, <4>1 DEF Settled
            \* The node's level lies in the life of d, and of every object that it writes.
            <4>3. hierarchical_level[w] <= hierarchical_level[n] /\ hierarchical_level[n] <= hierarchical_level[u]
                BY <2>4, <2>5, <3>7, <4>1, <4>2 DEF RunInv
            <4>4. ASSUME NEW e \in Outputs(n), e # d PROVE buffer[e] # buffer[d]
                <5>1. e \in Data /\ n \in Users(e)
                    BY DEF Outputs, Users
                <5>2. ~ EndsBefore(d, e)
                    BY <4>2, <4>3, <5>1 DEF EndsBefore
                <5>3. ~ EndsBefore(e, d)
                    BY <4>1, <4>2, <4>3, <5>1 DEF EndsBefore
                <5> QED
                    BY <2>7, <3>7, <4>4, <5>1, <5>2, <5>3 DEF BufferInv
            <4>5. CASE d \in Outputs(n)
                <5>1. d \in Buffered(Outputs(n)) /\ \A e \in Buffered(Outputs(n)) \ {d}: buffer[e] # buffer[d]
                    BY <3>7, <4>4, <4>5 DEF Buffered
                <5> QED
                    BY <3>5, <5>1 DEF Load
            <4>6. CASE d \notin Outputs(n)
                <5>1. w # n
                    BY <4>6 DEF Writers, Outputs
                <5>2. d \in resident
                    BY <2>4, <2>7, <3>7, <4>1, <5>1 DEF RunInv
                <5>3. \A e \in Buffered(Outputs(n)): buffer[e] # buffer[d]
                    BY <4>4, <4>6 DEF Buffered
                <5> QED
                    BY <3>5, <5>2, <5>3 DEF Load
            <4> QED
                BY <4>5, <4>6
        <3> QED
            BY <3>1, <3>5, <3>6, <3>7
    <2>8. Uniform' <=> Uniform
        BY <2>1 DEF Uniform, UsesDevice, InSuperNode, Grouped
    <2>9. \A d \in Data: Writers(d)' = Writers(d) /\ Users(d)' = Users(d)
        BY <2>1 DEF Writers, Users
    <2>10. ran' \in SUBSET Node
        BY <2>4 DEF RunInv
    <2> QED
        BY <2>1, <2>6, <2>7, <2>8, <2>9, <2>10 DEF RunInv
<1>2. CASE ~ Execute /\ pc # "run"
    <2>1. ran = {} /\ host = {} /\ misread = {}
        BY <1>2 DEF RunInv
    <2>2. ran' = ran /\ host' = host /\ misread' = misread
        BY <1>2 DEF AllocNext, Hierarchy, SetDefaultTargets, MergeNode, MakeSuperNodes, ShareBuffer, BuffersDone,
                    allocVars, running
    <2> QED
        BY <2>1, <2>2 DEF RunInv
<1>3. CASE ~ Execute /\ pc = "run"
    <2>1. UNCHANGED allocVars
        BY <1>3, HierarchyEndsSorted DEF AllocNext, SetDefaultTargets, MergeNode, MakeSuperNodes, ShareBuffer,
                                         BuffersDone, Later
    <2>2. /\ pc' = pc /\ role' = role /\ given' = given /\ kind' = kind /\ group' = group /\ buffer' = buffer
          /\ hierarchical_level' = hierarchical_level
          /\ ran' = ran /\ host' = host /\ misread' = misread /\ resident' = resident
        BY <2>1 DEF allocVars, vars, targets, sharing, running
    <2>3. Uniform' <=> Uniform
        BY <2>2 DEF Uniform, UsesDevice, InSuperNode, Grouped
    <2>4. \A d \in Data: Writers(d)' = Writers(d) /\ Users(d)' = Users(d)
        BY <2>2 DEF Writers, Users
    <2> QED
        BY <2>2, <2>3, <2>4 DEF RunInv
<1> QED
    BY <1>1, <1>2, <1>3

--------------------------------------------------------------------------------
AllocInv == HierarchyInv /\ GroupInv /\ ReadyInv /\ BufferInv /\ RunInv

LEMMA AllocStarts == AllocInit => AllocInv
<1> SUFFICES ASSUME AllocInit PROVE AllocInv
    OBVIOUS
<1>1. Init /\ pc = "usage"
    BY DEF AllocInit, Init
<1>2. LevelInv /\ SortInv
    BY <1>1, LevelInit, IdentityIsSorted DEF Init, SortInv
<1>3. HierarchyInv
    BY <1>1, <1>2 DEF HierarchyInv, Later
<1>4. GroupInv
    BY <1>1 DEF GroupInv
<1>5. ReadyInv /\ RunInv
    BY DEF AllocInit, ReadyInv, RunInv
<1>6. BufferInv
    <2>1. Buffers = {} /\ 1 .. 0 = {}
        BY DEF AllocInit, Buffers
    <2>2. \E k \in Nat: Buffers = 1 .. k
        BY <2>1
    <2> QED
        BY <1>1, <2>2 DEF AllocInit, Init, BufferInv
<1> QED
    BY <1>3, <1>4, <1>5, <1>6 DEF AllocInv

LEMMA AllocInvariant == AllocSpec => []AllocInv
<1>1. AllocInv /\ [AllocNext]_allocVars => AllocInv'
    BY HierarchyStep, GroupStep, ReadyStep, BufferStep, RunStep DEF AllocInv
<1> QED
    BY <1>1, AllocStarts, PTL DEF AllocSpec

\* What the hierarchy establishes holds through the allocation and the execution:
\* agoOptimizeDramaAlloc changes neither the levels nor the order of nodeList.
THEOREM HierarchyHolds == AllocSpec => [](LevelsFollowData /\ WritersRunFirst /\ VerdictIsRight)
<1>1. HierarchyInv => LevelsFollowData /\ WritersRunFirst /\ VerdictIsRight
    <2> SUFFICES ASSUME HierarchyInv PROVE LevelsFollowData /\ WritersRunFirst /\ VerdictIsRight
        OBVIOUS
    <2>1. CASE pc \notin Later
        BY <2>1, LevelsHold, OrderHolds, VerdictHolds DEF HierarchyInv
    <2>2. CASE pc \in Later
        BY <2>2 DEF Later, LevelsFollowData, WritersRunFirst, VerdictIsRight
    <2> QED
        BY <2>1, <2>2
<1>2. AllocInv => HierarchyInv
    BY DEF AllocInv
<1> QED
    BY <1>1, <1>2, AllocInvariant, PTL

\* The groups that agoOptimizeDramaAllocMergeSuperNodes makes can be launched as one
\* kernel: at their turn everything they read from others has been computed, and no
\* kernel gathers from an image that its own group computes.
THEOREM GroupsCanRun == AllocSpec => []GroupsAreReady
<1>1. AllocInv => GroupsAreReady
    <2> SUFFICES ASSUME AllocInv, AutoGroups PROVE GroupsAreReady
        BY DEF GroupsAreReady
    <2>1. early = {}
        BY DEF AllocInv, ReadyInv
    <2>2. ASSUME pc \in {"share", "run"}, NEW m \in Node, NEW n \in Node, InSuperNode(n), kind[n] = "m2r",
                 m \in Members(group[n]) \ {n}
          PROVE  ~ DependsOn(n, m)
        <3>1. Together(m, n) /\ m # n
            BY <2>2 DEF Together, Members, InSuperNode
        <3>2. GathersFromOutside
            BY <2>2 DEF AllocInv, GroupInv
        <3> QED
            BY <2>2, <3>1, <3>2 DEF GathersFromOutside
    <2> QED
        BY <2>1, <2>2 DEF GroupsAreReady
<1> QED
    BY <1>1, AllocInvariant, PTL

\* The buffers that agoGpuAllocBuffers shares keep every virtual object until its last
\* reader, when every node uses the device and none is part of a supernode.
THEOREM LinksHoldOnDevice == AllocSpec => []UniformLinksHold
<1>1. AllocInv => UniformLinksHold
    BY DEF AllocInv, RunInv, UniformLinksHold, LinksHold
<1> QED
    BY <1>1, AllocInvariant, PTL

--------------------------------------------------------------------------------
(***************************************************************************)
(* The end.  Every step brings it nearer, and some step can be taken.      *)
(***************************************************************************)

\* The phases in their order; the last ones are those that refuse the graph.
Phase(p) ==
    CASE p = "usage" -> 0
      [] p = "heads" -> 1
      [] p = "rest" -> 2
      [] p = "sort" -> 3
      [] p = "sorted" -> 4
      [] p = "merge" -> 5
      [] p = "share" -> 6
      [] p = "run" -> 7
      [] OTHER -> 8

\* m stands before n in nodeList, and belongs behind it.
Inversions ==
    {p \in Node \X Node: /\ hierarchical_level[p[2]] < hierarchical_level[p[1]]
                         /\ \E j, k \in Node: j < k /\ nodeList[j] = p[1] /\ nodeList[k] = p[2]}

\* What a phase has to use up: it never gets more.
Left == CASE pc = "rest" -> {n \in Node: hierarchical_level[n] = 0}
          [] pc = "sort" -> Inversions
          [] pc = "share" -> todo
          [] pc = "run" -> Node \ ran
          [] OTHER -> {}

\* The next phase is reached, something is used up, or, with as much left, a pass goes
\* on: it advances in the list, or is followed by a pass that has changed nothing yet.
Advances ==
    \/ Phase(pc) < Phase(pc')
    \/ /\ pc' = pc /\ Left' \subseteq Left
       /\ \/ Left' # Left
          \/ changed /\ ~ changed'
          \/ changed' = changed /\ i < i' /\ i' <= Count + 1

\* Sharing buffers and executing find something to go on with.
SomethingIsNext ==
    /\ pc = "share" /\ todo # {} => \E d \in todo: IsNext(d)
    /\ pc = "run" /\ ran # Node =>
          \E n \in Node: IsDue(n) /\ kind[n] \in OnGpu \cup {"access", "host"}

\* No node is twice in the list.
LEMMA ListHasNoDuplicates ==
    ASSUME LevelInv, SortInv, NEW j \in Node, NEW k \in Node, nodeList[j] = nodeList[k]
    PROVE  j = k
<1>1. nodeList[j] \in Nat
    BY DEF LevelInv, TypeOK, Node
<1>2. ~ (j < k) /\ ~ (k < j)
    BY <1>1 DEF SortInv, SortIsStable
<1> QED
    BY <1>2 DEF Node

\* The numbers of the phases, and what is left in each, before and after a step.
LEMMA PhasesInOrder ==
    /\ Phase("usage") = 0 /\ Phase("heads") = 1 /\ Phase("rest") = 2 /\ Phase("sort") = 3 /\ Phase("sorted") = 4
    /\ Phase("merge") = 5 /\ Phase("share") = 6 /\ Phase("run") = 7
    /\ Phase("multiple_writers") = 8 /\ Phase("cycle") = 8 /\ Phase("failed") = 8
BY DEF Phase

LEMMA LeftIs ==
    /\ pc = "rest" => Left = {n \in Node: hierarchical_level[n] = 0}
    /\ pc = "sort" => Left = Inversions
    /\ pc = "share" => Left = todo
    /\ pc = "run" => Left = Node \ ran
    /\ pc \notin {"rest", "sort", "share", "run"} => Left = {}
BY DEF Left

LEMMA LeftIsThen ==
    /\ pc' = "rest" => Left' = {n \in Node: hierarchical_level'[n] = 0}
    /\ pc' = "sort" => Left' = Inversions'
    /\ pc' = "share" => Left' = todo'
    /\ pc' = "run" => Left' = Node \ ran'
    /\ pc' \notin {"rest", "sort", "share", "run"} => Left' = {}
BY DEF Left

\* An exchange of neighbours out of order removes one inversion, and adds none.
LEMMA ExchangeRemovesInversion ==
    ASSUME LevelInv, SortInv, SortPair, OutOfOrder(i)
    PROVE  Inversions' \subseteq Inversions /\ Inversions' # Inversions
<1> DEFINE p(k) == IF k = i THEN i + 1 ELSE IF k = i + 1 THEN i ELSE k
<1>0. /\ i \in Node /\ i + 1 \in Node
      /\ hierarchical_level' = hierarchical_level
      /\ nodeList \in [Node -> Node] /\ \A n \in Node: hierarchical_level[n] \in Nat
    <2>1. TypeOK
        BY DEF LevelInv
    <2>2. i \in Node /\ i + 1 \in Node
        BY <2>1 DEF SortPair, TypeOK, Node
    <2> QED
        BY <2>1, <2>2 DEF SortPair, TypeOK, levels
<1>1. nodeList' = [nodeList EXCEPT ![i] = nodeList[i + 1], ![i + 1] = nodeList[i]]
    BY DEF SortPair
<1>2. \A k \in Node: p(k) \in Node /\ nodeList'[k] = nodeList[p(k)]
    BY <1>0, <1>1 DEF Node
<1>3. \A j, k \in Node: j < k => p(j) < p(k) \/ (j = i /\ k = i + 1)
    BY <1>0 DEF Node
<1>4. p(i) = i + 1 /\ p(i + 1) = i /\ i < i + 1
    BY <1>0 DEF Node
<1> HIDE DEF p
<1>5. hierarchical_level[nodeList[i + 1]] < hierarchical_level[nodeList[i]]
    BY DEF OutOfOrder
<1> DEFINE x == <<nodeList[i], nodeList[i + 1]>>
<1>6. x \in Inversions
    <2>1. x \in Node \X Node /\ x[1] = nodeList[i] /\ x[2] = nodeList[i + 1]
        BY <1>0
    <2> QED
        BY <1>0, <1>4, <1>5, <2>1 DEF Inversions
\* The pair that is exchanged stands in order then.
<1>7. x \notin Inversions'
    <2> SUFFICES ASSUME x \in Inversions' PROVE FALSE
        OBVIOUS
    <2>1. PICK j \in Node, k \in Node: j < k /\ nodeList'[j] = nodeList[i] /\ nodeList'[k] = nodeList[i + 1]
        BY <1>0 DEF Inversions
    <2>2. nodeList[p(j)] = nodeList[i] /\ nodeList[p(k)] = nodeList[i + 1] /\ p(j) \in Node /\ p(k) \in Node
        BY <1>2, <2>1
    <2>3. p(j) = i /\ p(k) = i + 1
        BY <1>0, <2>2, ListHasNoDuplicates
    <2>4. p(j) < p(k) \/ (j = i /\ k = i + 1)
        BY <1>3, <2>1
    <2>5. j = i + 1 /\ k = i
        BY <1>0, <1>4, <2>1, <2>3 DEF p
    <2> QED
        BY <1>0, <2>1, <2>5 DEF Node
<1>8. ASSUME NEW y \in Inversions' PROVE y \in Inversions
    <2>1. /\ y \in Node \X Node /\ hierarchical_level[y[2]] < hierarchical_level[y[1]]
          /\ \E j, k \in Node: j < k /\ nodeList'[j] = y[1] /\ nodeList'[k] = y[2]
        BY <1>0 DEF Inversions
    <2>2. PICK j \in Node, k \in Node: j < k /\ nodeList'[j] = y[1] /\ nodeList'[k] = y[2]
        BY <2>1
    <2>3. nodeList[p(j)] = y[1] /\ nodeList[p(k)] = y[2] /\ p(j) \in Node /\ p(k) \in Node
        BY <1>2, <2>2
    <2>4. CASE p(j) < p(k)
        BY <2>1, <2>3, <2>4 DEF Inversions
    <2>5. CASE j = i /\ k = i + 1
        <3>1. y[1] = nodeList[i + 1] /\ y[2] = nodeList[i]
            BY <1>4, <2>3, <2>5
        <3>2. hierarchical_level[nodeList[i]] < hierarchical_level[nodeList[i + 1]]
            BY <2>1, <3>1
        <3>3. hierarchical_level[nodeList[i]] \in Nat /\ hierarchical_level[nodeList[i + 1]] \in Nat
            BY <1>0
        <3> QED
            BY <1>5, <3>2, <3>3
    <2> QED
        BY <1>3, <2>2, <2>4, <2>5
<1> QED
    BY <1>6, <1>7, <1>8

\* A node that is ready gets a level: it has inputs, and they have levels.
LEMMA ReadyHasLevel ==
    ASSUME LevelInv, pc = "rest", NEW n \in Node, Ready(n)
    PROVE  LevelMax(n) \in Nat /\ LevelMax(n) # 0
<1>1. TypeOK /\ Bounded /\ Rest
    BY DEF LevelInv
<1>2. hierarchical_level[n] = 0 /\ \A d \in Inputs(n): dataLevel[d] > 0
    BY DEF Ready
<1>3. PICK d \in Inputs(n): TRUE
    BY <1>1, <1>2 DEF Rest
<1>4. LevelMax(n) \in Nat /\ dataLevel[d] <= LevelMax(n)
    BY <1>1, <1>3, LevelMaxIsBound
<1>5. dataLevel[d] > 0 /\ dataLevel[d] \in Nat
    BY <1>1, <1>2, <1>3 DEF TypeOK, Inputs
<1> QED
    BY <1>4, <1>5

\* Between two phases, and within a pass.
LEMMA AdvancesToPhase == ASSUME Phase(pc) < Phase(pc') PROVE Advances
BY DEF Advances

LEMMA AdvancesInPass ==
    ASSUME i \in Nat, pc' = pc, Left' \subseteq Left,
           \/ Left' # Left
           \/ changed /\ ~ changed'
           \/ changed' = changed /\ i <= Count /\ i' = i + 1
    PROVE  Advances
<1>1. Count \in Nat
    BY SmallConstants
<1>2. CASE changed' = changed /\ i <= Count /\ i' = i + 1
    <2>1. i < i' /\ i' <= Count + 1
        BY <1>1, <1>2
    <2> QED
        BY <1>2, <2>1 DEF Advances
<1> QED
    BY <1>2 DEF Advances

\* The steps of agoOptimizeDramaComputeGraphHierarchy and of the sort.
LEMMA HierarchyAdvances == ASSUME LevelInv, SortInv, Next PROVE Advances
<1>0. TypeOK /\ i \in Nat
    BY DEF LevelInv, TypeOK
<1>1. CASE CheckUsage
    <2>1. pc = "usage" /\ (pc' = "heads" \/ pc' = "multiple_writers")
        BY <1>1 DEF CheckUsage
    <2> QED
        BY <2>1, PhasesInOrder, AdvancesToPhase
<1>2. CASE HeadNode
    <2>1. pc = "heads" /\ pc' = pc /\ changed' = changed /\ i <= Count /\ i' = i + 1
        BY <1>2 DEF HeadNode
    <2>2. Left' \subseteq Left
        BY <2>1, LeftIs, LeftIsThen
    <2> QED
        BY <2>1, <2>2, <1>0, AdvancesInPass
<1>3. CASE NoHeadNode \/ HeadNodesDone
    <2>1. pc = "heads" /\ (pc' = "cycle" \/ pc' = "rest")
        BY <1>3 DEF NoHeadNode, HeadNodesDone
    <2> QED
        BY <2>1, PhasesInOrder, AdvancesToPhase
<1>4. CASE VisitNode
    <2>1. pc = "rest" /\ pc' = pc /\ i <= Count /\ i' = i + 1 /\ i \in Node
        BY <1>0, <1>4 DEF VisitNode, TypeOK, Node
    <2>2. nodeList[i] \in Node /\ hierarchical_level \in [Node -> Nat]
        BY <1>0, <2>1 DEF TypeOK
    <2>3. Left = {n \in Node: hierarchical_level[n] = 0} /\ Left' = {n \in Node: hierarchical_level'[n] = 0}
        BY <2>1, LeftIs, LeftIsThen
    <2>4. CASE Ready(nodeList[i])
        <3>1. hierarchical_level' = [hierarchical_level EXCEPT ![nodeList[i]] = LevelMax(nodeList[i])]
            BY <1>4, <2>4 DEF VisitNode, Mark
        <3>2. LevelMax(nodeList[i]) \in Nat /\ LevelMax(nodeList[i]) # 0
            BY <2>1, <2>2, <2>4, ReadyHasLevel
        <3>3. hierarchical_level[nodeList[i]] = 0
            BY <2>4 DEF Ready
        <3>4. Left' \subseteq Left /\ nodeList[i] \in Left /\ nodeList[i] \notin Left'
            BY <2>2, <2>3, <3>1, <3>2, <3>3
        <3> QED
            BY <2>1, <3>4, <1>0, AdvancesInPass
    <2>5. CASE ~ Ready(nodeList[i])
        <3>1. UNCHANGED <<levels, changed>>
            BY <1>4, <2>5 DEF VisitNode
        <3>2. changed' = changed /\ hierarchical_level' = hierarchical_level
            BY <3>1 DEF levels
        <3>3. Left' \subseteq Left
            BY <2>3, <3>2
        <3> QED
            BY <2>1, <3>2, <3>3, <1>0, AdvancesInPass
    <2> QED
        BY <2>4, <2>5
<1>5. CASE NextPass \/ SortAgain
    <2>1. /\ (pc = "rest" \/ pc = "sort") /\ pc' = pc /\ changed /\ ~ changed'
          /\ nodeList' = nodeList /\ hierarchical_level' = hierarchical_level
        BY <1>5 DEF NextPass, SortAgain, levels
    <2>2. Left' = Left
        BY <2>1, LeftIs, LeftIsThen DEF Inversions
    <2> QED
        BY <2>1, <2>2, <1>0, AdvancesInPass
<1>6. CASE PassesDone
    <2>1. pc = "rest" /\ (pc' = "sort" \/ pc' = "cycle")
        BY <1>6 DEF PassesDone
    <2> QED
        BY <2>1, PhasesInOrder, AdvancesToPhase
<1>7. CASE SortPair
    <2>1. pc = "sort" /\ pc' = pc /\ i <= Count /\ i' = i + 1 /\ hierarchical_level' = hierarchical_level
        BY <1>0, <1>7 DEF SortPair, TypeOK, levels
    <2>2. Left = Inversions /\ Left' = Inversions'
        BY <2>1, LeftIs, LeftIsThen
    <2>3. CASE OutOfOrder(i)
        <3>1. Left' \subseteq Left /\ Left' # Left
            BY <1>7, <2>2, <2>3, ExchangeRemovesInversion
        <3> QED
            BY <2>1, <3>1, <1>0, AdvancesInPass
    <2>4. CASE ~ OutOfOrder(i)
        <3>1. nodeList' = nodeList /\ changed' = changed
            BY <1>7, <2>4 DEF SortPair
        <3>2. Left' \subseteq Left
            BY <2>1, <2>2, <3>1 DEF Inversions
        <3> QED
            BY <2>1, <3>1, <3>2, <1>0, AdvancesInPass
    <2> QED
        BY <2>3, <2>4
<1>8. CASE SortDone
    <2>1. pc = "sort" /\ pc' = "sorted"
        BY <1>8 DEF SortDone
    <2> QED
        BY <2>1, PhasesInOrder, AdvancesToPhase
<1> QED
    BY <1>1, <1>2, <1>3, <1>4, <1>5, <1>6, <1>7, <1>8 DEF Next

\* How the kernels run, the groups, and the data that wait for a buffer: the device has users
\* for each of them.
KindInv ==
    /\ pc \in {"merge", "share", "run"} =>
          kind \in [Node -> OnGpu \cup {"access", "host"}] /\ group \in [Node -> Nat]
    /\ pc = "share" => \A d \in todo: DeviceUsers(d) # {}

\* The steps that follow, to the end of an execution.
LEMMA AllocAdvances == ASSUME HierarchyInv, RunInv, AllocNext PROVE Advances
<1>1. CASE Hierarchy
    <2>1. pc \notin Later
        BY <1>1, HierarchyEndsSorted
    <2> QED
        BY <1>1, <2>1, HierarchyAdvances DEF HierarchyInv, Hierarchy
<1>2. CASE SetDefaultTargets
    <2>1. pc = "sorted" /\ (pc' = "failed" \/ pc' = "merge")
        BY <1>2 DEF SetDefaultTargets
    <2> QED
        BY <2>1, PhasesInOrder, AdvancesToPhase
<1>3. CASE MergeNode
    <2>1. pc = "merge" /\ pc' = pc /\ changed' = changed /\ i <= Count /\ i' = i + 1
        BY <1>3 DEF MergeNode
    <2>2. Left' \subseteq Left
        BY <2>1, LeftIs, LeftIsThen
    <2>3. i \in Nat
        BY <2>1 DEF HierarchyInv, Later, Settled
    <2> QED
        BY <2>1, <2>2, <2>3, AdvancesInPass
<1>4. CASE MakeSuperNodes
    <2>1. pc = "merge" /\ (pc' = "failed" \/ pc' = "share")
        BY <1>4 DEF MakeSuperNodes
    <2> QED
        BY <2>1, PhasesInOrder, AdvancesToPhase
<1>5. CASE ShareBuffer
    <2>1. pc = "share" /\ pc' = pc
        BY <1>5 DEF ShareBuffer
    <2>2. PICK d \in todo: todo' = todo \ {d}
        BY <1>5 DEF ShareBuffer
    <2>3. Left = todo /\ Left' = todo'
        BY <2>1, LeftIs, LeftIsThen
    <2> QED
        BY <2>1, <2>2, <2>3 DEF Advances
<1>6. CASE BuffersDone
    <2>1. pc = "share" /\ pc' = "run"
        BY <1>6 DEF BuffersDone
    <2> QED
        BY <2>1, PhasesInOrder, AdvancesToPhase
<1>7. CASE Execute
    <2>1. PICK n \in Node: Visit(n)
        BY <1>7 DEF Execute, LaunchSingle, LaunchSuperNode, PassLaunched, RunWithAccess, RunOnHost
    <2>2. pc = "run" /\ pc' = pc /\ n \notin ran /\ ran' = ran \cup {n}
        BY <2>1 DEF Visit, IsDue, vars
    <2>3. Left = Node \ ran /\ Left' = Node \ ran'
        BY <2>2, LeftIs, LeftIsThen
    <2> QED
        BY <2>2, <2>3 DEF Advances
<1> QED
    BY <1>1, <1>2, <1>3, <1>4, <1>5, <1>6, <1>7 DEF AllocNext

\* What is left is finite: nodes, pairs of nodes, or virtual data.
LEMMA LeftIsFinite == ASSUME IsFiniteSet(Virtual), BufferInv PROVE IsFiniteSet(Left)
<1>1. IsFiniteSet(Node)
    BY SmallConstants, FS_Interval DEF Node
<1>2. IsFiniteSet(Node \X Node)
    BY <1>1, FS_Product
<1>3. IsFiniteSet(todo)
    <2>1. todo \subseteq Virtual
        BY DEF BufferInv
    <2> QED
        BY <2>1, FS_Subset
<1>4. CASE pc = "rest"
    <2>1. Left \subseteq Node
        BY <1>4, LeftIs
    <2> QED
        BY <1>1, <2>1, FS_Subset
<1>5. CASE pc = "sort"
    <2>1. Left \subseteq Node \X Node
        BY <1>5, LeftIs DEF Inversions
    <2> QED
        BY <1>2, <2>1, FS_Subset
<1>6. CASE pc = "share"
    BY <1>3, <1>6, LeftIs
<1>7. CASE pc = "run"
    <2>1. Left \subseteq Node
        BY <1>7, LeftIs
    <2> QED
        BY <1>1, <2>1, FS_Subset
<1>8. CASE pc \notin {"rest", "sort", "share", "run"}
    BY <1>8, LeftIs, FS_EmptySet
<1> QED
    BY <1>4, <1>5, <1>6, <1>7, <1>8

LEMMA PlacesAreNumbers == Settled => \A n \in Node: Place(n) \in Nat
BY PlaceIs DEF Node

\* The first of some nodes in the list.
LEMMA FirstInList ==
    ASSUME Settled, NEW S \in SUBSET Node, S # {}
    PROVE  \E n \in S: \A m \in S: m # n => Place(n) < Place(m)
<1> DEFINE P == {Place(n): n \in S}
<1>1. P \in SUBSET Nat /\ P # {}
    BY PlacesAreNumbers
<1>2. PICK k \in P: \A l \in P: k <= l
    BY <1>1, LeastElement
<1>3. PICK n \in S: k = Place(n)
    BY <1>2
<1>4. ASSUME NEW m \in S, m # n PROVE Place(n) < Place(m)
    <2>1. Place(n) <= Place(m)
        BY <1>2, <1>3
    <2>2. /\ Place(m) \in Node /\ nodeList[Place(m)] = m
          /\ Place(n) \in Node /\ nodeList[Place(n)] = n
        BY PlaceIs
    <2>3. Place(n) # Place(m)
        BY <1>4, <2>2
    <2> QED
        BY <2>1, <2>2, <2>3 DEF Node
<1> QED
    BY <1>4

\* Among the users of the data that wait, one comes before all others.
LEMMA SomeDataIsNext ==
    ASSUME Settled, BufferInv, KindInv, pc = "share", todo # {}
    PROVE  \E d \in todo: IsNext(d)
<1> DEFINE U == UNION {DeviceUsers(d): d \in todo}
           S == {n \in U: InSuperNode(n)}
<1>1. U \in SUBSET Node /\ U # {} /\ group \in [Node -> Nat]
    BY DEF KindInv, DeviceUsers, Users
<1>2. ASSUME NEW n \in U, \A m \in U: ~ Collected(m, n) PROVE \E d \in todo: IsNext(d)
    <2>1. PICK d \in todo: n \in DeviceUsers(d)
        OBVIOUS
    <2>2. IsNext(d)
        BY <1>2, <2>1 DEF IsNext
    <2> QED
        BY <2>2
<1>3. CASE S = {}
    <2>1. PICK n \in U: \A m \in U: m # n => Place(n) < Place(m)
        BY <1>1, FirstInList
    <2>2. ASSUME NEW m \in U PROVE ~ Collected(m, n)
        <3>1. ~ InSuperNode(m) /\ ~ InSuperNode(n)
            BY <1>3
        <3>2. Place(m) \in Nat /\ Place(n) \in Nat
            BY <1>1, PlacesAreNumbers
        <3>3. ~ (Place(m) < Place(n))
            BY <2>1, <3>2
        <3> QED
            BY <3>1, <3>3 DEF Collected
    <2> QED
        BY <1>2, <2>2
<1>4. CASE S # {}
    <2> DEFINE G == {group[n]: n \in S}
    <2>1. PICK b \in Nat: \A n \in Node: group[n] <= b
        BY <1>1, NodesAreBounded
    <2>2. G \in SUBSET Nat /\ G # {} /\ \A x \in G: x <= b
        BY <1>1, <1>4, <2>1
    <2>3. PICK g \in G: \A x \in G: g >= x
        BY <2>2, GreatestElement
    <2> DEFINE F == {n \in S: group[n] = g}
    <2>4. F \in SUBSET Node /\ F # {}
        BY <1>1, <2>3
    <2>5. PICK n \in F: \A m \in F: m # n => Place(n) < Place(m)
        BY <2>4, FirstInList
    <2>6. n \in U /\ InSuperNode(n) /\ group[n] = g /\ g \in Nat
        BY <2>2, <2>3, <2>5
    <2>7. ASSUME NEW m \in U PROVE ~ Collected(m, n)
        <3>1. InSuperNode(m) => group[m] <= group[n] /\ group[m] \in Nat
            BY <1>1, <2>3, <2>6
        <3>2. InSuperNode(m) => ~ (group[m] > group[n])
            BY <2>6, <3>1
        <3>3. Place(m) \in Nat /\ Place(n) \in Nat
            BY <1>1, <2>6, PlacesAreNumbers
        <3>4. InSuperNode(m) /\ group[m] = group[n] => ~ (Place(m) < Place(n))
            BY <2>5, <2>6, <3>3
        <3> QED
            BY <2>6, <3>2, <3>4 DEF Collected
    <2> QED
        BY <1>2, <2>6, <2>7
<1> QED
    BY <1>3, <1>4

\* Among the nodes left, one comes before all others.
LEMMA SomeNodeIsDue ==
    ASSUME Settled, ran \in SUBSET Node, ran # Node
    PROVE  \E n \in Node: IsDue(n)
<1> DEFINE R == Node \ ran
           L == {hierarchical_level[n]: n \in R}
<1>1. R # {} /\ \A n \in Node: hierarchical_level[n] \in Nat
    BY DEF Settled
<1>2. L \in SUBSET Nat /\ L # {}
    BY <1>1
<1>3. PICK l \in L: \A x \in L: l <= x
    BY <1>2, LeastElement
<1> DEFINE Q == {n \in R: hierarchical_level[n] = l}
           H == {n \in Q: kind[n] \in OnGpu}
           F == IF H = {} THEN Q ELSE H
<1>4. F \in SUBSET Node /\ F # {} /\ F \subseteq Q
    BY <1>3
<1>5. PICK n \in F: \A m \in F: m # n => Place(n) < Place(m)
    BY <1>4, FirstInList
<1>6. n \in Node /\ n \notin ran /\ hierarchical_level[n] = l /\ l \in Nat
    BY <1>2, <1>3, <1>4, <1>5
<1>7. ASSUME NEW m \in Node \ (ran \cup {n}) PROVE Sooner(n, m)
    <2>1. l <= hierarchical_level[m] /\ hierarchical_level[m] \in Nat
        BY <1>1, <1>3
    <2>2. CASE hierarchical_level[m] = l
        <3>1. m \in Q
            BY <2>2
        <3>2. CASE m \in F
            <4>1. Place(n) < Place(m) /\ ((kind[m] \in OnGpu) <=> (kind[n] \in OnGpu))
                BY <1>5, <3>2
            <4>2. (kind[n] \in OnGpu) = (kind[m] \in OnGpu)
                BY <4>1
            <4> QED
                BY <1>6, <2>2, <4>1, <4>2 DEF Sooner
        <3>3. CASE m \notin F
            <4>1. kind[n] \in OnGpu /\ kind[m] \notin OnGpu
                BY <1>5, <3>1, <3>3
            <4> QED
                BY <1>6, <2>2, <4>1 DEF Sooner
        <3> QED
            BY <3>2, <3>3
    <2>3. CASE hierarchical_level[m] # l
        <3>1. hierarchical_level[n] < hierarchical_level[m]
            BY <1>6, <2>1, <2>3
        <3> QED
            BY <3>1 DEF Sooner
    <2> QED
        BY <2>2, <2>3
<1> QED
    BY <1>6, <1>7 DEF IsDue

\* Targets and groups are what the allocation expects.
LEMMA TargetsAreTyped ==
    ASSUME BufferInv, Settled, SetDefaultTargets
    PROVE  kind' \in [Node -> OnGpu \cup {"access", "host"}] /\ group' \in [Node -> Nat]
<1>1. PICK k \in [Node -> given.kernels], r \in [Node -> given.affinities]:
          LET on == [n \in Node |-> Chosen(k[n], r[n])]
              kept == [n \in Node |-> IF r[n].target = "gpu" /\ on[n] \in OnGpu THEN r[n].group ELSE 0]
              asked == {0} \cup {r[n].group: n \in {m \in Node: r[m].target = "gpu"}}
              unused == 1 + (CHOOSE g \in asked: \A h \in asked: h <= g)
              Numbered(j) == on[nodeList[j]] \in Fusible /\ kept[nodeList[j]] = 0
          IN  /\ kind' = on
              /\ size' = [n \in Node |-> k[n].size]
              /\ group' = [n \in Node |->
                     LET j == CHOOSE l \in Node: nodeList[l] = n
                     IN  IF Numbered(j) THEN unused + Cardinality({l \in 1 .. j - 1: Numbered(l)})
                                        ELSE kept[n]]
              /\ pc' = IF \E n \in Node: on[n] = "full" /\ kept[n] # 0 THEN "failed" ELSE "merge"
    BY Zenon DEF SetDefaultTargets
<1> DEFINE on == [n \in Node |-> Chosen(k[n], r[n])]
           kept == [n \in Node |-> IF r[n].target = "gpu" /\ on[n] \in OnGpu THEN r[n].group ELSE 0]
           asked == {0} \cup {r[n].group: n \in {m \in Node: r[m].target = "gpu"}}
           highest == CHOOSE g \in asked: \A h \in asked: h <= g
           unused == 1 + highest
           Numbered(j) == on[nodeList[j]] \in Fusible /\ kept[nodeList[j]] = 0
           Before(j) == {l \in 1 .. j - 1: Numbered(l)}
<1>2. kind' = on
    BY <1>1
<1>3. group' = [n \in Node |-> IF Numbered(Place(n)) THEN unused + Cardinality(Before(Place(n))) ELSE kept[n]]
    BY <1>1 DEF Place
<1>4. /\ given.kernels \in SUBSET Kernels /\ given.affinities \in SUBSET Affinities
      /\ \A x \in given.kernels: x.cpu # "no" \/ x.gpu # "no"
    BY AllocationAssumption DEF BufferInv
<1>5. \A n \in Node: r[n].group \in Nat
    BY <1>4 DEF Affinities
<1>6. ASSUME NEW n \in Node PROVE on[n] \in OnGpu \cup {"access", "host"}
    <2>1. k[n] \in Kernels /\ (k[n].cpu # "no" \/ k[n].gpu # "no")
        BY <1>4
    <2>2. k[n].cpu \in {"no", "host", "access"} /\ k[n].gpu \in {"no", "full", "r2r", "m2r"}
        BY <2>1 DEF Kernels
    <2>3. Chosen(k[n], r[n]) \in {k[n].cpu, k[n].gpu} /\ Chosen(k[n], r[n]) # "no"
        BY <2>1 DEF Chosen
    <2> QED
        BY <2>2, <2>3 DEF OnGpu, Fusible
<1>7. highest \in Nat
    <2> DEFINE f == [n \in Node |-> r[n].group]
    <2>1. f \in [Node -> Nat]
        BY <1>5
    <2>2. PICK b \in Nat: \A n \in Node: f[n] <= b
        BY <2>1, NodesAreBounded
    <2>3. asked \in SUBSET Nat /\ asked # {}
        BY <1>5
    <2>4. \A x \in asked: x <= b
        BY <2>2
    <2> HIDE DEF asked
    <2>5. \E g \in asked: \A h \in asked: g >= h
        BY <2>2, <2>3, <2>4, GreatestElement
    <2>6. \E g \in asked: \A h \in asked: h <= g
        BY <2>3, <2>5
    <2>7. highest \in asked
        BY <2>6
    <2> QED
        BY <2>3, <2>7
<1>8. unused \in Nat
    BY <1>7
<1> HIDE DEF unused, on
<1>9. \A n \in Node: kept[n] \in Nat
    BY <1>5
<1> HIDE DEF Numbered, kept
<1>10. ASSUME NEW n \in Node PROVE Cardinality(Before(Place(n))) \in Nat
    <2>1. Place(n) \in Nat
        BY PlacesAreNumbers
    <2>2. IsFiniteSet(1 .. Place(n) - 1)
        BY <2>1, FS_Interval
    <2>3. IsFiniteSet(Before(Place(n)))
        BY <2>2, FS_Subset
    <2> QED
        BY <2>3, FS_CardinalityType
<1> HIDE DEF Before
<1>11. group' \in [Node -> Nat]
    BY <1>3, <1>8, <1>9, <1>10
<1>12. kind' \in [Node -> OnGpu \cup {"access", "host"}]
    BY <1>2, <1>6 DEF on
<1> QED
    BY <1>11, <1>12

\* They stay so while groups are merged and buffers shared.
LEMMA KindStep == ASSUME HierarchyInv, BufferInv, KindInv, [AllocNext]_allocVars PROVE KindInv'
<1>1. CASE Hierarchy
    <2>1. pc' \notin Later
        BY <1>1, HierarchyEndsSorted
    <2> QED
        BY <2>1 DEF Later, KindInv
<1>2. CASE SetDefaultTargets
    <2>1. pc = "sorted" /\ pc' # "share"
        BY <1>2 DEF SetDefaultTargets
    <2>2. Settled
        BY <2>1, SortedIsSettled DEF HierarchyInv, Later
    <2> QED
        BY <1>2, <2>1, <2>2, TargetsAreTyped DEF KindInv
<1>3. CASE MergeNode
    <2>1. pc = "merge" /\ pc' = "merge" /\ kind' = kind /\ i <= Count
        BY <1>3 DEF MergeNode
    <2>2. Settled /\ group \in [Node -> Nat]
        BY <2>1 DEF HierarchyInv, Later, KindInv
    <2> DEFINE fits == {j \in 1 .. i - 1: /\ Grouped(nodeList[j]) /\ group[nodeList[j]] # group[nodeList[i]]
                                          /\ ~ Conflict(nodeList[j], nodeList[i])}
    <2>3. /\ group' = group \/ (fits # {} /\ group' = Joined(group[nodeList[i]], group[nodeList[MinOf(fits)]]))
        BY <1>3 DEF MergeNode, Joined
    <2>4. CASE fits # {} /\ group' = Joined(group[nodeList[i]], group[nodeList[MinOf(fits)]])
        <3>1. fits \in SUBSET Nat /\ fits \subseteq Node
            BY <2>1, <2>2 DEF Settled, Node
        <3>2. MinOf(fits) \in Node
            BY <2>4, <3>1, MinOfIsLeast
        <3>3. nodeList[MinOf(fits)] \in Node
            BY <2>2, <3>2 DEF Settled
        <3>4. group[nodeList[MinOf(fits)]] \in Nat
            BY <2>2, <3>3
        <3> HIDE DEF fits
        <3>5. group' \in [Node -> Nat]
            BY <2>2, <2>4, <3>4 DEF Joined
        <3> QED
            BY <2>1, <3>5 DEF KindInv
    <2>5. CASE group' = group
        BY <2>1, <2>2, <2>5 DEF KindInv
    <2> QED
        BY <2>3, <2>4, <2>5
<1>4. CASE MakeSuperNodes
    <2>1. pc = "merge" /\ pc' # "run" /\ kind' = kind /\ group' = group /\ role' = role
        BY <1>4 DEF MakeSuperNodes, targets
    <2>2. pc' = "share" => todo' = OnDevice
        BY <1>4 DEF MakeSuperNodes
    <2>3. \A d \in OnDevice: DeviceUsers(d) # {}
        BY DEF OnDevice
    <2>4. \A d \in OnDevice: DeviceUsers(d)' = DeviceUsers(d)
        BY <2>1 DEF DeviceUsers, Users, UsesDevice
    <2> QED
        BY <2>1, <2>2, <2>3, <2>4 DEF KindInv
<1>5. CASE ShareBuffer \/ BuffersDone \/ Execute \/ UNCHANGED allocVars
    <2>1. /\ kind' = kind /\ group' = group /\ role' = role /\ todo' \subseteq todo
          /\ pc' \in {"merge", "share", "run"} => pc \in {"merge", "share", "run"}
          /\ pc' = "share" => pc = "share"
        <3>1. CASE ShareBuffer
            BY <3>1 DEF ShareBuffer, targets
        <3>2. CASE BuffersDone
            BY <3>2 DEF BuffersDone, targets, sharing
        <3>3. CASE Execute
            BY <3>3 DEF Execute, LaunchSingle, LaunchSuperNode, PassLaunched, RunWithAccess, RunOnHost, Visit,
                        vars, targets, sharing
        <3>4. CASE UNCHANGED allocVars
            BY <3>4 DEF allocVars, vars, targets, sharing
        <3> QED
            BY <1>5, <3>1, <3>2, <3>3, <3>4
    <2>2. \A d \in todo: DeviceUsers(d)' = DeviceUsers(d)
        BY <2>1 DEF DeviceUsers, Users, UsesDevice
    <2> QED
        BY <2>1, <2>2 DEF KindInv
<1> QED
    BY <1>1, <1>2, <1>3, <1>4, <1>5 DEF AllocNext

LEMMA KindInvariant == AllocSpec => [](AllocInv /\ KindInv)
<1>1. AllocInit => KindInv
    BY DEF AllocInit, Init, KindInv
<1>2. AllocInv /\ KindInv /\ [AllocNext]_allocVars => KindInv'
    BY KindStep DEF AllocInv
<1> QED
    BY <1>1, <1>2, AllocInvariant, PTL DEF AllocSpec

\* Every loop of the optimiser and of the execution ends, for every graph: each step reaches
\* the next phase, uses up something of a finite stock that its phase never refills, or goes on
\* in a pass over nodeList; a pass is repeated only when it has used something up.
THEOREM EveryStepAdvances ==
    ASSUME IsFiniteSet(Virtual)
    PROVE  AllocSpec => [][Advances]_allocVars /\ []IsFiniteSet(Left)
<1>1. AllocInv /\ [AllocNext]_allocVars => [Advances]_allocVars
    BY AllocAdvances DEF AllocInv
<1>2. AllocInv => IsFiniteSet(Left)
    BY LeftIsFinite DEF AllocInv
<1> QED
    BY <1>1, <1>2, AllocInvariant, PTL DEF AllocSpec

\* agoGpuAllocBuffers always has a data object to place next, while one is left, and
\* agoExecuteGraph a node to run, which has a target that it knows how to run.
THEOREM SomethingIsAlwaysNext == AllocSpec => []SomethingIsNext
<1>1. AllocInv /\ KindInv => SomethingIsNext
    <2> SUFFICES ASSUME AllocInv, KindInv PROVE SomethingIsNext
        OBVIOUS
    <2>1. ASSUME pc = "share", todo # {} PROVE \E d \in todo: IsNext(d)
        BY <2>1, SomeDataIsNext DEF AllocInv, HierarchyInv, Later
    <2>2. ASSUME pc = "run", ran # Node
          PROVE  \E n \in Node: IsDue(n) /\ kind[n] \in OnGpu \cup {"access", "host"}
        <3>1. PICK n \in Node: IsDue(n)
            BY <2>2, SomeNodeIsDue DEF AllocInv, HierarchyInv, Later, RunInv
        <3>2. kind[n] \in OnGpu \cup {"access", "host"}
            BY <2>2 DEF KindInv
        <3> QED
            BY <3>1, <3>2
    <2> QED
        BY <2>1, <2>2 DEF SomethingIsNext
<1> QED
    BY <1>1, KindInvariant, PTL
================================================================================
