---------------------------- MODULE GraphHierarchy ----------------------------
(***************************************************************************)
(* The order in which a graph executes: agoOptimizeDramaComputeGraph-      *)
(* Hierarchy rejects a graph that has no such order, and gives every node  *)
(* a hierarchical_level otherwise; agoOptimizeDramaSortGraphHierarchy then *)
(* sorts nodeList by level.  agoVerifyGraph and agoOptimizeDrama run both. *)
(*                                                                         *)
(* role[n][d] is how node n uses data d: as an input, an output or a       *)
(* bidirectional ("inout") argument, or ("loop") as an input and an output *)
(* argument of the same node.  Images with planes, pyramids and delays are *)
(* one data object here.                                                   *)
(***************************************************************************)
EXTENDS Integers, Sequences, FiniteSets

CONSTANTS Count,    \* nodeList.count; the nodes are numbered in creation order
          Data,
          Graphs,   \* the graphs to consider
          Virtual   \* the data that is virtual and not initialised

Node == 1 .. Count
Roles == {"none", "in", "out", "inout", "loop"}

ASSUME HierarchyAssumption ==
    /\ Count \in Nat
    /\ Graphs \subseteq [Node -> [Data -> Roles]]
    /\ Virtual \subseteq Data

VARIABLES role, nodeList,
          hierarchical_level, dataLevel,
          pc, i,               \* the loop, and its position in nodeList
          changed              \* found_change, swapped

vars == <<role, nodeList, hierarchical_level, dataLevel, pc, i, changed>>
levels == <<hierarchical_level, dataLevel>>

\* argConfig: AGO_KERNEL_ARG_INPUT_FLAG and AGO_KERNEL_ARG_OUTPUT_FLAG.
Inputs(n) == {d \in Data: role[n][d] \in {"in", "inout", "loop"}}
Outputs(n) == {d \in Data: role[n][d] \in {"out", "inout", "loop"}}

\* outputUsageCount counts the arguments that are outputs only.
Writers(d) == {n \in Node: role[n][d] \in {"out", "loop"}}
Used(d) == \E n \in Node: role[n][d] # "none"

Init ==
    /\ role \in Graphs
    /\ nodeList = [n \in Node |-> n]
    /\ hierarchical_level = [n \in Node |-> 0]
    /\ dataLevel = [d \in Data |-> 0]
    /\ pc = "usage" /\ i = 1 /\ changed = FALSE

------------------------------------------------------------------------------
\* Seeded fault: a second writer goes unnoticed.
SingleWritersUnchecked ==
    \A d \in Data: d \in Virtual /\ Used(d) => Writers(d) # {}

SingleWriters ==
    \A d \in Data: /\ Cardinality(Writers(d)) <= 1
                   /\ d \in Virtual /\ Used(d) => Writers(d) # {}

\* The usage of every argument, then the reset of the levels; data that no
\* node writes can feed the head nodes.
CheckUsage ==
    /\ pc = "usage"
    /\ IF SingleWriters
          THEN /\ pc' = "heads"
               /\ dataLevel' = [d \in Data |-> IF Used(d) /\ Writers(d) = {} THEN 1 ELSE 0]
          ELSE /\ pc' = "multiple_writers"
               /\ UNCHANGED dataLevel
    /\ UNCHANGED <<role, nodeList, hierarchical_level, i, changed>>

\* Node n takes the level, its outputs the next one.
Mark(n, level) ==
    /\ hierarchical_level' = [hierarchical_level EXCEPT ![n] = level]
    /\ dataLevel' = [d \in Data |-> IF d \in Outputs(n) THEN level + 1 ELSE dataLevel[d]]

IsHead(n) == \A d \in Inputs(n): dataLevel[d] = 1

HeadNode ==
    LET n == nodeList[i]
    IN  /\ pc = "heads" /\ i <= Count
        /\ IF IsHead(n) THEN Mark(n, 1) ELSE UNCHANGED levels
        /\ i' = i + 1
        /\ UNCHANGED <<role, nodeList, pc, changed>>

NoHeadNode ==
    /\ pc = "heads" /\ i > Count
    /\ \A n \in Node: hierarchical_level[n] = 0
    /\ pc' = "cycle"
    /\ UNCHANGED <<role, nodeList, levels, i, changed>>

HeadNodesDone ==
    /\ pc = "heads" /\ i > Count
    /\ \E n \in Node: hierarchical_level[n] # 0
    /\ pc' = "rest" /\ i' = 1 /\ changed' = FALSE
    /\ UNCHANGED <<role, nodeList, levels>>

\* A node without a level, all of whose inputs have one.
Ready(n) == hierarchical_level[n] = 0 /\ \A d \in Inputs(n): dataLevel[d] > 0

\* The highest level of the inputs.  (A node without inputs is a head node.)
LevelMax(n) == CHOOSE l \in {dataLevel[d]: d \in Inputs(n)}: \A d \in Inputs(n): l >= dataLevel[d]

VisitNode ==
    LET n == nodeList[i]
    IN  /\ pc = "rest" /\ i <= Count
        /\ IF Ready(n) THEN Mark(n, LevelMax(n)) /\ changed' = TRUE
                       ELSE UNCHANGED <<levels, changed>>
        /\ i' = i + 1
        /\ UNCHANGED <<role, nodeList, pc>>

\* The end of a pass: another one if it marked a node.
NextPass ==
    /\ pc = "rest" /\ i > Count
    /\ changed
    /\ changed' = FALSE /\ i' = 1
    /\ UNCHANGED <<role, nodeList, levels, pc>>

PassesDone ==
    /\ pc = "rest" /\ i > Count
    /\ ~changed
    /\ pc' = IF \A n \in Node: hierarchical_level[n] # 0 THEN "sort" ELSE "cycle"
    /\ i' = 1
    /\ UNCHANGED <<role, nodeList, levels, changed>>

------------------------------------------------------------------------------
\* Seeded fault: the sort exchanges nodes of equal level too.
OutOfOrderEqual(k) == hierarchical_level[nodeList[k + 1]] <= hierarchical_level[nodeList[k]]

\* agoOptimizeDramaSortGraphHierarchy: exchanges of neighbours.
OutOfOrder(k) == hierarchical_level[nodeList[k + 1]] < hierarchical_level[nodeList[k]]

\* Seeded fault: a pass leaves out its last pair.
SortPairShort ==
    /\ pc = "sort" /\ i < Count
    /\ IF i + 1 < Count /\ OutOfOrder(i)
          THEN /\ nodeList' = [nodeList EXCEPT ![i] = nodeList[i + 1], ![i + 1] = nodeList[i]]
               /\ changed' = TRUE
          ELSE UNCHANGED <<nodeList, changed>>
    /\ i' = i + 1
    /\ UNCHANGED <<role, levels, pc>>

SortPair ==
    /\ pc = "sort" /\ i < Count
    /\ IF OutOfOrder(i)
          THEN /\ nodeList' = [nodeList EXCEPT ![i] = nodeList[i + 1], ![i + 1] = nodeList[i]]
               /\ changed' = TRUE
          ELSE UNCHANGED <<nodeList, changed>>
    /\ i' = i + 1
    /\ UNCHANGED <<role, levels, pc>>

SortAgain ==
    /\ pc = "sort" /\ i >= Count
    /\ changed
    /\ changed' = FALSE /\ i' = 1
    /\ UNCHANGED <<role, nodeList, levels, pc>>

SortDone ==
    /\ pc = "sort" /\ i >= Count
    /\ ~changed
    /\ pc' = "sorted"
    /\ UNCHANGED <<role, nodeList, levels, i, changed>>

Next ==
    \/ CheckUsage
    \/ HeadNode \/ NoHeadNode \/ HeadNodesDone
    \/ VisitNode \/ NextPass \/ PassesDone
    \/ SortPair \/ SortAgain \/ SortDone

Spec == Init /\ [][Next]_vars
FairSpec == Spec /\ WF_vars(Next)

------------------------------------------------------------------------------
TypeOK ==
    /\ role \in [Node -> [Data -> Roles]]
    /\ nodeList \in [Node -> Node]
    /\ hierarchical_level \in [Node -> Nat] /\ dataLevel \in [Data -> Nat]
    /\ pc \in {"usage", "multiple_writers", "heads", "cycle", "rest", "sort", "sorted"}
    /\ i \in 1 .. Count + 1 /\ changed \in BOOLEAN

\* m reads what n writes.
DependsOn(m, n) == \E d \in Data: n \in Writers(d) /\ d \in Inputs(m)

\* Reference: the graph has a cycle if some nodes each depend on one of them.
Cyclic == \E S \in SUBSET Node: S # {} /\ \A m \in S: \E n \in S: DependsOn(m, n)

\* In an accepted graph the level of a node is above the level of every node it
\* depends on: nodes of one level can run in any order.
LevelsFollowData ==
    pc \in {"sort", "sorted"} =>
        \A m, n \in Node: DependsOn(m, n) => hierarchical_level[n] < hierarchical_level[m]

\* When nodeList is executed from its head, the writer of a data object has run
\* before every node that reads it, at a lower level, and every node of the graph
\* is in the list.
WritersRunFirst ==
    pc = "sorted" =>
        /\ \A n \in Node: \E k \in Node: nodeList[k] = n
        /\ \A j, k \in Node: DependsOn(nodeList[k], nodeList[j]) =>
               j < k /\ hierarchical_level[nodeList[j]] < hierarchical_level[nodeList[k]]

\* Nodes of the same level keep the order in which they were in the list.
SortIsStable ==
    \A j, k \in Node: /\ j < k
                      /\ hierarchical_level[nodeList[j]] = hierarchical_level[nodeList[k]]
                      => nodeList[j] < nodeList[k]

\* Reference: no two nodes write the same data, and some node writes the virtual.
OneWriterEach ==
    \A d \in Data: /\ \A m, n \in Writers(d): m = n
                   /\ d \in Virtual /\ Used(d) => \E n \in Node: n \in Writers(d)

\* Exactly the graphs with one writer per data object, with a writer for their
\* virtual data and without cycles are accepted.
VerdictIsRight ==
    /\ pc \in {"heads", "rest", "sort", "sorted", "cycle"} => OneWriterEach
    /\ pc = "multiple_writers" => ~OneWriterEach
    /\ pc = "cycle" => Cyclic \/ Count = 0
    /\ pc \in {"sort", "sorted"} => ~Cyclic

\* Both loops end: every graph gets its verdict.
VerdictIsReached == <>(pc \in {"multiple_writers", "cycle", "sorted"})
================================================================================
