---------------------------------- MODULE Dag ----------------------------------
(***************************************************************************)
(* The task graph of pkg/dagryn/dag as constant operators.  A graph is a   *)
(* function needs: needs[t] is the set of tasks that t depends on, the     *)
(* outgoing edges of node t (an edge goes from a task to its dependency).  *)
(*                                                                         *)
(* These operators say what the graph algorithms have to compute.  The     *)
(* algorithms themselves are the state machines TopoSort and CycleDetect.  *)
(***************************************************************************)
EXTENDS Naturals, FiniteSets, Sequences

(* Every graph over a set of nodes, cyclic ones and self-loops included.    *)
Graphs(Node) == [Node -> SUBSET Node]

(* The nodes that list t among their dependencies.                          *)
Dependents(needs, t) == {u \in DOMAIN needs : t \in needs[u]}

(* The nodes nothing depends on: the default targets of RunAll.             *)
LeafNodes(needs) == {t \in DOMAIN needs : Dependents(needs, t) = {}}

(* S together with everything reachable from it along dependencies.  Each  *)
(* round adds one step; as many rounds as there are nodes reach the end.    *)
NeededBy(needs, S) ==
    LET reach[n \in Nat] ==
            IF n = 0 THEN S
            ELSE LET before == reach[n - 1]
                 IN  before \cup UNION {needs[t] : t \in before}
    IN  reach[Cardinality(DOMAIN needs)]

(* A node is on a cycle when it can be reached from its own dependencies.   *)
OnCycle(needs, t) == t \in NeededBy(needs, needs[t])

Cyclic(needs) == \E t \in DOMAIN needs : OnCycle(needs, t)

(* The graph restricted to the nodes of S.                                  *)
Subgraph(needs, S) == [t \in S |-> needs[t] \cap S]

(* Reference definition of the levels of an acyclic graph: level 1 holds   *)
(* the tasks without dependencies, level k + 1 the remaining tasks all of  *)
(* whose dependencies lie in levels 1..k.                                   *)
LevelsOf(needs) ==
    LET placed[n \in Nat] ==
            IF n = 0 THEN {}
            ELSE LET before == placed[n - 1]
                 IN  {t \in DOMAIN needs : needs[t] \subseteq before}
        depth == CHOOSE n \in 0 .. Cardinality(DOMAIN needs) :
                     /\ placed[n] = placed[n + 1]
                     /\ \A m \in 0 .. (n - 1) : placed[m] # placed[m + 1]
    IN  [k \in 1 .. depth |-> placed[k] \ placed[k - 1]]

(* The plan of the scheduler for a set of targets.                          *)
PlanFor(needs, targets) == LevelsOf(Subgraph(needs, NeededBy(needs, targets)))

(* A sequence of disjoint levels in which every task of a level finds all  *)
(* its dependencies in earlier levels.                                      *)
ValidPlan(needs, levels) ==
    /\ levels \in Seq(SUBSET DOMAIN needs)
    /\ \A i, j \in DOMAIN levels : i # j => levels[i] \cap levels[j] = {}
    /\ \A i \in DOMAIN levels : \A t \in levels[i] : \A d \in needs[t] :
           \E j \in 1 .. (i - 1) : d \in levels[j]
================================================================================
