------------------------------ MODULE CycleDetect ------------------------------
(***************************************************************************)
(* dag.DetectCycle (pkg/dagryn/dag/cycle.go): a depth-first search with    *)
(* three colours that returns the path of the first cycle it meets.  The   *)
(* recursion of dfs is an explicit stack of frames; a frame is a node and  *)
(* the dependencies its loop has not looked at.                             *)
(***************************************************************************)
EXTENDS Dag

CONSTANTS
    Node,       \* the task names of the workflow
    NoNode      \* the empty string of the parent map

ASSUME NoNodeAssumption == NoNode \notin Node

VARIABLES
    needs,      \* the graph under test
    color,      \* white, gray or black for every node
    parent,     \* the node from which a node was first visited
    stack,      \* the active calls of dfs, innermost first
    path,       \* the path returned, <<>> while there is none
    found       \* a cycle was returned

vars == <<needs, color, parent, stack, path, found>>

white == 0
gray  == 1
black == 2

Frame(t) == [node |-> t, todo |-> needs[t]]

(* Faulty: the walk up the parents also takes the empty name of the root.   *)
PathTo_PastRoot(node, dep) ==
    LET up[n \in Nat] ==
            IF n = 0 THEN <<node>>
            ELSE LET below == up[n - 1]
                 IN  IF Head(below) = NoNode \/ parent[Head(below)] = dep THEN below
                     ELSE <<parent[Head(below)]>> \o below
    IN  Append(up[Cardinality(Node)], dep)

(* Faulty: the walk does not stop at dep but goes on to the search root.    *)
PathTo_FromRoot(node, dep) ==
    LET up[n \in Nat] ==
            IF n = 0 THEN <<node>>
            ELSE LET above == parent[Head(up[n - 1])]
                 IN  IF above = NoNode THEN up[n - 1] ELSE <<above>> \o up[n - 1]
    IN  Append(up[Cardinality(Node)], dep)

(* The path built for the edge node -> dep that closes a cycle: node and   *)
(* dep, with the ancestors of node put in front until the search root or   *)
(* the child of dep is reached.                                             *)
PathTo(node, dep) ==
    LET up[n \in Nat] ==
            IF n = 0 THEN <<node>>
            ELSE LET above == parent[Head(up[n - 1])]
                 IN  IF above \in {NoNode, dep} THEN up[n - 1]
                     ELSE <<above>> \o up[n - 1]
    IN  Append(up[Cardinality(Node)], dep)

Init ==
    /\ needs \in Graphs(Node)
    /\ color = [t \in Node |-> white]
    /\ parent = [t \in Node |-> NoNode]
    /\ stack = <<>>
    /\ path = <<>>
    /\ found = FALSE

(* The outer loop calls dfs on a node that is still white.                  *)
VisitRoot(t) ==
    /\ ~found /\ stack = <<>>
    /\ color[t] = white
    /\ color' = [color EXCEPT ![t] = gray]
    /\ stack' = <<Frame(t)>>
    /\ UNCHANGED <<needs, parent, path, found>>

(* Faulty: every node seen before is taken for an ancestor.                 *)
VisitDependency_TwoColors(d) ==
    LET top  == Head(stack)
        rest == <<[top EXCEPT !.todo = @ \ {d}]>> \o Tail(stack)
    IN  /\ ~found /\ stack # <<>>
        /\ d \in top.todo
        /\ \/ /\ color[d] # white
              /\ path' = PathTo(top.node, d)
              /\ found' = TRUE
              /\ UNCHANGED <<color, parent, stack>>
           \/ /\ color[d] = white
              /\ color' = [color EXCEPT ![d] = gray]
              /\ parent' = [parent EXCEPT ![d] = top.node]
              /\ stack' = <<Frame(d)>> \o rest
              /\ UNCHANGED <<path, found>>
        /\ UNCHANGED needs

(* The innermost call looks at its next dependency: gray closes a cycle,   *)
(* white is visited, black is passed over.                                  *)
VisitDependency(d) ==
    LET top  == Head(stack)
        rest == <<[top EXCEPT !.todo = @ \ {d}]>> \o Tail(stack)
    IN  /\ ~found /\ stack # <<>>
        /\ d \in top.todo
        /\ \/ /\ color[d] = gray
              /\ path' = PathTo(top.node, d)
              /\ found' = TRUE
              /\ UNCHANGED <<color, parent, stack>>
           \/ /\ color[d] = white
              /\ color' = [color EXCEPT ![d] = gray]
              /\ parent' = [parent EXCEPT ![d] = top.node]
              /\ stack' = <<Frame(d)>> \o rest
              /\ UNCHANGED <<path, found>>
           \/ /\ color[d] = black
              /\ stack' = rest
              /\ UNCHANGED <<color, parent, path, found>>
        /\ UNCHANGED needs

(* Faulty: a finished node stays gray.                                      *)
Finish_StaysGray ==
    /\ ~found /\ stack # <<>>
    /\ Head(stack).todo = {}
    /\ stack' = Tail(stack)
    /\ UNCHANGED <<needs, color, parent, path, found>>

(* The loop of the innermost call is over: the node is finished.            *)
Finish ==
    /\ ~found /\ stack # <<>>
    /\ Head(stack).todo = {}
    /\ color' = [color EXCEPT ![Head(stack).node] = black]
    /\ stack' = Tail(stack)
    /\ UNCHANGED <<needs, parent, path, found>>

Next ==
    \/ \E t \in Node : VisitRoot(t) \/ VisitDependency(t)
    \/ Finish

Spec == Init /\ [][Next]_vars

--------------------------------------------------------------------------------
Returned == found \/ (stack = <<>> /\ \A t \in Node : color[t] # white)

TypeOK ==
    /\ needs \in Graphs(Node)
    /\ color \in [Node -> {white, gray, black}]
    /\ parent \in [Node -> Node \cup {NoNode}]
    /\ stack \in Seq([node : Node, todo : SUBSET Node])
    /\ path \in Seq(Node)
    /\ found \in BOOLEAN

(* The gray nodes are exactly the active calls, each a dependency of the   *)
(* one below it, and a finished node only depends on finished nodes: what  *)
(* makes "gray" mean "on the current path" (cycle.go:31-36).                *)
GrayIsCurrentPath ==
    /\ {stack[i].node : i \in DOMAIN stack} = {t \in Node : color[t] = gray}
    /\ \A i \in 1 .. (Len(stack) - 1) : stack[i].node \in needs[stack[i + 1].node]
    /\ \A t \in Node : color[t] = black =>
           \A d \in needs[t] : color[d] = black

(* The search reports a cycle exactly for the graphs that have one.         *)
DetectsExactlyCycles == Returned => (found <=> Cyclic(needs))

IsCycle(p) ==
    \A i \in DOMAIN p : p[(i % Len(p)) + 1] \in needs[p[i]]

(* When the closing edge is not a self-loop the path is a simple cycle of  *)
(* the graph: every name depends on the next and the last on the first.     *)
PathIsSimpleCycle ==
    found /\ path[Len(path)] # path[Len(path) - 1] =>
        /\ IsCycle(path)
        /\ \A i, j \in DOMAIN path : path[i] = path[j] => i = j
================================================================================
