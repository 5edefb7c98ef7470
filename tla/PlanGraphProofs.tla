---------------------------- MODULE PlanGraphProofs ----------------------------
(***************************************************************************)
(* Proofs about PlanGraph, for every finite set of tasks, every graph over *)
(* it and all targets: "gray" means "on the current path" of the search,   *)
(* which returns exactly if there is a cycle and then shows one; the       *)
(* counters of the sort are exact, its levels are a valid plan, and the    *)
(* plan is the earliest one for the targets; every step of either brings   *)
(* its end nearer.                                                         *)
(***************************************************************************)
EXTENDS PlanGraph, DagProofs

(* The worklist and the counters have their types; levels are of needed     *)
(* tasks, and there are none while the worklist is read.                    *)
SortTypes ==
    /\ needs \in [Node -> SUBSET Node]
    /\ work \subseteq Node /\ needed \subseteq Node /\ queue \subseteq needed
    /\ inDegree \in [Node -> Nat]
    /\ levels \in Seq(SUBSET Node)
    /\ Sort!Placed \subseteq needed
    /\ phase = "collect" => levels = <<>>

(* What was found is closed under dependencies up to the names still        *)
(* waiting, and nothing waits once the sort has begun.                      *)
ListInv ==
    /\ \A t \in needed : needs[t] \subseteq needed \cup work
    /\ phase # "collect" => work = {}

(* Every dependency of a task in a level is in an earlier one, and a task   *)
(* is in one level at most.                                                 *)
LevelInv ==
    /\ \A i, j \in DOMAIN levels : i # j => levels[i] \cap levels[j] = {}
    /\ \A i \in DOMAIN levels : \A t \in levels[i] : \A d \in needs[t] :
           \E j \in 1 .. (i - 1) : d \in levels[j]

SortInv == SortTypes /\ ListInv /\ LevelInv /\ CountersExact

(* The calls of the search are of different nodes, the gray ones.  What a   *)
(* call has looked at is finished, but for the call above it.               *)
Calls == [node : Node, todo : SUBSET Node]
SearchTypes ==
    /\ needs \in [Node -> SUBSET Node]
    /\ color \in [Node -> {white, gray, black}]
    /\ stack \in Seq(Calls)
CallsInv ==
    /\ \A i, j \in 1 .. Len(stack) : stack[i].node = stack[j].node => i = j
    /\ \A i \in 1 .. Len(stack) : color[stack[i].node] = gray
    /\ \A t \in Node : color[t] = gray => \E i \in 1 .. Len(stack) : stack[i].node = t
PathInv ==
    \A i \in 1 .. (Len(stack) - 1) : stack[i].node \in needs[stack[i + 1].node]
LookedInv ==
    \A i \in 1 .. Len(stack) :
        /\ stack[i].todo \subseteq needs[stack[i].node]
        /\ \A d \in needs[stack[i].node] \ stack[i].todo :
               color[d] = black \/ (i > 1 /\ d = stack[i - 1].node)
BlackInv == \A t \in Node : color[t] = black => \A d \in needs[t] : color[d] = black

SearchInv == SearchTypes /\ CallsInv /\ PathInv /\ LookedInv /\ BlackInv

SortStep == Sort!Next \/ UNCHANGED Sort!vars

USE DEF Sort!vars, sortvars, vars

--------------------------------------------------------------------------------
(* The sort's instance of the standard modules counts as this module does.  *)
LEMMA SameCardinality ==
    ASSUME NEW S
    PROVE  Sort!Cardinality(S) = Cardinality(S)
BY DEF Sort!Cardinality, Cardinality

(* Taking the queue out of what is unplaced takes its size off the counter. *)
LEMMA Decrement ==
    ASSUME NEW S, NEW P, NEW Q, IsFiniteSet(S), P \cap Q = {}
    PROVE  /\ Cardinality(S \ P) - Cardinality(S \cap Q) = Cardinality(S \ (P \cup Q))
           /\ Cardinality(S \ (P \cup Q)) \in Nat
           /\ (Cardinality(S \ (P \cup Q)) = 0) <=> (S \ (P \cup Q) = {})
<1>1. IsFiniteSet(S \ P) /\ IsFiniteSet(S \cap Q) /\ IsFiniteSet(S \ (P \cup Q))
  BY FS_Difference, FS_Intersection
<1>2. Cardinality((S \ P) \cap Q) = Cardinality(S \cap Q)
  <2>1. (S \ P) \cap Q = S \cap Q
    OBVIOUS
  <2> QED
    BY <2>1
<1>3. Cardinality((S \ P) \ Q) = Cardinality(S \ P) - Cardinality((S \ P) \cap Q)
  BY <1>1, FS_Difference
<1>4. (S \ P) \ Q = S \ (P \cup Q)
  OBVIOUS
<1>5. Cardinality(S \ P) \in Nat /\ Cardinality(S \cap Q) \in Nat /\ Cardinality(S \ (P \cup Q)) \in Nat
  BY <1>1, FS_CardinalityType
<1>6. Cardinality(S \ (P \cup Q)) = 0 <=> S \ (P \cup Q) = {}
  BY <1>1, FS_EmptySet
<1> QED
  BY <1>2, <1>3, <1>4, <1>5, <1>6

(* The subgraph of what is needed has the edges of the graph.               *)
LEMMA SubNeeds ==
    ASSUME SortTypes, ListInv, work = {}, NEW t \in needed
    PROVE  Sort!sub[t] = needs[t] /\ IsFiniteSet(needs[t]) /\ needs[t] \subseteq needed
<1>1. t \in Node /\ needs[t] \subseteq Node /\ needs[t] \subseteq needed
  BY DEF SortTypes, ListInv
<1>2. IsFiniteSet(needs[t])
  BY <1>1, NodeAssumption, FS_Subset
<1> QED
  BY <1>1, <1>2 DEF Sort!sub, Sort!Subgraph

(* Putting the queue at the end of the levels adds it to what is placed.    *)
LEMMA PlacedAfter ==
    ASSUME SortTypes, levels' = Append(levels, queue)
    PROVE  /\ Sort!Placed' = Sort!Placed \cup queue
           /\ levels' \in Seq(SUBSET Node)
           /\ DOMAIN levels = 1 .. Len(levels) /\ Len(levels) \in Nat
           /\ DOMAIN levels' = 1 .. (Len(levels) + 1)
           /\ levels'[Len(levels) + 1] = queue
           /\ \A i \in DOMAIN levels : levels'[i] = levels[i]
<1>1. levels \in Seq(SUBSET Node) /\ queue \in SUBSET Node
  BY DEF SortTypes
<1>2. /\ levels' \in Seq(SUBSET Node)
      /\ DOMAIN levels = 1 .. Len(levels) /\ Len(levels) \in Nat
      /\ DOMAIN levels' = 1 .. (Len(levels) + 1)
      /\ levels'[Len(levels) + 1] = queue
      /\ \A i \in DOMAIN levels : levels'[i] = levels[i]
  BY <1>1
<1>3. ASSUME NEW x PROVE x \in Sort!Placed' <=> x \in Sort!Placed \cup queue
  <2>1. x \in Sort!Placed' <=> \E i \in 1 .. (Len(levels) + 1) : x \in levels'[i]
    BY <1>2 DEF Sort!Placed
  <2>2. x \in Sort!Placed <=> \E i \in 1 .. Len(levels) : x \in levels[i]
    BY <1>2 DEF Sort!Placed
  <2>3. \A i : i \in 1 .. (Len(levels) + 1) <=> (i \in 1 .. Len(levels) \/ i = Len(levels) + 1)
    BY <1>2
  <2> QED
    BY <1>2, <2>1, <2>2, <2>3
<1> QED
  BY <1>2, <1>3

(* A task that is placed has all its dependencies placed.                   *)
LEMMA PlacedClosed ==
    ASSUME SortTypes, LevelInv, NEW t \in Sort!Placed
    PROVE  needs[t] \subseteq Sort!Placed
<1>1. PICK i \in DOMAIN levels : t \in levels[i]
  BY DEF Sort!Placed
<1>2. i \in Nat /\ DOMAIN levels = 1 .. Len(levels) /\ Len(levels) \in Nat
  BY DEF SortTypes
<1>3. ASSUME NEW d \in needs[t] PROVE d \in Sort!Placed
  <2>1. PICK j \in 1 .. (i - 1) : d \in levels[j]
    BY <1>1 DEF LevelInv
  <2>2. j \in DOMAIN levels
    BY <1>2
  <2> QED
    BY <2>1, <2>2 DEF Sort!Placed
<1> QED
  BY <1>3

LEMMA SortInit == Sort!Init => SortInv
<1> SUFFICES ASSUME Sort!Init PROVE SortInv
  OBVIOUS
<1>1. levels = <<>> /\ DOMAIN levels = {} /\ levels \in Seq(SUBSET Node) /\ Sort!Placed = {}
  BY DEF Sort!Init, Sort!Placed
<1>2. SortTypes
  BY <1>1 DEF Sort!Init, SortTypes, Sort!Graphs
<1> QED
  BY <1>1, <1>2 DEF Sort!Init, SortInv, ListInv, LevelInv, CountersExact, Sort!CountersExact

(* One name is taken off the worklist.                                      *)
LEMMA CollectKeeps ==
    ASSUME SortInv, NEW t \in Node, Sort!Collect(t)
    PROVE  SortInv'
<1> USE DEF Sort!Collect
<1>1. needs[t] \subseteq Node
  BY DEF SortInv, SortTypes
<1>2. Sort!Placed' = Sort!Placed /\ levels = <<>> /\ DOMAIN levels = {}
  BY DEF Sort!Placed, SortInv, SortTypes
<1>3. SortTypes'
  BY <1>1, <1>2 DEF SortInv, SortTypes
<1>4. ListInv'
  BY DEF SortInv, ListInv
<1>5. LevelInv' /\ CountersExact'
  BY <1>2 DEF SortInv, LevelInv, CountersExact, Sort!CountersExact
<1> QED
  BY <1>3, <1>4, <1>5 DEF SortInv

(* The counters are set: nothing is placed yet.                             *)
LEMMA StartKeeps ==
    ASSUME SortInv, Sort!StartSort
    PROVE  SortInv'
<1>1. /\ UNCHANGED <<needs, work, needed, levels>> /\ work = {} /\ phase' # "collect"
      /\ levels = <<>> /\ DOMAIN levels = {} /\ Sort!Placed = {} /\ Sort!Placed' = {}
      /\ Sort!sub' = Sort!sub
  BY DEF Sort!StartSort, SortInv, SortTypes, Sort!Placed, Sort!sub
<1>2. \A t \in needed : /\ t \in Node /\ Sort!sub[t] = needs[t] /\ needs[t] \subseteq needed
                        /\ Cardinality(needs[t]) \in Nat
                        /\ Cardinality(needs[t]) = 0 <=> needs[t] = {}
  BY <1>1, SubNeeds, FS_CardinalityType, FS_EmptySet DEF SortInv, SortTypes
<1>3. \/ phase' = "cycle" /\ UNCHANGED <<inDegree, queue>>
      \/ /\ phase' = "sort"
         /\ inDegree' = [t \in Node |-> IF t \in needed THEN Cardinality(Sort!sub[t]) ELSE 0]
         /\ queue' = {t \in needed : inDegree'[t] = 0}
  BY SameCardinality DEF Sort!StartSort
<1>4. SortTypes'
  BY <1>1, <1>2, <1>3 DEF SortInv, SortTypes
<1>5. ListInv' /\ LevelInv'
  BY <1>1 DEF SortInv, ListInv, LevelInv
<1>6. CountersExact'
  <2> SUFFICES ASSUME phase' = "sort"
               PROVE  /\ \A t \in needed : inDegree'[t] = Cardinality(Sort!sub[t] \ {})
                      /\ queue' = {t \in needed \ {} : Sort!sub[t] \subseteq {}}
    BY <1>1, SameCardinality DEF CountersExact, Sort!CountersExact
  <2>1. \A t \in needed : Sort!sub[t] \ {} = needs[t] /\ inDegree'[t] = Cardinality(needs[t])
    BY <1>2, <1>3
  <2> QED
    BY <1>2, <1>3, <2>1
<1> QED
  BY <1>4, <1>5, <1>6 DEF SortInv

(* The queue becomes a level.                                               *)
LEMMA PlaceKeeps ==
    ASSUME SortInv, Sort!PlaceLevel
    PROVE  SortInv'
<1> DEFINE P == Sort!Placed
<1>1. /\ UNCHANGED <<needs, work, needed, phase>> /\ phase = "sort" /\ work = {}
      /\ levels' = Append(levels, queue) /\ Sort!sub' = Sort!sub
      /\ SortTypes /\ ListInv /\ LevelInv /\ CountersExact
  BY DEF Sort!PlaceLevel, SortInv, ListInv, Sort!sub
<1>2. \A t \in needed : /\ t \in Node /\ Sort!sub[t] = needs[t] /\ needs[t] \subseteq needed
                        /\ IsFiniteSet(needs[t])
  BY <1>1, SubNeeds DEF SortTypes
<1>3. /\ \A t \in needed : inDegree[t] = Cardinality(needs[t] \ P)
      /\ \A t : t \in queue <=> (t \in needed /\ t \notin P /\ needs[t] \subseteq P)
  BY <1>1, <1>2, SameCardinality DEF CountersExact, Sort!CountersExact
<1>4. Sort!Placed' = P \cup queue /\ P \cap queue = {} /\ P \cup queue \subseteq needed
  BY <1>1, <1>3, PlacedAfter DEF SortTypes
<1>5. \A t \in needed : inDegree'[t] = inDegree[t] - Cardinality(needs[t] \cap queue)
  BY <1>2, SameCardinality DEF Sort!PlaceLevel
<1>6. \A t \in needed : /\ inDegree'[t] = Cardinality(needs[t] \ (P \cup queue))
                        /\ inDegree'[t] \in Nat
                        /\ inDegree'[t] = 0 <=> needs[t] \subseteq P \cup queue
  <2> HIDE DEF P
  <2> TAKE t \in needed
  <2>1. /\ Cardinality(needs[t] \ P) - Cardinality(needs[t] \cap queue)
              = Cardinality(needs[t] \ (P \cup queue))
        /\ Cardinality(needs[t] \ (P \cup queue)) \in Nat
        /\ (Cardinality(needs[t] \ (P \cup queue)) = 0) <=> (needs[t] \ (P \cup queue) = {})
    <3>1. IsFiniteSet(needs[t]) /\ P \cap queue = {}
      BY <1>2, <1>4
    <3> QED
      BY ONLY <3>1, Decrement
  <2>2. (needs[t] \ (P \cup queue) = {}) <=> needs[t] \subseteq P \cup queue
    OBVIOUS
  <2> QED
    BY ONLY <1>3, <1>5, <2>1, <2>2
<1>7. \A t : t \in queue' <=> (t \in needed /\ needs[t] \cap queue # {} /\ inDegree'[t] = 0)
  BY <1>2 DEF Sort!PlaceLevel
<1>8. \A t : t \in queue' <=> (t \in needed /\ t \notin P \cup queue /\ needs[t] \subseteq P \cup queue)
  <2>1. \A t \in P : needs[t] \subseteq P
    BY <1>1, PlacedClosed
  <2> HIDE DEF P
  <2> QED
    BY <1>3, <1>4, <1>6, <1>7, <2>1
<1>9. SortTypes'
  <2>1. inDegree' = [t \in Node |-> inDegree'[t]] /\ \A t \in Node \ needed : inDegree'[t] = inDegree[t]
    BY DEF Sort!PlaceLevel
  <2>2. inDegree' \in [Node -> Nat]
    BY <1>1, <1>6, <2>1 DEF SortTypes
  <2>3. queue' \subseteq needed
    BY <1>8
  <2>4. levels' \in Seq(SUBSET Node)
    BY <1>1, PlacedAfter
  <2> QED
    BY <1>1, <1>4, <2>2, <2>3, <2>4 DEF SortTypes
<1>10. ListInv'
  BY <1>1 DEF ListInv
<1>11. LevelInv'
  <2> DEFINE n == Len(levels) + 1
  <2>1. /\ n \in Nat /\ DOMAIN levels' = 1 .. n /\ levels'[n] = queue
        /\ DOMAIN levels = 1 .. (n - 1)
        /\ \A i \in DOMAIN levels : levels'[i] = levels[i]
    BY <1>1, PlacedAfter
  <2>2. \A i \in DOMAIN levels : levels[i] \subseteq P
    BY DEF Sort!Placed
  <2>3. \A d \in P : \E j \in DOMAIN levels : d \in levels[j]
    BY DEF Sort!Placed
  <2> HIDE DEF P, n
  <2>4. ASSUME NEW i \in 1 .. n, NEW j \in 1 .. n, i # j
        PROVE  levels'[i] \cap levels'[j] = {}
    <3>1. CASE i \in 1 .. (n - 1) /\ j \in 1 .. (n - 1)
      BY <1>1, <2>1, <2>4, <3>1 DEF LevelInv
    <3>2. CASE i = n
      <4>1. j \in 1 .. (n - 1)
        BY <2>1, <2>4, <3>2
      <4> QED
        BY <1>4, <2>1, <2>2, <3>2, <4>1
    <3>3. CASE j = n
      <4>1. i \in 1 .. (n - 1)
        BY <2>1, <2>4, <3>3
      <4> QED
        BY <1>4, <2>1, <2>2, <3>3, <4>1
    <3> QED
      BY <2>1, <3>1, <3>2, <3>3
  <2>5. ASSUME NEW i \in 1 .. n, NEW t \in levels'[i], NEW d \in needs[t]
        PROVE  \E j \in 1 .. (i - 1) : d \in levels'[j]
    <3>1. CASE i \in 1 .. (n - 1)
      <4>1. PICK j \in 1 .. (i - 1) : d \in levels[j]
        BY <1>1, <2>1, <2>5, <3>1 DEF LevelInv
      <4>2. j \in 1 .. (n - 1)
        BY <2>1, <3>1
      <4> QED
        BY <2>1, <4>1, <4>2
    <3>2. CASE i = n
      <4>1. t \in queue
        BY <2>1, <2>5, <3>2
      <4>2. PICK j \in 1 .. (n - 1) : d \in levels[j]
        BY <1>3, <2>1, <2>3, <2>5, <4>1
      <4> QED
        BY <2>1, <3>2, <4>2
    <3> QED
      BY <2>1, <3>1, <3>2
  <2> QED
    BY <1>1, <2>1, <2>4, <2>5 DEF LevelInv
<1>12. CountersExact'
  <2> SUFFICES /\ \A t \in needed : inDegree'[t] = Cardinality(Sort!sub[t] \ (P \cup queue))
               /\ queue' = {t \in needed \ (P \cup queue) : Sort!sub[t] \subseteq P \cup queue}
    BY <1>1, <1>4, SameCardinality DEF CountersExact, Sort!CountersExact
  <2> HIDE DEF P
  <2> QED
    BY <1>2, <1>6, <1>8
<1> QED
  BY <1>9, <1>10, <1>11, <1>12 DEF SortInv

LEMMA SortKeeps == SortInv /\ SortStep => SortInv'
<1> SUFFICES ASSUME SortInv, SortStep PROVE SortInv'
  OBVIOUS
<1>1. CASE Sort!FinishSort
  <2>1. UNCHANGED <<needs, work, needed, inDegree, queue, levels>> /\ phase = "sort" /\ phase' \in {"cycle", "planned"}
    BY <1>1 DEF Sort!FinishSort
  <2> QED
    BY <2>1 DEF SortInv, SortTypes, ListInv, LevelInv, CountersExact, Sort!CountersExact,
                Sort!Placed, Sort!sub
<1>2. CASE UNCHANGED Sort!vars
  BY <1>2 DEF SortInv, SortTypes, ListInv, LevelInv, CountersExact, Sort!CountersExact,
              Sort!Placed, Sort!sub
<1> QED
  BY <1>1, <1>2, CollectKeeps, StartKeeps, PlaceKeeps DEF SortStep, Sort!Next

--------------------------------------------------------------------------------
LEMMA Replaced ==
    ASSUME NEW S, NEW s \in Seq(S), s # <<>>, NEW b \in S
    PROVE  LET r == <<b>> \o Tail(s)
           IN  /\ r \in Seq(S) /\ Len(r) = Len(s) /\ Len(s) \in Nat /\ Len(s) >= 1
               /\ r[1] = b
               /\ \A i \in 2 .. Len(s) : r[i] = s[i]
<1> DEFINE r == <<b>> \o Tail(s)
<1>1. Len(s) \in Nat /\ Len(s) >= 1 /\ Tail(s) \in Seq(S) /\ Len(Tail(s)) = Len(s) - 1
  OBVIOUS
<1>2. \A i \in 1 .. (Len(s) - 1) : Tail(s)[i] = s[i + 1]
  OBVIOUS
<1>3. <<b>> \in Seq(S) /\ Len(<<b>>) = 1
  OBVIOUS
<1>4. r \in Seq(S) /\ Len(r) = Len(s) /\ r[1] = b
  BY <1>1, <1>3
<1>5. \A i \in 2 .. Len(s) : r[i] = Tail(s)[i - 1]
  BY <1>1, <1>3
<1>6. \A i \in 2 .. Len(s) : r[i] = s[i]
  BY <1>1, <1>2, <1>5
<1> QED
  BY <1>1, <1>4, <1>6

LEMMA Pushed ==
    ASSUME NEW S, NEW s \in Seq(S), NEW a \in S
    PROVE  LET r == <<a>> \o s
           IN  /\ r \in Seq(S) /\ Len(r) = Len(s) + 1 /\ r[1] = a
               /\ \A i \in 2 .. Len(r) : r[i] = s[i - 1]
OBVIOUS

LEMMA Popped ==
    ASSUME NEW S, NEW s \in Seq(S), s # <<>>
    PROVE  /\ Tail(s) \in Seq(S) /\ Len(Tail(s)) = Len(s) - 1 /\ Len(s) \in Nat /\ Len(s) >= 1
           /\ \A i \in 1 .. Len(Tail(s)) : Tail(s)[i] = s[i + 1]
           /\ Head(s) = s[1] /\ s[1] \in S
OBVIOUS

LEMMA CallAt ==
    ASSUME SearchTypes
    PROVE  /\ DOMAIN stack = 1 .. Len(stack) /\ Len(stack) \in Nat
           /\ \A i \in 1 .. Len(stack) : /\ stack[i] \in Calls /\ stack[i].node \in Node
                                         /\ stack[i].todo \subseteq Node
<1>1. stack \in Seq(Calls)
  BY DEF SearchTypes
<1>2. DOMAIN stack = 1 .. Len(stack) /\ Len(stack) \in Nat /\ \A i \in 1 .. Len(stack) : stack[i] \in Calls
  BY ONLY <1>1
<1> QED
  BY <1>2 DEF Calls

LEMMA SearchInit == Init => SearchInv
<1> SUFFICES ASSUME Init PROVE SearchInv
  OBVIOUS
<1>1. stack = <<>> /\ Len(stack) = 0 /\ stack \in Seq(Calls)
  BY DEF Init
<1> QED
  BY <1>1 DEF Init, SearchInv, SearchTypes, CallsInv, PathInv, LookedInv, BlackInv,
              Graphs, white, gray, black

(* The search takes up a white node.                                        *)
LEMMA RootKeeps ==
    ASSUME SearchInv, NEW t \in Node, VisitRoot(t)
    PROVE  SearchInv'
<1>1. /\ needs' = needs /\ stack' = <<Frame(t)>> /\ stack = <<>> /\ color[t] = white
      /\ color' = [color EXCEPT ![t] = gray]
  BY DEF VisitRoot
<1>2. Frame(t) \in Calls /\ Frame(t).node = t /\ Frame(t).todo = needs[t]
  BY DEF SearchInv, SearchTypes, Frame, Calls
<1>3. /\ stack' \in Seq(Calls)
      /\ Len(stack') = 1 /\ stack'[1] = Frame(t) /\ Len(stack) = 0
  BY <1>1, <1>2
<1>4. \A u \in Node : color'[u] = IF u = t THEN gray ELSE color[u]
  BY <1>1 DEF SearchInv, SearchTypes
<1>5. SearchTypes'
  BY <1>1, <1>3 DEF SearchInv, SearchTypes, gray
<1>6. CallsInv'
  BY <1>2, <1>3, <1>4 DEF SearchInv, CallsInv
<1>7. PathInv' /\ LookedInv'
  BY <1>1, <1>2, <1>3 DEF PathInv, LookedInv
<1>8. BlackInv'
  BY <1>1, <1>4 DEF SearchInv, SearchTypes, BlackInv, white, gray, black
<1> QED
  BY <1>5, <1>6, <1>7, <1>8 DEF SearchInv

(* The innermost call takes one dependency from its list.                   *)
LEMMA TopKeeps ==
    ASSUME SearchInv, stack # <<>>, NEW d \in Head(stack).todo,
           NEW r, r = <<[Head(stack) EXCEPT !.todo = @ \ {d}]>> \o Tail(stack)
    PROVE  /\ r \in Seq(Calls)
           /\ Len(r) = Len(stack) /\ Len(stack) \in Nat /\ Len(stack) >= 1
           /\ \A i \in 1 .. Len(r) : r[i].node = stack[i].node /\ r[i].node \in Node
           /\ r[1].todo = stack[1].todo \ {d}
           /\ \A i \in 2 .. Len(r) : r[i].todo = stack[i].todo
           /\ d \in Node /\ d \in needs[stack[1].node] /\ Head(stack) = stack[1]
<1>1. stack \in Seq(Calls)
  BY DEF SearchInv, SearchTypes
<1>2. Head(stack) = stack[1] /\ stack[1] \in Calls /\ 1 \in 1 .. Len(stack)
  BY ONLY <1>1, stack # <<>>
<1> DEFINE b == [Head(stack) EXCEPT !.todo = @ \ {d}]
<1>3. /\ b \in Calls
      /\ b.node = stack[1].node /\ b.todo = stack[1].todo \ {d}
  BY <1>2 DEF Calls
<1> HIDE DEF b
<1>4. /\ r \in Seq(Calls)
      /\ Len(r) = Len(stack) /\ Len(stack) \in Nat /\ Len(stack) >= 1
      /\ r[1] = b /\ \A i \in 2 .. Len(stack) : r[i] = stack[i]
  <2>1. r = <<b>> \o Tail(stack)
    BY DEF b
  <2> QED
    BY ONLY <1>1, <1>3, <2>1, stack # <<>>, Replaced
<1>5. \A i \in 1 .. Len(stack) : stack[i].node \in Node
  BY CallAt DEF SearchInv
<1>6. \A i \in 1 .. Len(stack) : i = 1 \/ i \in 2 .. Len(stack)
  BY <1>4
<1>7. d \in needs[stack[1].node]
  BY <1>2 DEF SearchInv, LookedInv
<1>8. d \in Node
  BY <1>2 DEF Calls
<1> QED
  BY <1>2, <1>3, <1>4, <1>5, <1>6, <1>7, <1>8

(* The dependency is finished: the call goes on without it.                 *)
LEMMA PassKeeps ==
    ASSUME SearchInv, stack # <<>>, NEW d \in Head(stack).todo, color[d] = black,
           stack' = <<[Head(stack) EXCEPT !.todo = @ \ {d}]>> \o Tail(stack),
           UNCHANGED <<needs, color>>
    PROVE  SearchInv'
<1>1. /\ stack' \in Seq(Calls)
      /\ Len(stack') = Len(stack) /\ Len(stack) \in Nat /\ Len(stack) >= 1
      /\ \A i \in 1 .. Len(stack) : stack'[i].node = stack[i].node /\ stack[i].node \in Node
      /\ stack'[1].todo = stack[1].todo \ {d}
      /\ \A i \in 2 .. Len(stack) : stack'[i].todo = stack[i].todo
  <2> DEFINE r == <<[Head(stack) EXCEPT !.todo = @ \ {d}]>> \o Tail(stack)
  <2>1. stack' = r
    OBVIOUS
  <2> HIDE DEF r
  <2>2. /\ r \in Seq(Calls)
        /\ Len(r) = Len(stack) /\ Len(stack) \in Nat /\ Len(stack) >= 1
        /\ \A i \in 1 .. Len(r) : r[i].node = stack[i].node /\ r[i].node \in Node
        /\ r[1].todo = stack[1].todo \ {d}
        /\ \A i \in 2 .. Len(r) : r[i].todo = stack[i].todo
    BY TopKeeps DEF r
  <2> QED
    BY <2>1, <2>2
<1>0. \A i \in 1 .. Len(stack) : i = 1 \/ i \in 2 .. Len(stack)
  BY <1>1
<1>2. SearchTypes'
  BY <1>1 DEF SearchInv, SearchTypes
<1>3. CallsInv'
  BY <1>1 DEF SearchInv, CallsInv, Calls
<1>4. PathInv'
  <2>1. \A i \in 1 .. (Len(stack) - 1) : i \in 1 .. Len(stack) /\ i + 1 \in 1 .. Len(stack)
    BY <1>1
  <2> QED
    BY <1>1, <2>1 DEF SearchInv, PathInv
<1>5. LookedInv'
  <2> SUFFICES ASSUME NEW i \in 1 .. Len(stack)
               PROVE  /\ stack'[i].todo \subseteq needs[stack[i].node]
                      /\ \A e \in needs[stack[i].node] \ stack'[i].todo :
                             color[e] = black \/ (i > 1 /\ e = stack'[i - 1].node)
    BY <1>1 DEF LookedInv
  <2>1. /\ stack[i].todo \subseteq needs[stack[i].node]
        /\ \A e \in needs[stack[i].node] \ stack[i].todo :
               color[e] = black \/ (i > 1 /\ e = stack[i - 1].node)
    BY DEF SearchInv, LookedInv
  <2>2. i > 1 => stack'[i - 1].node = stack[i - 1].node
    BY <1>1 DEF Calls
  <2>3. CASE i = 1
    BY <1>1, <2>1, <2>3 DEF Calls
  <2>4. CASE i \in 2 .. Len(stack)
    BY <1>1, <2>1, <2>2, <2>4
  <2> QED
    BY <1>0, <2>3, <2>4
<1>6. BlackInv'
  BY DEF SearchInv, BlackInv
<1> QED
  BY <1>2, <1>3, <1>4, <1>5, <1>6 DEF SearchInv

(* The dependency is white: it is visited by a call of its own.             *)
LEMMA VisitKeeps ==
    ASSUME SearchInv, stack # <<>>, NEW d \in Head(stack).todo, color[d] = white,
           stack' = <<Frame(d)>> \o (<<[Head(stack) EXCEPT !.todo = @ \ {d}]>> \o Tail(stack)),
           color' = [color EXCEPT ![d] = gray], UNCHANGED needs
    PROVE  SearchInv'
<1> DEFINE n == Len(stack)
<1>1. PICK r \in Seq(Calls) :
          /\ stack' = <<Frame(d)>> \o r
          /\ Len(r) = n /\ n \in Nat /\ n >= 1
          /\ \A i \in 1 .. n : r[i].node = stack[i].node /\ stack[i].node \in Node
          /\ r[1].todo = stack[1].todo \ {d}
          /\ \A i \in 2 .. n : r[i].todo = stack[i].todo
          /\ d \in Node /\ d \in needs[stack[1].node]
  <2> DEFINE q == <<[Head(stack) EXCEPT !.todo = @ \ {d}]>> \o Tail(stack)
  <2>1. stack' = <<Frame(d)>> \o q
    OBVIOUS
  <2> HIDE DEF q
  <2>2. /\ q \in Seq(Calls)
        /\ Len(q) = Len(stack) /\ Len(stack) \in Nat /\ Len(stack) >= 1
        /\ \A i \in 1 .. Len(q) : q[i].node = stack[i].node /\ q[i].node \in Node
        /\ q[1].todo = stack[1].todo \ {d}
        /\ \A i \in 2 .. Len(q) : q[i].todo = stack[i].todo
        /\ d \in Node /\ d \in needs[stack[1].node]
    BY TopKeeps DEF q
  <2> QED
    BY <2>1, <2>2
<1>2. Frame(d) \in Calls /\ Frame(d).node = d /\ Frame(d).todo = needs[d]
  BY <1>1 DEF SearchInv, SearchTypes, Frame, Calls
<1>3. /\ stack' \in Seq(Calls)
      /\ Len(stack') = n + 1 /\ stack'[1] = Frame(d)
      /\ \A i \in 2 .. (n + 1) : stack'[i] = r[i - 1]
  BY ONLY <1>1, <1>2, Pushed
<1>4. \A u \in Node : color'[u] = IF u = d THEN gray ELSE color[u]
  BY <1>1 DEF SearchInv, SearchTypes
<1> HIDE DEF n
<1>5. \A i \in 1 .. (n + 1) : /\ i = 1 \/ i \in 2 .. (n + 1)
                             /\ i # 1 => i - 1 \in 1 .. n
  BY <1>1
<1>6. \A i \in 2 .. (n + 1) : stack'[i].node = stack[i - 1].node /\ i - 1 \in 1 .. n
  BY <1>1, <1>3, <1>5 DEF Calls
<1>7. \A i \in 1 .. n : i + 1 \in 2 .. (n + 1) /\ i + 1 \in 1 .. (n + 1) /\ stack'[i + 1].node = stack[i].node
  BY <1>1, <1>3 DEF Calls
<1>8. \A i \in 1 .. n : stack[i].node # d /\ color[stack[i].node] = gray
  BY <1>1 DEF SearchInv, CallsInv, white, gray, n
<1>9. SearchTypes'
  BY <1>1, <1>3 DEF SearchInv, SearchTypes, gray
<1>10. CallsInv'
  <2>1. ASSUME NEW i \in 1 .. (n + 1), NEW j \in 1 .. (n + 1), stack'[i].node = stack'[j].node
        PROVE  i = j
    <3>1. CASE i = 1
      BY <1>2, <1>3, <1>5, <1>6, <1>8, <2>1, <3>1 DEF Calls
    <3>2. CASE j = 1
      BY <1>2, <1>3, <1>5, <1>6, <1>8, <2>1, <3>2 DEF Calls
    <3>3. CASE i # 1 /\ j # 1
      <4>1. i \in 2 .. (n + 1) /\ j \in 2 .. (n + 1)
        BY <1>5, <3>3
      <4>2. i - 1 \in 1 .. n /\ j - 1 \in 1 .. n /\ stack[i - 1].node = stack[j - 1].node
        BY <1>6, <2>1, <4>1
      <4>3. i - 1 = j - 1
        BY <4>2 DEF SearchInv, CallsInv, n
      <4> QED
        BY <1>1, <4>1, <4>3
    <3> QED
      BY <3>1, <3>2, <3>3
  <2>2. ASSUME NEW i \in 1 .. (n + 1) PROVE color'[stack'[i].node] = gray
    <3>1. CASE i = 1
      BY <1>1, <1>2, <1>3, <1>4, <3>1
    <3>2. CASE i # 1
      <4>1. i \in 2 .. (n + 1)
        BY <1>5, <3>2
      <4>2. stack'[i].node = stack[i - 1].node /\ i - 1 \in 1 .. n
        BY <1>6, <4>1
      <4> QED
        BY <1>1, <1>4, <1>8, <4>2
    <3> QED
      BY <3>1, <3>2
  <2>3. ASSUME NEW u \in Node, color'[u] = gray PROVE \E i \in 1 .. (n + 1) : stack'[i].node = u
    <3>1. CASE u = d
      BY <1>1, <1>2, <1>3, <3>1
    <3>2. CASE u # d
      <4>1. PICK i \in 1 .. n : stack[i].node = u
        BY <1>4, <2>3, <3>2 DEF SearchInv, CallsInv, n
      <4> QED
        BY <1>7, <4>1
    <3> QED
      BY <3>1, <3>2
  <2> QED
    BY <1>3, <2>1, <2>2, <2>3 DEF CallsInv
<1>11. PathInv'
  <2> SUFFICES ASSUME NEW i \in 1 .. n PROVE stack'[i].node \in needs[stack'[i + 1].node]
    <3>1. (Len(stack) - 1)' = n
      BY <1>1, <1>3
    <3> QED
      BY <3>1 DEF PathInv
  <2>1. CASE i = 1
    BY <1>1, <1>2, <1>3, <1>7, <2>1
  <2>2. CASE i # 1
    <3>1. i - 1 \in 1 .. (n - 1) /\ (i - 1) + 1 = i
      BY <1>1, <2>2
    <3>2. stack[i - 1].node \in needs[stack[(i - 1) + 1].node]
      BY <3>1 DEF SearchInv, PathInv, n
    <3>3. stack'[i].node = stack[i - 1].node
      <4>1. i \in 2 .. (n + 1)
        BY <1>1, <2>2
      <4> QED
        BY <1>6, <4>1
    <3> QED
      BY <1>7, <3>1, <3>2, <3>3
  <2> QED
    BY <2>1, <2>2
<1>12. LookedInv'
  <2> SUFFICES ASSUME NEW i \in 1 .. (n + 1)
               PROVE  /\ stack'[i].todo \subseteq needs[stack'[i].node]
                      /\ \A e \in needs[stack'[i].node] \ stack'[i].todo :
                             color'[e] = black \/ (i > 1 /\ e = stack'[i - 1].node)
    BY <1>3 DEF LookedInv
  <2>1. CASE i = 1
    BY <1>2, <1>3, <2>1
  <2>2. CASE i # 1
    <3> DEFINE j == i - 1
    <3>1. j \in 1 .. n /\ i > 1 /\ stack'[i].node = stack[j].node /\ stack'[i] = r[j] /\ (j # 1 => j \in 2 .. n)
      <4>1. i \in 2 .. (n + 1) /\ i > 1
        BY <1>1, <1>5, <2>2
      <4>2. stack'[i].node = stack[i - 1].node /\ i - 1 \in 1 .. n /\ stack'[i] = r[i - 1]
        BY <1>3, <1>6, <4>1
      <4>3. i - 1 # 1 => i - 1 \in 2 .. n
        BY <1>1, <4>2
      <4> QED
        BY <4>1, <4>2, <4>3
    <3>2. /\ stack[j].todo \subseteq needs[stack[j].node]
          /\ \A e \in needs[stack[j].node] \ stack[j].todo :
                 color[e] = black \/ (j > 1 /\ e = stack[j - 1].node)
          /\ needs[stack[j].node] \subseteq Node
      BY <1>1, <3>1 DEF SearchInv, LookedInv, SearchTypes, n
    <3>3. \A e \in Node : color[e] = black => color'[e] = black
      BY <1>4 DEF white, black
    <3>4. CASE j = 1
      <4>1. stack'[i].todo = stack[j].todo \ {d} /\ stack'[i - 1].node = d /\ ~(j > 1)
        BY <1>1, <1>2, <1>3, <3>1, <3>4
      <4>2. \A e \in needs[stack[j].node] \ stack[j].todo : color'[e] = black
        BY <3>2, <3>3, <4>1
      <4>3. /\ stack'[i].todo \subseteq needs[stack[j].node]
            /\ \A e \in needs[stack[j].node] \ stack'[i].todo :
                   color'[e] = black \/ e = stack'[i - 1].node
        BY <3>2, <4>1, <4>2
      <4> QED
        BY <3>1, <4>3
    <3>5. CASE j # 1
      <4>1. stack'[i].todo = stack[j].todo /\ stack'[i - 1].node = stack[j - 1].node
        <5>1. r[j].todo = stack[j].todo
          BY <1>1, <3>1, <3>5
        <5>2. i - 1 \in 2 .. (n + 1) /\ (i - 1) - 1 = j - 1
          BY <1>1, <3>1, <3>5
        <5> QED
          BY <1>6, <3>1, <5>1, <5>2
      <4> HIDE DEF j
      <4> QED
        BY <3>1, <3>2, <3>3, <4>1
    <3> QED
      BY <3>4, <3>5
  <2> QED
    BY <2>1, <2>2
<1>13. BlackInv'
  <2>1. \A e \in Node : color'[e] = black <=> color[e] = black
    BY <1>4 DEF white, gray, black
  <2> QED
    BY <2>1 DEF SearchInv, SearchTypes, BlackInv
<1> QED
  BY <1>9, <1>10, <1>11, <1>12, <1>13 DEF SearchInv

(* The innermost call has looked at everything: its node is finished.       *)
LEMMA FinishKeeps ==
    ASSUME SearchInv, Finish
    PROVE  SearchInv'
<1> DEFINE n == Len(stack)
<1>1. /\ stack # <<>> /\ needs' = needs /\ stack' = Tail(stack)
      /\ Head(stack).todo = {} /\ color' = [color EXCEPT ![Head(stack).node] = black]
      /\ stack \in Seq(Calls)
  BY DEF Finish, SearchInv, SearchTypes
<1>2. /\ stack' \in Seq(Calls)
      /\ Len(stack') = n - 1 /\ n \in Nat /\ n >= 1 /\ Head(stack) = stack[1]
      /\ \A i \in 1 .. (n - 1) : stack'[i] = stack[i + 1]
  BY <1>1, Popped
<1>3. \A i \in 1 .. n : stack[i].node \in Node
  BY CallAt DEF SearchInv
<1> DEFINE x == stack[1].node
<1>4. x \in Node /\ color' = [color EXCEPT ![x] = black] /\ stack[1].todo = {}
  BY <1>1, <1>2, <1>3
<1>5. \A u \in Node : color'[u] = IF u = x THEN black ELSE color[u]
  BY <1>4 DEF SearchInv, SearchTypes
<1>6. \A d \in needs[x] : color[d] = black
  BY <1>2, <1>4 DEF SearchInv, LookedInv
<1>7. \A i \in 1 .. n : color[stack[i].node] = gray /\ (stack[i].node = x => i = 1)
  BY <1>2 DEF SearchInv, CallsInv
<1>8. SearchTypes'
  BY <1>1, <1>2, <1>4 DEF SearchInv, SearchTypes, black
<1>9. \A i \in 1 .. (n - 1) : i \in 1 .. n /\ i + 1 \in 1 .. n /\ i + 1 # 1 /\ i + 1 > 1
  BY <1>2
<1>10. CallsInv'
  <2>1. ASSUME NEW i \in 1 .. (n - 1), NEW j \in 1 .. (n - 1), stack'[i].node = stack'[j].node
        PROVE  i = j
    <3>1. stack[i + 1].node = stack[j + 1].node /\ i + 1 \in 1 .. n /\ j + 1 \in 1 .. n
      BY <1>2, <1>9, <2>1
    <3>2. i + 1 = j + 1
      BY <3>1 DEF SearchInv, CallsInv
    <3> QED
      BY <1>2, <3>2
  <2>2. ASSUME NEW i \in 1 .. (n - 1) PROVE color'[stack'[i].node] = gray
    <3>1. stack'[i] = stack[i + 1] /\ i + 1 \in 1 .. n /\ i + 1 # 1
      BY <1>2, <1>9
    <3> QED
      BY <1>3, <1>5, <1>7, <3>1
  <2>3. ASSUME NEW u \in Node, color'[u] = gray PROVE \E i \in 1 .. (n - 1) : stack'[i].node = u
    <3>1. u # x /\ color[u] = gray
      BY <1>5, <2>3 DEF gray, black
    <3>2. PICK i \in 1 .. n : stack[i].node = u
      BY <3>1 DEF SearchInv, CallsInv
    <3>3. i # 1
      BY <3>1, <3>2
    <3>4. i - 1 \in 1 .. (n - 1) /\ (i - 1) + 1 = i
      BY <1>2, <3>3
    <3> QED
      BY <1>2, <3>2, <3>4
  <2> QED
    BY <1>2, <2>1, <2>2, <2>3 DEF CallsInv
<1>11. PathInv'
  <2> SUFFICES ASSUME NEW i \in 1 .. ((n - 1) - 1) PROVE stack'[i].node \in needs[stack'[i + 1].node]
    BY <1>1, <1>2 DEF PathInv
  <2>1. i + 1 \in 1 .. (n - 1) /\ i \in 1 .. (n - 1)
    BY <1>2
  <2>2. stack[i + 1].node \in needs[stack[(i + 1) + 1].node]
    BY <2>1 DEF SearchInv, PathInv
  <2>3. stack'[i] = stack[i + 1] /\ stack'[i + 1] = stack[(i + 1) + 1]
    BY <1>2, <2>1
  <2> QED
    BY <2>2, <2>3
<1>12. LookedInv'
  <2> SUFFICES ASSUME NEW i \in 1 .. (n - 1)
               PROVE  /\ stack'[i].todo \subseteq needs[stack'[i].node]
                      /\ \A e \in needs[stack'[i].node] \ stack'[i].todo :
                             color'[e] = black \/ (i > 1 /\ e = stack'[i - 1].node)
    BY <1>1, <1>2 DEF LookedInv
  <2> DEFINE j == i + 1
  <2>1. j \in 1 .. n /\ j > 1 /\ stack'[i] = stack[j] /\ j - 1 = i
    BY <1>2, <1>9
  <2>2. /\ stack[j].todo \subseteq needs[stack[j].node]
        /\ \A e \in needs[stack[j].node] \ stack[j].todo :
               color[e] = black \/ (j > 1 /\ e = stack[j - 1].node)
        /\ needs[stack[j].node] \subseteq Node
    BY <1>3, <2>1 DEF SearchInv, LookedInv, SearchTypes
  <2>3. \A e \in Node : color[e] = black => color'[e] = black
    BY <1>5
  <2>4. color'[x] = black
    BY <1>4, <1>5
  <2>5. CASE i = 1
    <3>1. stack[j - 1].node = x
      BY <2>1, <2>5
    <3> HIDE DEF j, x
    <3> QED
      BY <2>1, <2>2, <2>3, <2>4, <3>1
  <2>6. CASE i # 1
    <3>1. i > 1 /\ i - 1 \in 1 .. (n - 1) /\ (i - 1) + 1 = i
      BY <1>2, <2>6
    <3>2. stack'[i - 1] = stack[j - 1]
      BY <1>2, <2>1, <3>1
    <3> HIDE DEF j, x
    <3> QED
      BY <2>1, <2>2, <2>3, <3>1, <3>2
  <2> QED
    BY <2>5, <2>6
<1>13. BlackInv'
  BY <1>1, <1>5, <1>6 DEF SearchInv, SearchTypes, BlackInv
<1> QED
  BY <1>8, <1>10, <1>11, <1>12, <1>13 DEF SearchInv

LEMMA SearchKeeps == SearchInv /\ [Next]_vars => SearchInv'
<1> SUFFICES ASSUME SearchInv, [Next]_vars PROVE SearchInv'
  OBVIOUS
<1>1. ASSUME NEW d \in Node, VisitDependency(d) PROVE SearchInv'
  <2>1. stack # <<>> /\ d \in Head(stack).todo /\ needs' = needs
    BY <1>1 DEF VisitDependency
  <2>2. CASE color[d] = gray /\ UNCHANGED <<color, stack>>
    BY <2>1, <2>2 DEF SearchInv, SearchTypes, CallsInv, PathInv, LookedInv, BlackInv
  <2>3. CASE /\ color[d] = white /\ color' = [color EXCEPT ![d] = gray]
             /\ stack' = <<Frame(d)>> \o (<<[Head(stack) EXCEPT !.todo = @ \ {d}]>> \o Tail(stack))
    BY <2>1, <2>3, VisitKeeps
  <2>4. CASE /\ color[d] = black /\ UNCHANGED color
             /\ stack' = <<[Head(stack) EXCEPT !.todo = @ \ {d}]>> \o Tail(stack)
    BY <2>1, <2>4, PassKeeps
  <2> QED
    BY <1>1, <2>2, <2>3, <2>4 DEF VisitDependency
<1>2. CASE UNCHANGED vars
  BY <1>2 DEF SearchInv, SearchTypes, CallsInv, PathInv, LookedInv, BlackInv
<1> QED
  BY <1>1, <1>2, RootKeeps, FinishKeeps DEF Next

--------------------------------------------------------------------------------
(* The invariants of the search and of the sort hold together.              *)
THEOREM Invariance == PlanSpec => [](SearchInv /\ SortInv)
<1>1. PlanInit => SearchInv /\ SortInv
  BY SearchInit, SortInit DEF PlanInit
<1>2. SearchInv /\ SortInv /\ [Detect \/ PlanTargets]_<<vars, sortvars>>
          => (SearchInv /\ SortInv)'
  <2> SUFFICES ASSUME SearchInv, SortInv, [Detect \/ PlanTargets]_<<vars, sortvars>>
               PROVE  SearchInv' /\ SortInv'
    OBVIOUS
  <2>1. CASE Detect
    <3>1. [Next]_vars /\ needs' = needs
      BY <2>1 DEF Detect, Next, VisitRoot, VisitDependency, Finish
    <3>2. UNCHANGED Sort!vars
      BY <2>1, <3>1 DEF Detect
    <3> QED
      BY <3>1, <3>2, SearchKeeps, SortKeeps DEF SortStep
  <2>2. CASE PlanTargets
    <3>1. Sort!Next /\ needs' = needs
      BY <2>2 DEF PlanTargets, Sort!Next, Sort!Collect, Sort!StartSort, Sort!PlaceLevel,
                  Sort!FinishSort
    <3>2. UNCHANGED vars
      BY <2>2, <3>1 DEF PlanTargets
    <3> QED
      BY <3>1, <3>2, SearchKeeps, SortKeeps DEF SortStep
  <2>3. CASE UNCHANGED <<vars, sortvars>>
    BY <2>3, SearchKeeps, SortKeeps DEF SortStep
  <2> QED
    BY <2>1, <2>2, <2>3
<1> QED
  BY <1>1, <1>2, PTL DEF PlanSpec

(* Gray means "on the current path": the gray nodes are the active calls,   *)
(* each a dependency of the one below, and a finished node depends on       *)
(* finished nodes only (cycle.go 31-36).                                    *)
THEOREM GrayIsPath == PlanSpec => []GrayIsCurrentPath
<1>1. SearchInv => GrayIsCurrentPath
  <2> SUFFICES ASSUME SearchInv PROVE GrayIsCurrentPath
    OBVIOUS
  <2>1. DOMAIN stack = 1 .. Len(stack) /\ \A i \in 1 .. Len(stack) : stack[i].node \in Node
    BY CallAt DEF SearchInv
  <2> QED
    BY <2>1 DEF SearchInv, CallsInv, PathInv, BlackInv, GrayIsCurrentPath
<1> QED
  BY <1>1, Invariance, PTL

(* The counter of an unplaced task is the number of its dependencies that   *)
(* are not placed, and the queue is what has become ready: Kahn's loop      *)
(* neither loses a task nor queues one twice (toposort.go 52-101).          *)
THEOREM Counts == PlanSpec => []CountersExact
<1>1. SortInv => CountersExact
  BY DEF SortInv
<1> QED
  BY <1>1, Invariance, PTL

(* The levels are a valid plan, whatever the graph and the targets: what    *)
(* Scheduler assumes of Plans, and lets a level run in parallel             *)
(* (toposort.go 5-11).                                                      *)
THEOREM LevelsValid == PlanSpec => []LevelsRespectNeeds
<1>1. SortInv => LevelsRespectNeeds
  BY DEF SortInv, SortTypes, LevelInv, LevelsRespectNeeds, Sort!LevelsRespectNeeds,
         Sort!ValidPlan
<1> QED
  BY <1>1, Invariance, PTL

--------------------------------------------------------------------------------
(* The search, continued: cycles and the path that shows one.               *)

(* The operators of Dag are the same ones in TopoSort.                      *)
LEMMA SameOperators ==
    ASSUME NEW nd, NEW S
    PROVE  /\ Sort!NeededBy(nd, S) = NeededBy(nd, S)
           /\ Sort!LevelsOf(nd) = LevelsOf(nd)
           /\ Sort!Subgraph(nd, S) = Subgraph(nd, S)
<1>1. Sort!NeededBy(nd, S) = NeededBy(nd, S)
  BY SameCardinality, Zenon DEF NeededBy, Sort!NeededBy
<1>2. Sort!LevelsOf(nd) = LevelsOf(nd)
  BY SameCardinality, Zenon DEF LevelsOf, Sort!LevelsOf
<1>3. Sort!Subgraph(nd, S) = Subgraph(nd, S)
  BY DEF Subgraph, Sort!Subgraph
<1> QED
  BY <1>1, <1>2, <1>3
LEMMA SameCyclic ==
    ASSUME NEW nd
    PROVE  Sort!Cyclic(nd) = Cyclic(nd)
  BY SameOperators, Zenon DEF Cyclic, Sort!Cyclic, OnCycle, Sort!OnCycle

(* The search: a finished node is on no cycle, and what it returned is one. *)
CycleInv ==
    /\ \A t \in Node : color[t] = black => ~OnCycle(needs, t)
    /\ found \in BOOLEAN
    /\ found => Cyclic(needs)

(* The parent of a node that is being visited is the call below it; the     *)
(* root has none, nor has a node that was never visited.                    *)
ParentInv ==
    /\ parent \in [Node -> Node \cup {NoNode}]
    /\ \A t \in Node : color[t] = white => parent[t] = NoNode
    /\ \A i \in 1 .. Len(stack) :
           parent[stack[i].node] = IF i = Len(stack) THEN NoNode ELSE stack[i + 1].node

(* The tasks in the first i levels.                                         *)
Before(i) == UNION {levels[j] : j \in 1 .. i}

(* The worklist never leaves what the targets need.                         *)
NeededInv ==
    /\ targets \subseteq Node
    /\ targets \subseteq needed \cup work
    /\ needed \cup work \subseteq NeededBy(needs, targets)

(* A level is what the levels before it make ready, and is not empty.       *)
EarlyInv ==
    \A i \in 1 .. Len(levels) :
        /\ levels[i] # {}
        /\ levels[i] = {t \in needed \ Before(i - 1) : needs[t] \subseteq Before(i - 1)}

(* A node whose dependencies are finished is on no cycle: the finished      *)
(* nodes are closed, and it is not yet one of them.                         *)
LEMMA FinishedOnNoCycle ==
    ASSUME SearchInv, NEW x \in Node, color[x] = gray, \A d \in needs[x] : color[d] = black
    PROVE  ~OnCycle(needs, x)
<1> DEFINE B == {t \in Node : color[t] = black}
<1>1. B \in SUBSET Node /\ x \notin B
  BY DEF gray, black
<1>2. needs \in [Node -> SUBSET Node] /\ needs[x] \in SUBSET Node /\ needs[x] \subseteq B
  BY DEF SearchInv, SearchTypes
<1>3. Closed(needs, B)
  BY <1>2 DEF SearchInv, BlackInv, Closed
<1> HIDE DEF B
<1>4. NeededBy(needs, needs[x]) \subseteq B
  BY <1>1, <1>2, <1>3, NeededLeast, NodeAssumption
<1> QED
  BY <1>1, <1>4 DEF OnCycle

(* From a call on the stack the calls above it are needed.                  *)
LEMMA CallsAboveNeeded ==
    ASSUME SearchInv, NEW k \in 1 .. Len(stack), NEW i \in 1 .. (k - 1)
    PROVE  stack[i].node \in NeededBy(needs, needs[stack[k].node])
<1> DEFINE S == needs[stack[k].node]
           T == {n \in Nat : k - 1 - n >= 1 => stack[k - 1 - n].node \in NeededBy(needs, S)}
<1>1. Len(stack) \in Nat /\ \A j \in 1 .. Len(stack) : stack[j].node \in Node
  BY CallAt DEF SearchInv
<1>2. needs \in [Node -> SUBSET Node] /\ S \in SUBSET Node
  BY <1>1 DEF SearchInv, SearchTypes
<1>3. /\ S \subseteq NeededBy(needs, S) /\ Closed(needs, NeededBy(needs, S))
      /\ NeededBy(needs, S) \subseteq Node
  <2> HIDE DEF S
  <2> QED
    BY <1>2, NeededLeast, NodeAssumption
<1>4. 0 \in T
  <2> SUFFICES ASSUME k - 1 >= 1 PROVE stack[k - 1].node \in NeededBy(needs, S)
    <3>1. k - 1 - 0 = k - 1
      BY <1>1
    <3> QED
      BY <3>1
  <2>1. k - 1 \in 1 .. (Len(stack) - 1) /\ (k - 1) + 1 = k
    BY <1>1
  <2>2. stack[k - 1].node \in needs[stack[(k - 1) + 1].node]
    BY <2>1 DEF SearchInv, PathInv
  <2> QED
    BY <1>3, <2>1, <2>2
<1>5. ASSUME NEW n \in Nat, n \in T PROVE n + 1 \in T
  <2> DEFINE j == k - 1 - (n + 1)
  <2> SUFFICES ASSUME j >= 1 PROVE stack[j].node \in NeededBy(needs, S)
    OBVIOUS
  <2>1. j \in 1 .. (Len(stack) - 1) /\ j + 1 = k - 1 - n /\ j + 1 >= 1
    BY <1>1
  <2>2. stack[j].node \in needs[stack[j + 1].node]
    BY <2>1 DEF SearchInv, PathInv
  <2>3. stack[j + 1].node \in NeededBy(needs, S)
    BY <1>5, <2>1
  <2> HIDE DEF S, j
  <2> QED
    BY <1>3, <2>2, <2>3 DEF Closed
<1>6. \A n \in Nat : n \in T
  <2> HIDE DEF T
  <2> QED
    BY <1>4, <1>5, SetInduction
<1>7. k - 1 - i \in Nat /\ k - 1 - (k - 1 - i) = i
  BY <1>1
<1>8. k - 1 - i \in T
  BY <1>6, <1>7
<1> QED
  BY <1>7, <1>8

(* An edge from the innermost call to a gray node closes a cycle.           *)
LEMMA GrayClosesCycle ==
    ASSUME SearchInv, stack # <<>>, NEW d \in Head(stack).todo, color[d] = gray
    PROVE  Cyclic(needs)
<1>1. /\ Len(stack) \in Nat /\ Len(stack) >= 1 /\ d \in Node
      /\ d \in needs[stack[1].node] /\ stack[1].node \in Node
  <2>1. PICK r : r = <<[Head(stack) EXCEPT !.todo = @ \ {d}]>> \o Tail(stack)
    OBVIOUS
  <2>2. /\ Len(stack) \in Nat /\ Len(stack) >= 1
        /\ d \in Node /\ d \in needs[stack[1].node]
    BY <2>1, TopKeeps
  <2>3. \A j \in 1 .. Len(stack) : stack[j].node \in Node
    BY CallAt DEF SearchInv
  <2> QED
    BY <2>2, <2>3
<1>2. PICK k \in 1 .. Len(stack) : stack[k].node = d
  BY <1>1 DEF SearchInv, CallsInv
<1>3. needs \in [Node -> SUBSET Node] /\ needs[d] \in SUBSET Node
  BY <1>1 DEF SearchInv, SearchTypes
<1>4. needs[d] \subseteq NeededBy(needs, needs[d]) /\ Closed(needs, NeededBy(needs, needs[d]))
  BY <1>3, NeededLeast, NodeAssumption
<1>5. d \in NeededBy(needs, needs[d])
  <2>1. CASE k = 1
    BY <1>1, <1>2, <1>4, <2>1
  <2>2. CASE k # 1
    <3>1. 1 \in 1 .. (k - 1)
      BY <1>1, <2>2
    <3>2. stack[1].node \in NeededBy(needs, needs[d])
      BY <1>2, <3>1, CallsAboveNeeded
    <3> QED
      BY <1>1, <1>4, <3>2 DEF Closed
  <2> QED
    BY <2>1, <2>2
<1> QED
  BY <1>1, <1>3, <1>5 DEF Cyclic, OnCycle

(* The search keeps it: what is finished is on no cycle, what it returns is.*)
LEMMA CycleKeeps ==
    ASSUME SearchInv, CycleInv, [Next]_vars
    PROVE  CycleInv'
<1>1. CASE \E t \in Node : VisitRoot(t)
  <2>1. PICK t \in Node : VisitRoot(t)
    BY <1>1
  <2>2. /\ needs' = needs /\ found' = found
        /\ \A u \in Node : color'[u] = black => color[u] = black
    BY <2>1 DEF VisitRoot, SearchInv, SearchTypes, gray, black
  <2> QED
    BY <2>2 DEF CycleInv
<1>2. CASE \E t \in Node : VisitDependency(t)
  <2>1. PICK d \in Node : VisitDependency(d)
    BY <1>2
  <2>2. CASE color[d] = gray /\ found' = TRUE /\ UNCHANGED <<color, needs>>
    <3>1. Cyclic(needs)
      BY <2>1, <2>2, GrayClosesCycle DEF VisitDependency
    <3> QED
      BY <2>2, <3>1 DEF CycleInv
  <2>3. CASE color' = [color EXCEPT ![d] = gray] /\ UNCHANGED <<found, needs>>
    <3>1. \A u \in Node : color'[u] = black => color[u] = black
      BY <2>3 DEF SearchInv, SearchTypes, gray, black
    <3> QED
      BY <2>3, <3>1 DEF CycleInv
  <2>4. CASE UNCHANGED <<color, found, needs>>
    BY <2>4 DEF CycleInv
  <2> QED
    BY <2>1, <2>2, <2>3, <2>4 DEF VisitDependency
<1>3. CASE Finish
  <2>1. /\ stack # <<>> /\ needs' = needs /\ found' = found
        /\ Head(stack).todo = {} /\ color' = [color EXCEPT ![Head(stack).node] = black]
        /\ stack \in Seq(Calls)
    BY <1>3 DEF Finish, SearchInv, SearchTypes
  <2>2. Head(stack) = stack[1] /\ 1 \in 1 .. Len(stack)
    BY ONLY <2>1
  <2> DEFINE x == stack[1].node
  <2>3. x \in Node /\ color[x] = gray
    BY <2>2, CallAt DEF SearchInv, CallsInv
  <2>4. \A d \in needs[x] : color[d] = black
    BY <2>1, <2>2 DEF SearchInv, LookedInv
  <2>5. color' = [color EXCEPT ![x] = black]
    BY <2>1, <2>2
  <2> HIDE DEF x
  <2>6. ~OnCycle(needs, x)
    BY <2>3, <2>4, FinishedOnNoCycle
  <2>7. \A u \in Node : color'[u] = black => color[u] = black \/ u = x
    BY <2>5 DEF SearchInv, SearchTypes
  <2> QED
    BY <2>1, <2>6, <2>7 DEF CycleInv
<1>4. CASE UNCHANGED vars
  BY <1>4 DEF CycleInv
<1> QED
  BY <1>1, <1>2, <1>3, <1>4 DEF Next

(* When the search returns, it has a cycle exactly if there is one.         *)
LEMMA ReturnedExact ==
    ASSUME SearchInv, CycleInv
    PROVE  DetectsExactlyCycles
<1> SUFFICES ASSUME Returned, ~found PROVE ~Cyclic(needs)
  BY DEF DetectsExactlyCycles, CycleInv
<1>1. stack = <<>> /\ \A t \in Node : color[t] # white
  BY DEF Returned
<1>2. \A t \in Node : color[t] = black
  BY <1>1 DEF SearchInv, SearchTypes, CallsInv
<1>3. DOMAIN needs = Node
  BY DEF SearchInv, SearchTypes
<1> QED
  BY <1>2, <1>3 DEF CycleInv, Cyclic

(* The nodes of the calls after the innermost one looked at d, without and  *)
(* with a call for d.                                                       *)
LEMMA CallNodes ==
    ASSUME SearchInv, stack # <<>>, NEW d \in Head(stack).todo
    PROVE  LET r == <<[Head(stack) EXCEPT !.todo = @ \ {d}]>> \o Tail(stack)
               s == <<Frame(d)>> \o r
           IN  /\ d \in Node /\ d \in needs[stack[1].node] /\ Head(stack) = stack[1]
               /\ Len(stack) \in Nat /\ Len(stack) >= 1
               /\ Len(r) = Len(stack)
               /\ \A i \in 1 .. Len(stack) : r[i].node = stack[i].node /\ stack[i].node \in Node
               /\ Len(s) = Len(stack) + 1 /\ s[1].node = d
               /\ \A i \in 1 .. Len(stack) : s[i + 1].node = stack[i].node
<1> DEFINE r == <<[Head(stack) EXCEPT !.todo = @ \ {d}]>> \o Tail(stack)
           s == <<Frame(d)>> \o r
<1> HIDE DEF r, s
<1>1. /\ r \in Seq(Calls)
      /\ Len(r) = Len(stack) /\ Len(stack) \in Nat /\ Len(stack) >= 1
      /\ \A i \in 1 .. Len(r) : r[i].node = stack[i].node /\ r[i].node \in Node
      /\ d \in Node /\ d \in needs[stack[1].node] /\ Head(stack) = stack[1]
  BY TopKeeps DEF r
<1>2. Frame(d) \in Calls /\ Frame(d).node = d
  BY <1>1 DEF SearchInv, SearchTypes, Frame, Calls
<1>3. /\ Len(s) = Len(r) + 1 /\ s[1] = Frame(d)
      /\ \A i \in 2 .. Len(s) : s[i] = r[i - 1]
  BY ONLY <1>1, <1>2, Pushed DEF s
<1>4. ASSUME NEW i \in 1 .. Len(stack) PROVE s[i + 1].node = stack[i].node
  <2>1. i + 1 \in 2 .. Len(s) /\ (i + 1) - 1 = i
    BY <1>1, <1>3
  <2>2. s[i + 1] = r[i]
    BY <1>3, <2>1
  <2> QED
    BY <1>1, <2>2
<1> QED
  BY <1>1, <1>2, <1>3, <1>4 DEF r, s

(* The search sets a parent once, when it goes down to a node.              *)
LEMMA ParentKeeps ==
    ASSUME SearchInv, ParentInv, [Next]_vars
    PROVE  ParentInv'
<1>0. /\ Len(stack) \in Nat /\ \A i \in 1 .. Len(stack) : stack[i].node \in Node
      /\ color \in [Node -> {white, gray, black}] /\ stack \in Seq(Calls)
  BY CallAt DEF SearchInv, SearchTypes
<1>1. ASSUME NEW t \in Node, VisitRoot(t) PROVE ParentInv'
  <2>1. /\ stack' = <<Frame(t)>> /\ parent' = parent /\ color' = [color EXCEPT ![t] = gray]
        /\ parent[t] = NoNode
    BY <1>1 DEF VisitRoot, ParentInv
  <2>2. Len(stack') = 1 /\ stack'[1].node = t
    BY <2>1 DEF Frame
  <2>3. \A u \in Node : color'[u] = white => color[u] = white
    BY <1>0, <2>1 DEF white, gray
  <2>4. \A i \in 1 .. Len(stack') : i = 1 /\ i = Len(stack')
    BY <2>2
  <2> QED
    BY <2>1, <2>2, <2>3, <2>4 DEF ParentInv
<1>2. ASSUME NEW d \in Node, VisitDependency(d) PROVE ParentInv'
  <2>1. stack # <<>> /\ d \in Head(stack).todo
    BY <1>2 DEF VisitDependency
  <2> DEFINE r == <<[Head(stack) EXCEPT !.todo = @ \ {d}]>> \o Tail(stack)
             s == <<Frame(d)>> \o r
  <2> HIDE DEF r, s
  <2>4. /\ Head(stack) = stack[1] /\ Len(stack) \in Nat /\ Len(stack) >= 1
        /\ Len(r) = Len(stack) /\ \A i \in 1 .. Len(stack) : r[i].node = stack[i].node
        /\ Len(s) = Len(stack) + 1 /\ s[1].node = d
        /\ \A i \in 1 .. Len(stack) : s[i + 1].node = stack[i].node
    BY <2>1, CallNodes DEF r, s
  <2>5. CASE UNCHANGED <<color, parent, stack>>
    BY <2>5 DEF ParentInv
  <2>6. CASE stack' = r /\ UNCHANGED <<color, parent>>
    <3>1. \A i \in 1 .. Len(stack) : i # Len(stack) => i + 1 \in 1 .. Len(stack)
      BY <1>0
    <3> QED
      BY <2>4, <2>6, <3>1 DEF ParentInv
  <2>7. CASE /\ color[d] = white /\ color' = [color EXCEPT ![d] = gray]
             /\ parent' = [parent EXCEPT ![d] = stack[1].node]
             /\ stack' = s
    <3>1. \A u \in Node : color'[u] = white => color[u] = white /\ u # d
      BY <1>0, <2>7 DEF white, gray
    <3>2. \A i \in 1 .. Len(stack) : stack[i].node # d /\ stack[i].node \in Node
      BY <1>0, <2>7 DEF SearchInv, CallsInv, white, gray
    <3>3. 1 \in 1 .. Len(stack)
      BY <2>4
    <3>4. /\ parent \in [Node -> Node \cup {NoNode}]
          /\ parent' \in [Node -> Node \cup {NoNode}]
          /\ parent'[d] = stack[1].node
          /\ \A u \in Node : u # d => parent'[u] = parent[u]
      BY <2>7, <3>2, <3>3 DEF ParentInv
    <3>5. ASSUME NEW i \in 1 .. Len(s)
          PROVE  parent'[s[i].node] = IF i = Len(s) THEN NoNode ELSE s[i + 1].node
      <4>1. CASE i = 1
        <5>1. i # Len(s) /\ i + 1 = 1 + 1
          BY <2>4, <4>1
        <5> QED
          BY <2>4, <3>3, <3>4, <4>1, <5>1
      <4>2. CASE i # 1
        <5> DEFINE j == i - 1
        <5>1. /\ j \in 1 .. Len(stack) /\ j + 1 = i /\ (j = Len(stack) <=> i = Len(s))
              /\ j # Len(stack) => j + 1 \in 1 .. Len(stack)
          BY <2>4, <4>2
        <5>2. s[i].node = stack[j].node
          BY <2>4, <5>1
        <5>3. i # Len(s) => s[i + 1].node = stack[j + 1].node
          BY <2>4, <5>1
        <5>4. parent'[s[i].node] = parent[stack[j].node]
          BY <3>2, <3>4, <5>1, <5>2
        <5>5. parent[stack[j].node] = IF j = Len(stack) THEN NoNode ELSE stack[j + 1].node
          BY <5>1 DEF ParentInv
        <5> HIDE DEF j
        <5> QED
          BY <5>1, <5>3, <5>4, <5>5
      <4> QED
        BY <4>1, <4>2
    <3>6. \A u \in Node : color'[u] = white => parent'[u] = NoNode
      BY <3>1, <3>4 DEF ParentInv
    <3> QED
      BY <2>7, <3>4, <3>5, <3>6 DEF ParentInv
  <2> QED
    BY <1>2, <2>4, <2>5, <2>6, <2>7 DEF VisitDependency, r, s
<1>3. CASE Finish
  <2>1. /\ stack # <<>> /\ stack' = Tail(stack) /\ parent' = parent
        /\ color' = [color EXCEPT ![Head(stack).node] = black]
    BY <1>3 DEF Finish
  <2>2. /\ Len(stack') = Len(stack) - 1 /\ Len(stack) >= 1
        /\ \A i \in 1 .. Len(stack') : stack'[i] = stack[i + 1]
    BY <1>0, <2>1, Popped
  <2>3. \A u \in Node : color'[u] = white => color[u] = white
    <3>1. Head(stack) = stack[1] /\ stack[1].node \in Node
      BY <1>0, <2>1, Popped DEF Calls
    <3> QED
      BY <1>0, <2>1, <3>1 DEF white, black
  <2>4. ASSUME NEW i \in 1 .. Len(stack')
        PROVE  parent[stack'[i].node] = IF i = Len(stack') THEN NoNode ELSE stack'[i + 1].node
    <3>1. /\ i + 1 \in 1 .. Len(stack) /\ (i = Len(stack') <=> i + 1 = Len(stack))
          /\ i # Len(stack') => i + 1 \in 1 .. Len(stack')
      BY <1>0, <2>2
    <3>2. stack'[i] = stack[i + 1]
      BY <2>2
    <3>3. i # Len(stack') => stack'[i + 1] = stack[(i + 1) + 1]
      BY <2>2, <3>1
    <3>4. parent[stack[i + 1].node] = IF i + 1 = Len(stack) THEN NoNode ELSE stack[(i + 1) + 1].node
      BY <3>1 DEF ParentInv
    <3> QED
      BY <3>1, <3>2, <3>3, <3>4
  <2> QED
    BY <2>1, <2>3, <2>4 DEF ParentInv
<1>4. CASE UNCHANGED vars
  BY <1>4 DEF ParentInv
<1> QED
  BY <1>1, <1>2, <1>3, <1>4 DEF Next

(* The non-empty paths of tasks that end in x.                              *)
PathsTo(x) == {s \in Seq(Node) : s # <<>> /\ s[Len(s)] = x}

(* PathTo puts the ancestors of x in front one by one, until the next one   *)
(* is d or there is none.                                                   *)
LEMMA PathToSteps ==
    ASSUME parent \in [Node -> Node \cup {NoNode}], NEW x \in Node, NEW d
    PROVE  \E u \in [Nat -> PathsTo(x)] :
               /\ u[0] = <<x>>
               /\ \A n \in Nat :
                      LET above == parent[Head(u[n])]
                      IN  /\ above \in {NoNode, d} => u[n + 1] = u[n]
                          /\ above \notin {NoNode, d} => u[n + 1] = <<above>> \o u[n]
               /\ PathTo(x, d) = Append(u[Cardinality(Node)], d)
<1> DEFINE F == [s \in PathsTo(x) |-> IF parent[Head(s)] \in {NoNode, d} THEN s
                                      ELSE <<parent[Head(s)]>> \o s]
<1>1. ASSUME NEW s \in PathsTo(x)
      PROVE  /\ parent[Head(s)] \in Node \cup {NoNode}
             /\ parent[Head(s)] # NoNode => <<parent[Head(s)]>> \o s \in PathsTo(x)
  <2>1. s \in Seq(Node) /\ s # <<>> /\ s[Len(s)] = x
    BY DEF PathsTo
  <2>2. Head(s) \in Node /\ Len(s) \in Nat /\ Len(s) >= 1
    BY ONLY <2>1
  <2>3. parent[Head(s)] \in Node \cup {NoNode}
    BY <2>2
  <2>4. ASSUME NEW a \in Node PROVE <<a>> \o s \in PathsTo(x)
    <3>1. /\ <<a>> \o s \in Seq(Node) /\ Len(<<a>> \o s) = Len(s) + 1
          /\ \A i \in 2 .. Len(<<a>> \o s) : (<<a>> \o s)[i] = s[i - 1]
      BY ONLY <2>1, Pushed, a \in Node
    <3>2. Len(s) + 1 \in 2 .. (Len(s) + 1) /\ (Len(s) + 1) - 1 = Len(s)
      BY <2>2
    <3>3. (<<a>> \o s)[Len(s) + 1] = s[Len(s)]
      BY <3>1, <3>2
    <3>4. <<a>> \o s # <<>>
      BY <2>2, <3>1
    <3> QED
      BY <2>1, <3>1, <3>3, <3>4 DEF PathsTo
  <2> QED
    BY <2>3, <2>4
<1>2. /\ F \in [PathsTo(x) -> PathsTo(x)]
      /\ \A s \in PathsTo(x) :
             F[s] = IF parent[Head(s)] \in {NoNode, d} THEN s ELSE <<parent[Head(s)]>> \o s
  BY <1>1
<1>3. <<x>> \in PathsTo(x)
  <2>1. <<x>> \in Seq(Node) /\ Len(<<x>>) = 1 /\ <<x>>[1] = x /\ <<x>> # <<>>
    OBVIOUS
  <2> QED
    BY <2>1 DEF PathsTo
<1> HIDE DEF F
<1>4. PICK g : IsIteration(g, PathsTo(x), <<x>>, F)
  BY <1>2, <1>3, Iterated, Zenon
<1>5. \A n \in Nat : g[n] = IF n = 0 THEN <<x>>
                            ELSE IF parent[Head(g[n - 1])] \in {NoNode, d} THEN g[n - 1]
                                 ELSE <<parent[Head(g[n - 1])]>> \o g[n - 1]
  <2> TAKE n \in Nat
  <2>1. n # 0 => n - 1 \in Nat /\ (n - 1) + 1 = n
    OBVIOUS
  <2> QED
    BY <1>2, <1>4, <2>1 DEF IsIteration
<1>6. g = [n \in Nat |-> IF n = 0 THEN <<x>>
                         ELSE LET above == parent[Head(g[n - 1])]
                              IN  IF above \in {NoNode, d} THEN g[n - 1]
                                  ELSE <<above>> \o g[n - 1]]
  BY <1>4, <1>5 DEF IsIteration
<1> DEFINE up[n \in Nat] ==
            IF n = 0 THEN <<x>>
            ELSE LET above == parent[Head(up[n - 1])]
                 IN  IF above \in {NoNode, d} THEN up[n - 1]
                     ELSE <<above>> \o up[n - 1]
<1>7. up = [n \in Nat |-> IF n = 0 THEN <<x>>
                          ELSE LET above == parent[Head(up[n - 1])]
                               IN  IF above \in {NoNode, d} THEN up[n - 1]
                                   ELSE <<above>> \o up[n - 1]]
  <2> SUFFICES \E ff : ff = [n \in Nat |-> IF n = 0 THEN <<x>>
                             ELSE LET above == parent[Head(ff[n - 1])]
                                  IN  IF above \in {NoNode, d} THEN ff[n - 1]
                                      ELSE <<above>> \o ff[n - 1]]
    BY Zenon
  <2> QED
    BY <1>6, Zenon
<1>8. PathTo(x, d) = Append(up[Cardinality(Node)], d)
  BY Zenon DEF PathTo
<1> HIDE DEF up
<1>9. up[0] = <<x>>
  BY <1>7
<1>10. ASSUME NEW n \in Nat
       PROVE  LET above == parent[Head(up[n])]
              IN  /\ above \in {NoNode, d} => up[n + 1] = up[n]
                  /\ above \notin {NoNode, d} => up[n + 1] = <<above>> \o up[n]
  <2>1. n + 1 \in Nat /\ n + 1 # 0 /\ (n + 1) - 1 = n
    OBVIOUS
  <2> QED
    BY <1>7, <2>1
<1>11. \A n \in Nat : up[n] \in PathsTo(x)
  <2> DEFINE T == {n \in Nat : up[n] \in PathsTo(x)}
  <2>1. 0 \in T
    BY <1>3, <1>9
  <2>2. ASSUME NEW n \in Nat, n \in T PROVE n + 1 \in T
    <3>1. up[n] \in PathsTo(x)
      BY <2>2
    <3>2. CASE parent[Head(up[n])] \in {NoNode, d}
      <4>1. up[n + 1] = up[n]
        BY <1>10, <3>2
      <4> HIDE DEF up
      <4> QED
        BY <2>2, <3>1, <4>1
    <3>3. CASE parent[Head(up[n])] \notin {NoNode, d}
      <4>1. up[n + 1] = <<parent[Head(up[n])]>> \o up[n]
        BY <1>10, <3>3
      <4>2. <<parent[Head(up[n])]>> \o up[n] \in PathsTo(x)
        BY <1>1, <3>1, <3>3
      <4>3. up[n + 1] \in PathsTo(x)
        BY <4>1, <4>2
      <4> QED
        BY <4>3
    <3> QED
      BY <3>2, <3>3
  <2> HIDE DEF T
  <2>3. \A n \in Nat : n \in T
    BY <2>1, <2>2, SetInduction
  <2> QED
    BY <2>3 DEF T
<1>12. up \in [Nat -> PathsTo(x)]
  BY <1>7, <1>11
<1> QED
  BY <1>8, <1>9, <1>10, <1>12

(* There are no more calls than tasks: no task has two.                     *)
LEMMA CallsBound ==
    ASSUME SearchInv
    PROVE  Len(stack) <= Cardinality(Node)
<1> DEFINE n == Len(stack)
           f == [i \in 1 .. n |-> stack[i].node]
<1>1. n \in Nat /\ \A i \in 1 .. n : stack[i].node \in Node
  BY CallAt DEF SearchInv
<1>2. f \in [1 .. n -> Node] /\ \A i \in 1 .. n : f[i] = stack[i].node
  BY <1>1
<1>3. \A i, j \in 1 .. n : f[i] = f[j] => i = j
  BY <1>2 DEF SearchInv, CallsInv
<1>4. IsFiniteSet(1 .. n) /\ Cardinality(1 .. n) = n
  <2>1. IsFiniteSet(1 .. n) /\ Cardinality(1 .. n) = IF 1 > n THEN 0 ELSE n - 1 + 1
    BY <1>1, FS_Interval
  <2> QED
    BY <1>1, <2>1
<1>5. Cardinality(Node) \in Nat
  BY NodeAssumption, FS_CardinalityType
<1> HIDE DEF f, n
<1>6. ~(Cardinality(Node) < n)
  <2> SUFFICES ASSUME Cardinality(Node) < Cardinality(1 .. n) PROVE FALSE
    BY <1>4
  <2>1. \E i, j \in 1 .. n : i # j /\ f[i] = f[j]
    <3>1. PICK D : D = 1 .. n
      OBVIOUS
    <3>2. f \in [D -> Node] /\ IsFiniteSet(D) /\ Cardinality(Node) < Cardinality(D)
      BY <1>2, <1>4, <3>1
    <3>3. \E i, j \in D : i # j /\ f[i] = f[j]
      BY ONLY <3>2, NodeAssumption, FS_PigeonHole
    <3> QED
      BY <3>1, <3>3
  <2> QED
    BY <1>3, <2>1
<1> QED
  BY <1>1, <1>5, <1>6 DEF n

(* The path to a gray node further down the stack is that part of the       *)
(* stack, from the call above the gray node to the innermost one.           *)
LEMMA PathOfStack ==
    ASSUME SearchInv, ParentInv, NEW k \in 2 .. Len(stack)
    PROVE  LET p == PathTo(stack[1].node, stack[k].node)
           IN  /\ p \in Seq(Node) /\ Len(p) = k
               /\ \A i \in 1 .. (k - 1) : p[i] = stack[k - i].node
               /\ p[k] = stack[k].node
<1> DEFINE x == stack[1].node
           d == stack[k].node
           C == Cardinality(Node)
<1>1. /\ Len(stack) \in Nat /\ \A i \in 1 .. Len(stack) : stack[i].node \in Node
      /\ parent \in [Node -> Node \cup {NoNode}]
  BY CallAt DEF SearchInv, ParentInv
<1>2. k \in Nat /\ k >= 2 /\ k <= Len(stack) /\ x \in Node /\ d \in Node
  BY <1>1
<1>3. C \in Nat /\ k <= C
  BY <1>1, <1>2, CallsBound, NodeAssumption, FS_CardinalityType
<1>4. PICK u \in [Nat -> PathsTo(x)] :
               /\ u[0] = <<x>>
               /\ \A n \in Nat :
                      LET above == parent[Head(u[n])]
                      IN  /\ above \in {NoNode, d} => u[n + 1] = u[n]
                          /\ above \notin {NoNode, d} => u[n + 1] = <<above>> \o u[n]
               /\ PathTo(x, d) = Append(u[C], d)
  BY <1>1, <1>2, PathToSteps
<1>5. ASSUME NEW n \in Nat
      PROVE  u[n] \in Seq(Node) /\ u[n] # <<>> /\ Head(u[n]) = u[n][1] /\ Len(u[n]) \in Nat
  <2>1. u[n] \in Seq(Node) /\ u[n] # <<>>
    BY DEF PathsTo
  <2> QED
    BY ONLY <2>1
<1>6. \A n \in Nat : n + 2 <= k =>
          /\ Len(u[n]) = n + 1
          /\ \A i \in 1 .. (n + 1) : u[n][i] = stack[n + 2 - i].node
  <2> DEFINE T == {n \in Nat : n + 2 <= k =>
                       /\ Len(u[n]) = n + 1
                       /\ \A i \in 1 .. (n + 1) : u[n][i] = stack[n + 2 - i].node}
  <2>1. 0 \in T
    <3>1. Len(u[0]) = 1 /\ u[0][1] = x
      BY <1>4
    <3>2. \A i \in 1 .. (0 + 1) : i = 1 /\ 0 + 2 - i = 1
      OBVIOUS
    <3> QED
      BY <3>1, <3>2
  <2>2. ASSUME NEW n \in Nat, n \in T PROVE n + 1 \in T
    <3> SUFFICES ASSUME (n + 1) + 2 <= k
                 PROVE  /\ Len(u[n + 1]) = (n + 1) + 1
                        /\ \A i \in 1 .. ((n + 1) + 1) : u[n + 1][i] = stack[(n + 1) + 2 - i].node
      OBVIOUS
    <3>1. Len(u[n]) = n + 1 /\ \A i \in 1 .. (n + 1) : u[n][i] = stack[n + 2 - i].node
      BY <1>2, <2>2
    <3>2. /\ 1 \in 1 .. (n + 1) /\ n + 2 - 1 = n + 1 /\ (n + 1) + 1 = n + 2
          /\ n + 1 \in 1 .. Len(stack) /\ n + 1 # Len(stack)
          /\ n + 2 \in 1 .. Len(stack) /\ n + 2 # k
      BY <1>1, <1>2
    <3>3. Head(u[n]) = stack[n + 1].node
      BY <1>5, <3>1, <3>2
    <3>4. parent[Head(u[n])] = stack[n + 2].node
      BY <3>2, <3>3 DEF ParentInv
    <3>5. stack[n + 2].node \notin {NoNode, d} /\ stack[n + 2].node \in Node
      BY <1>1, <1>2, <3>2, NoNodeAssumption DEF SearchInv, CallsInv
    <3>6. u[n + 1] = <<stack[n + 2].node>> \o u[n]
      BY <1>4, <3>4, <3>5
    <3>7. /\ Len(u[n + 1]) = Len(u[n]) + 1 /\ u[n + 1][1] = stack[n + 2].node
          /\ \A i \in 2 .. Len(u[n + 1]) : u[n + 1][i] = u[n][i - 1]
      BY ONLY <1>5, <3>5, <3>6, n \in Nat, Pushed
    <3>8. ASSUME NEW i \in 1 .. ((n + 1) + 1) PROVE u[n + 1][i] = stack[(n + 1) + 2 - i].node
      <4>1. CASE i = 1
        <5>1. (n + 1) + 2 - i = n + 2
          BY <4>1
        <5> QED
          BY <3>7, <4>1, <5>1
      <4>2. CASE i # 1
        <5>1. i \in 2 .. Len(u[n + 1]) /\ i - 1 \in 1 .. (n + 1) /\ n + 2 - (i - 1) = (n + 1) + 2 - i
          BY <3>1, <3>7, <4>2
        <5> QED
          BY <3>1, <3>7, <5>1
      <4> QED
        BY <4>1, <4>2
    <3> QED
      BY <3>1, <3>7, <3>8
  <2> HIDE DEF T
  <2>3. \A n \in Nat : n \in T
    BY <2>1, <2>2, SetInduction
  <2> QED
    BY <2>3 DEF T
<1> DEFINE e == k - 2
<1>7. e \in Nat /\ e + 2 <= k /\ e + 1 = k - 1 /\ C - e \in Nat /\ e + (C - e) = C
  BY <1>2, <1>3
<1>8. /\ Len(u[e]) = k - 1
      /\ \A i \in 1 .. (k - 1) : u[e][i] = stack[k - i].node
  <2>1. /\ Len(u[e]) = e + 1
        /\ \A i \in 1 .. (e + 1) : u[e][i] = stack[e + 2 - i].node
    BY <1>6, <1>7
  <2>2. \A i \in 1 .. (k - 1) : e + 2 - i = k - i
    BY <1>2
  <2> QED
    BY <1>7, <2>1, <2>2
<1>9. parent[Head(u[e])] = d
  <2>1. 1 \in 1 .. (k - 1) /\ k - 1 \in 1 .. Len(stack) /\ k - 1 # Len(stack) /\ (k - 1) + 1 = k
    BY <1>1, <1>2
  <2>2. Head(u[e]) = stack[k - 1].node
    BY <1>5, <1>7, <1>8, <2>1
  <2> QED
    BY <2>1, <2>2 DEF ParentInv
<1>10. \A n \in Nat : u[e + n] = u[e]
  <2> DEFINE T == {n \in Nat : u[e + n] = u[e]}
  <2> HIDE DEF e
  <2>1. 0 \in T
    BY <1>7
  <2>2. ASSUME NEW n \in Nat, n \in T PROVE n + 1 \in T
    <3>1. e + (n + 1) = (e + n) + 1 /\ e + n \in Nat
      BY <1>7
    <3>2. u[(e + n) + 1] = u[e + n]
      BY <1>4, <1>9, <2>2, <3>1
    <3> QED
      BY <2>2, <3>1, <3>2
  <2> HIDE DEF T
  <2>3. \A n \in Nat : n \in T
    BY <2>1, <2>2, SetInduction
  <2> QED
    BY <2>3 DEF T
<1>11. u[C] = u[e]
  BY <1>7, <1>10
<1> DEFINE q == u[e]
           p == PathTo(x, d)
<1>12. p = Append(q, d) /\ q \in Seq(Node) /\ Len(q) = k - 1
  BY <1>4, <1>5, <1>7, <1>8, <1>11
<1> HIDE DEF q, p, d, x, e
<1>13. /\ p \in Seq(Node) /\ Len(p) = (k - 1) + 1 /\ p[(k - 1) + 1] = d
       /\ \A i \in 1 .. (k - 1) : p[i] = q[i]
  BY ONLY <1>2, <1>12
<1> QED
  BY <1>2, <1>8, <1>13 DEF q, p, d, x

(* A path taken from the stack is a simple cycle.                           *)
LEMMA StackIsCycle ==
    ASSUME SearchInv, NEW k \in 2 .. Len(stack), stack[k].node \in needs[stack[1].node],
           NEW p \in Seq(Node), Len(p) = k, p[k] = stack[k].node,
           \A i \in 1 .. (k - 1) : p[i] = stack[k - i].node
    PROVE  /\ IsCycle(p)
           /\ \A i, j \in DOMAIN p : p[i] = p[j] => i = j
<1>1. Len(stack) \in Nat /\ k \in Nat /\ k >= 2 /\ k <= Len(stack) /\ DOMAIN p = 1 .. k
  BY CallAt DEF SearchInv
<1>2. ASSUME NEW i \in 1 .. k PROVE p[(i % k) + 1] \in needs[p[i]]
  <2>1. CASE i = k
    <3>1. (i % k) + 1 = 1
      BY <1>1, <2>1
    <3>2. 1 \in 1 .. (k - 1) /\ k - 1 \in 1 .. (Len(stack) - 1) /\ (k - 1) + 1 = k
      BY <1>1
    <3>3. stack[k - 1].node \in needs[stack[(k - 1) + 1].node]
      BY <3>2 DEF SearchInv, PathInv
    <3> QED
      BY <2>1, <3>1, <3>2, <3>3
  <2>2. CASE i = k - 1
    <3>1. (i % k) + 1 = k /\ k - i = 1 /\ i \in 1 .. (k - 1)
      BY <1>1, <2>2
    <3> QED
      BY <3>1
  <2>3. CASE i \in 1 .. (k - 2)
    <3>0. i \in Nat /\ 0 <= i /\ i < k
      BY <1>1, <2>3
    <3>1. /\ i % k = i /\ i \in 1 .. (k - 1) /\ i + 1 \in 1 .. (k - 1)
          /\ k - (i + 1) \in 1 .. (Len(stack) - 1) /\ (k - (i + 1)) + 1 = k - i
      <4>1. i % k = i
        BY ONLY <1>1, <3>0
      <4> QED
        BY <1>1, <2>3, <4>1
    <3>2. stack[k - (i + 1)].node \in needs[stack[(k - (i + 1)) + 1].node]
      BY <3>1 DEF SearchInv, PathInv
    <3> QED
      BY <3>1, <3>2
  <2>4. i = k \/ i = k - 1 \/ i \in 1 .. (k - 2)
    BY <1>1
  <2> QED
    BY <2>1, <2>2, <2>3, <2>4
<1>3. ASSUME NEW i \in 1 .. k, NEW j \in 1 .. k, p[i] = p[j] PROVE i = j
  <2> DEFINE at(m) == IF m = k THEN k ELSE k - m
  <2>1. \A m \in 1 .. k : at(m) \in 1 .. Len(stack) /\ p[m] = stack[at(m)].node
    <3> TAKE m \in 1 .. k
    <3>1. CASE m = k
      BY <1>1, <3>1
    <3>2. CASE m # k
      <4>1. m \in 1 .. (k - 1)
        BY <1>1, <3>2
      <4>2. k - m \in 1 .. Len(stack)
        BY <1>1, <4>1
      <4> QED
        BY <3>2, <4>1, <4>2
    <3> QED
      BY <3>1, <3>2
  <2>2. at(i) = at(j)
    <3> HIDE DEF at
    <3>1. at(i) \in 1 .. Len(stack) /\ p[i] = stack[at(i)].node
      BY <2>1
    <3>2. at(j) \in 1 .. Len(stack) /\ p[j] = stack[at(j)].node
      BY <2>1
    <3>3. stack[at(i)].node = stack[at(j)].node
      BY <1>3, <3>1, <3>2
    <3> QED
      BY <3>1, <3>2, <3>3 DEF SearchInv, CallsInv
  <2> QED
    BY <1>1, <2>2
<1> QED
  BY <1>1, <1>2, <1>3 DEF IsCycle

(* The path that is returned for a gray dependency.                         *)
LEMMA ReturnedPath ==
    ASSUME SearchInv, ParentInv, stack # <<>>, NEW d \in Head(stack).todo, color[d] = gray,
           NEW p, p = PathTo(Head(stack).node, d)
    PROVE  /\ p \in Seq(Node)
           /\ p[Len(p)] # p[Len(p) - 1] =>
                  /\ IsCycle(p)
                  /\ \A i, j \in DOMAIN p : p[i] = p[j] => i = j
<1>1. /\ d \in Node /\ d \in needs[stack[1].node] /\ Head(stack) = stack[1]
      /\ Len(stack) \in Nat /\ Len(stack) >= 1
  BY CallNodes
<1>2. PICK k \in 1 .. Len(stack) : stack[k].node = d
  BY <1>1 DEF SearchInv, CallsInv
<1>3. CASE k = 1
  <2> DEFINE C == Cardinality(Node)
  <2>1. parent \in [Node -> Node \cup {NoNode}] /\ C \in Nat
    BY NodeAssumption, FS_CardinalityType DEF ParentInv
  <2>2. stack[1].node = d /\ p = PathTo(d, d)
    BY <1>1, <1>2, <1>3
  <2>3. PICK u \in [Nat -> PathsTo(d)] : PathTo(d, d) = Append(u[C], d)
    BY <1>1, <2>1, PathToSteps
  <2>4. u[C] \in Seq(Node) /\ u[C] # <<>> /\ u[C][Len(u[C])] = d
    BY <2>1 DEF PathsTo
  <2>5. p \in Seq(Node) /\ p[Len(p)] = d /\ p[Len(p) - 1] = d
    BY ONLY <1>1, <2>2, <2>3, <2>4
  <2> QED
    BY <2>5
<1>4. CASE k # 1
  <2>1. k \in 2 .. Len(stack)
    BY <1>1, <1>4
  <2>2. p = PathTo(stack[1].node, stack[k].node)
    BY <1>1, <1>2
  <2>3. /\ p \in Seq(Node) /\ Len(p) = k
        /\ \A i \in 1 .. (k - 1) : p[i] = stack[k - i].node
        /\ p[k] = stack[k].node
    BY <2>1, <2>2, PathOfStack
  <2> QED
    BY <1>1, <1>2, <2>1, <2>3, StackIsCycle
<1> QED
  BY <1>3, <1>4

(* A path is only made when the search returns it, and then it is a cycle.  *)
LEMMA PathKeeps ==
    ASSUME SearchInv, ParentInv, path \in Seq(Node), PathIsSimpleCycle, [Next]_vars
    PROVE  path' \in Seq(Node) /\ PathIsSimpleCycle'
<1>1. CASE UNCHANGED <<path, found, needs>>
  BY <1>1 DEF PathIsSimpleCycle, IsCycle
<1>2. ASSUME NEW d \in Node, VisitDependency(d), ~UNCHANGED <<path, found, needs>>
      PROVE  path' \in Seq(Node) /\ PathIsSimpleCycle'
  <2>1. /\ stack # <<>> /\ d \in Head(stack).todo /\ color[d] = gray /\ needs' = needs
        /\ path' = PathTo(Head(stack).node, d)
    BY <1>2 DEF VisitDependency
  <2>2. /\ path' \in Seq(Node)
        /\ path'[Len(path')] # path'[Len(path') - 1] =>
               /\ IsCycle(path')
               /\ \A i, j \in DOMAIN path' : path'[i] = path'[j] => i = j
    BY <2>1, ReturnedPath
  <2> QED
    BY <2>1, <2>2 DEF PathIsSimpleCycle, IsCycle
<1> QED
  BY <1>1, <1>2 DEF Next, VisitRoot, Finish

--------------------------------------------------------------------------------
(* The sort, continued: what is needed, and how early.                      *)

(* When the worklist is empty, exactly what the targets need was found.     *)
LEMMA NeededExact ==
    ASSUME SortTypes, ListInv, NeededInv, work = {}
    PROVE  needed = NeededBy(needs, targets)
<1>1. /\ needs \in [Node -> SUBSET Node] /\ targets \in SUBSET Node /\ needed \in SUBSET Node
      /\ targets \subseteq needed
  BY DEF SortTypes, NeededInv
<1>2. Closed(needs, needed)
  BY DEF ListInv, Closed
<1>3. NeededBy(needs, targets) \subseteq needed
  BY <1>1, <1>2, NeededLeast, NodeAssumption
<1> QED
  BY <1>3 DEF NeededInv

(* The sort never finds the cycle that the search did not find.             *)
LEMMA SortAcyclic ==
    ASSUME SortTypes, ListInv, work = {}, ~Cyclic(needs)
    PROVE  ~Sort!Cyclic(Sort!sub)
<1>1. /\ needs \in [Node -> SUBSET Node] /\ needed \in SUBSET Node /\ Closed(needs, needed)
  BY DEF SortTypes, ListInv, Closed
<1>2. ~Cyclic(Subgraph(needs, needed))
  BY <1>1, PartAcyclic, NodeAssumption
<1> QED
  BY <1>2, SameOperators, SameCyclic DEF Sort!sub

(* When the queue is empty nothing is left: an unplaced task would wait for *)
(* another, and that one for a third.                                       *)
LEMMA AllPlaced ==
    ASSUME SortInv, phase = "sort", queue = {}, ~Cyclic(needs)
    PROVE  Sort!Placed = needed
<1> DEFINE U == needed \ Sort!Placed
<1>1. /\ needs \in [Node -> SUBSET Node] /\ needed \in SUBSET Node /\ work = {}
      /\ Sort!Placed \subseteq needed /\ SortTypes /\ ListInv
  BY DEF SortInv, SortTypes, ListInv
<1>2. \A t \in U : ~(needs[t] \subseteq Sort!Placed) /\ needs[t] \subseteq needed
  <2>1. {t \in needed \ Sort!Placed : Sort!sub[t] \subseteq Sort!Placed} = {}
    BY DEF SortInv, CountersExact, Sort!CountersExact
  <2>2. \A t \in needed : Sort!sub[t] = needs[t] /\ needs[t] \subseteq needed
    BY <1>1, SubNeeds
  <2> QED
    BY <2>1, <2>2
<1>3. \A t \in U : needs[t] \cap U # {}
  BY <1>2
<1>4. U \in SUBSET Node
  BY <1>1
<1> HIDE DEF U
<1>5. U = {}
  BY <1>1, <1>3, <1>4, AcyclicMinimal, NodeAssumption
<1> QED
  BY <1>1, <1>5 DEF U

(* The tasks before a level grow by the level; after the last level they    *)
(* are all that is placed.                                                  *)
LEMMA BeforeSteps ==
    ASSUME SortTypes, LevelInv, EarlyInv
    PROVE  /\ Len(levels) \in Nat /\ DOMAIN levels = 1 .. Len(levels)
           /\ Before(0) = {} /\ Before(Len(levels)) = Sort!Placed
           /\ \A i \in 0 .. Len(levels) :
                  /\ Before(i) \subseteq needed
                  /\ \A t \in Before(i) : needs[t] \subseteq Before(i)
           /\ \A i \in 0 .. (Len(levels) - 1) :
                  /\ Before(i + 1) = Before(i) \cup levels[i + 1]
                  /\ Before(i) # Before(i + 1)
                  /\ levels[i + 1] = {t \in needed \ Before(i) : needs[t] \subseteq Before(i)}
<1> DEFINE n == Len(levels)
<1>1. n \in Nat /\ DOMAIN levels = 1 .. n /\ Sort!Placed \subseteq needed
  BY DEF SortTypes
<1>2. Before(0) = {} /\ Before(n) = Sort!Placed
  <2>1. 1 .. 0 = {}
    OBVIOUS
  <2>2. Before(0) = {}
    BY <2>1 DEF Before
  <2> QED
    BY <1>1, <2>2 DEF Before, Sort!Placed
<1>3. ASSUME NEW i \in 0 .. n
      PROVE  /\ Before(i) \subseteq needed
             /\ \A t \in Before(i) : needs[t] \subseteq Before(i)
  <2>1. \A j \in 1 .. i : j \in DOMAIN levels /\ \A l \in 1 .. (j - 1) : l \in 1 .. i
    BY <1>1
  <2>2. Before(i) \subseteq needed
    BY <1>1, <2>1 DEF Before, Sort!Placed
  <2>3. ASSUME NEW t \in Before(i), NEW d \in needs[t] PROVE d \in Before(i)
    <3>1. PICK j \in 1 .. i : t \in levels[j]
      BY DEF Before
    <3>2. PICK l \in 1 .. (j - 1) : d \in levels[l]
      BY <2>1, <3>1 DEF LevelInv
    <3> QED
      BY <2>1, <3>2 DEF Before
  <2> QED
    BY <2>2, <2>3
<1>4. ASSUME NEW i \in 0 .. (n - 1)
      PROVE  /\ Before(i + 1) = Before(i) \cup levels[i + 1]
             /\ Before(i) # Before(i + 1)
             /\ levels[i + 1] = {t \in needed \ Before(i) : needs[t] \subseteq Before(i)}
  <2>1. i + 1 \in 1 .. n /\ (i + 1) - 1 = i
    BY <1>1
  <2>2. /\ levels[i + 1] # {}
        /\ levels[i + 1] = {t \in needed \ Before(i) : needs[t] \subseteq Before(i)}
    BY <2>1 DEF EarlyInv
  <2>3. \A j : j \in 1 .. (i + 1) <=> (j \in 1 .. i \/ j = i + 1)
    BY <1>1
  <2>4. Before(i + 1) = Before(i) \cup levels[i + 1]
    <3>1. ASSUME NEW x PROVE x \in Before(i + 1) <=> x \in Before(i) \cup levels[i + 1]
      <4>1. x \in Before(i + 1) <=> \E j \in 1 .. (i + 1) : x \in levels[j]
        BY DEF Before
      <4>2. x \in Before(i) <=> \E j \in 1 .. i : x \in levels[j]
        BY DEF Before
      <4> QED
        BY <2>3, <4>1, <4>2
    <3> QED
      BY <3>1
  <2> QED
    BY <2>2, <2>4
<1> QED
  BY <1>1, <1>2, <1>3, <1>4

(* When the queue is empty the levels are the plan for the targets.         *)
LEMMA LevelsAreEarliest ==
    ASSUME SortInv, NeededInv, EarlyInv, phase = "sort", queue = {}
    PROVE  levels = Sort!PlanFor(needs, targets)
<1> DEFINE n == Len(levels)
           C == Cardinality(needed)
<1>1. PICK g : g = Subgraph(needs, needed)
  OBVIOUS
<1>2. /\ needs \in [Node -> SUBSET Node] /\ needed \in SUBSET Node /\ work = {}
      /\ SortTypes /\ ListInv /\ LevelInv /\ levels \in Seq(SUBSET Node)
  BY DEF SortInv, SortTypes, ListInv
<1>3. Sort!PlanFor(needs, targets) = LevelsOf(g)
  BY <1>1, <1>2, NeededExact, SameOperators DEF Sort!PlanFor
<1>4. IsFiniteSet(needed) /\ C \in Nat
  BY <1>2, NodeAssumption, FS_Subset, FS_CardinalityType
<1>5. \A t \in needed : g[t] = needs[t] /\ needs[t] \in SUBSET needed
  BY <1>1, <1>2 DEF Subgraph, ListInv
<1>6. g \in [needed -> SUBSET needed]
  BY <1>1 DEF Subgraph
<1>7. PICK p \in [Nat -> SUBSET needed] :
               /\ p[0] = {}
               /\ \A i \in Nat : p[i + 1] = {t \in needed : g[t] \subseteq p[i]}
               /\ \A k \in 0 .. C :
                      p[k] = p[k + 1] /\ (\A m \in 0 .. (k - 1) : p[m] # p[m + 1])
                      => LevelsOf(g) = [i \in 1 .. k |-> p[i] \ p[i - 1]]
  <2> HIDE DEF C
  <2>1. Cardinality(needed) \in Nat
    BY <1>4 DEF C
  <2>2. PICK p : IsPlacing(p, needed, g)
    BY <1>6, <2>1, PlacedSteps, Zenon
  <2> QED
    BY <2>2 DEF C, IsPlacing
<1>8. /\ n \in Nat /\ DOMAIN levels = 1 .. n
      /\ Before(0) = {} /\ Before(n) = Sort!Placed
      /\ \A i \in 0 .. n :
             /\ Before(i) \subseteq needed
             /\ \A t \in Before(i) : needs[t] \subseteq Before(i)
      /\ \A i \in 0 .. (n - 1) :
             /\ Before(i + 1) = Before(i) \cup levels[i + 1]
             /\ Before(i) # Before(i + 1)
             /\ levels[i + 1] = {t \in needed \ Before(i) : needs[t] \subseteq Before(i)}
  BY <1>2, BeforeSteps
<1> HIDE DEF n, C
<1>9. \A i \in Nat : i <= n => p[i] = Before(i)
  <2> DEFINE T == {i \in Nat : i <= n => p[i] = Before(i)}
  <2>1. 0 \in T
    BY <1>7, <1>8
  <2>2. ASSUME NEW i \in Nat, i \in T PROVE i + 1 \in T
    <3> SUFFICES ASSUME i + 1 <= n PROVE p[i + 1] = Before(i + 1)
      OBVIOUS
    <3>1. i \in 0 .. (n - 1) /\ i \in 0 .. n /\ p[i] = Before(i)
      BY <1>8, <2>2
    <3>2. p[i + 1] = {t \in needed : needs[t] \subseteq Before(i)}
      BY <1>5, <1>7, <3>1
    <3> QED
      BY <1>8, <3>1, <3>2
  <2> HIDE DEF T
  <2>3. \A i \in Nat : i \in T
    BY <2>1, <2>2, SetInduction
  <2> QED
    BY <2>3 DEF T
<1>10. p[n] = p[n + 1]
  <2>1. p[n + 1] = {t \in needed : needs[t] \subseteq Sort!Placed}
    BY <1>5, <1>7, <1>8, <1>9
  <2>2. \A t \in needed \ Sort!Placed : ~(needs[t] \subseteq Sort!Placed)
    <3>1. {t \in needed \ Sort!Placed : Sort!sub[t] \subseteq Sort!Placed} = {}
      BY DEF SortInv, CountersExact, Sort!CountersExact
    <3>2. \A t \in needed : Sort!sub[t] = needs[t]
      BY <1>2, SubNeeds
    <3> QED
      BY <3>1, <3>2
  <2>3. /\ Sort!Placed \subseteq needed
        /\ \A t \in Sort!Placed : needs[t] \subseteq Sort!Placed
    BY <1>2, PlacedClosed DEF SortTypes
  <2> QED
    BY <1>8, <1>9, <2>1, <2>2, <2>3
<1>11. \A m \in 0 .. (n - 1) : p[m] # p[m + 1]
  <2> TAKE m \in 0 .. (n - 1)
  <2>1. m \in Nat /\ m <= n /\ m + 1 \in Nat /\ m + 1 <= n
    BY <1>8
  <2> QED
    BY <1>8, <1>9, <2>1
<1>12. n <= C
  <2>1. ASSUME NEW i \in Nat PROVE IsFiniteSet(p[i]) /\ Cardinality(p[i]) \in Nat /\ Cardinality(p[i]) <= C
    BY <1>4, FS_Subset, FS_CardinalityType DEF C
  <2> DEFINE T == {i \in Nat : i <= n => Cardinality(p[i]) >= i}
  <2>2. 0 \in T
    BY <2>1
  <2>3. ASSUME NEW i \in Nat, i \in T PROVE i + 1 \in T
    <3> SUFFICES ASSUME i + 1 <= n PROVE Cardinality(p[i + 1]) >= i + 1
      OBVIOUS
    <3>1. i \in 0 .. (n - 1) /\ i <= n
      BY <1>8
    <3>2. p[i] \subseteq p[i + 1] /\ p[i] # p[i + 1]
      BY <1>8, <1>9, <3>1
    <3>3. /\ IsFiniteSet(p[i + 1]) /\ Cardinality(p[i]) \in Nat /\ Cardinality(p[i + 1]) \in Nat
          /\ Cardinality(p[i]) >= i
      BY <2>1, <2>3, <3>1
    <3>4. Cardinality(p[i]) <= Cardinality(p[i + 1]) /\ Cardinality(p[i]) # Cardinality(p[i + 1])
      BY <3>2, <3>3, FS_Subset
    <3> QED
      BY <3>3, <3>4
  <2> HIDE DEF T
  <2>4. n \in T
    BY <1>8, <2>2, <2>3, SetInduction
  <2> QED
    BY <1>4, <1>8, <2>1, <2>4 DEF T
<1>13. LevelsOf(g) = [i \in 1 .. n |-> p[i] \ p[i - 1]]
  BY <1>4, <1>7, <1>8, <1>10, <1>11, <1>12
<1>14. \A i \in 1 .. n : p[i] \ p[i - 1] = levels[i]
  <2> TAKE i \in 1 .. n
  <2>1. i - 1 \in 0 .. (n - 1) /\ i - 1 \in Nat /\ i - 1 <= n /\ i \in Nat /\ i <= n /\ (i - 1) + 1 = i
    BY <1>8
  <2>2. p[i] = Before(i - 1) \cup levels[i] /\ p[i - 1] = Before(i - 1)
    BY <1>8, <1>9, <2>1
  <2>3. levels[i] \cap Before(i - 1) = {}
    BY <1>8, <2>1
  <2> QED
    BY <2>2, <2>3
<1>15. levels = [i \in 1 .. n |-> levels[i]]
  BY <1>2, <1>8
<1>16. LevelsOf(g) = levels
  BY <1>13, <1>14, <1>15
<1> QED
  BY <1>3, <1>16

(* The plan, as the sort makes it; there is no way into phase "cycle".      *)
MadeInv ==
    /\ NeededInv /\ EarlyInv
    /\ phase \in {"collect", "sort", "planned"}
    /\ phase = "planned" => levels = Sort!PlanFor(needs, targets)

(* The levels that are there stay what they were.                           *)
LEMMA EarlySame ==
    ASSUME EarlyInv, UNCHANGED <<needs, needed, levels>>
    PROVE  EarlyInv'
BY DEF EarlyInv, Before

(* A new level is what was ready, and leaves the others as they were.       *)
LEMMA PlaceEarly ==
    ASSUME SortInv, EarlyInv, Sort!PlaceLevel
    PROVE  EarlyInv'
<1> DEFINE n == Len(levels)
<1>1. /\ UNCHANGED <<needs, needed>> /\ phase = "sort" /\ queue # {} /\ work = {}
      /\ levels' = Append(levels, queue) /\ SortTypes /\ ListInv
  BY DEF Sort!PlaceLevel, SortInv, ListInv
<1>2. /\ n \in Nat /\ DOMAIN levels' = 1 .. (n + 1) /\ levels'[n + 1] = queue
      /\ levels' \in Seq(SUBSET Node)
      /\ DOMAIN levels = 1 .. n /\ \A i \in 1 .. n : levels'[i] = levels[i]
  BY <1>1, PlacedAfter
<1>3. Len(levels') = n + 1
  BY <1>2
<1>4. Before(n) = Sort!Placed
  BY <1>2 DEF Before, Sort!Placed
<1>5. queue = {t \in needed \ Before(n) : needs[t] \subseteq Before(n)}
  <2>1. queue = {t \in needed \ Sort!Placed : Sort!sub[t] \subseteq Sort!Placed}
    BY <1>1 DEF SortInv, CountersExact, Sort!CountersExact
  <2>2. \A t \in needed : Sort!sub[t] = needs[t]
    BY <1>1, SubNeeds
  <2> QED
    BY <1>4, <2>1, <2>2
<1> HIDE DEF n
<1>6. ASSUME NEW i \in 0 .. n PROVE Before(i)' = Before(i)
  <2>1. \A j \in 1 .. i : levels'[j] = levels[j]
    BY <1>2
  <2> QED
    BY <2>1 DEF Before
<1>7. ASSUME NEW i \in 1 .. (n + 1)
      PROVE  /\ levels'[i] # {}
             /\ levels'[i] = {t \in needed \ Before(i - 1) : needs[t] \subseteq Before(i - 1)}
  <2>1. CASE i = n + 1
    <3>1. i - 1 = n
      BY <1>2, <2>1
    <3> QED
      BY <1>1, <1>2, <1>5, <2>1, <3>1
  <2>2. CASE i # n + 1
    <3>1. i \in 1 .. n
      BY <1>2, <2>2
    <3> QED
      BY <1>2, <3>1 DEF EarlyInv, n
  <2> QED
    BY <2>1, <2>2
<1>8. \A i \in 1 .. (n + 1) : i - 1 \in 0 .. n
  BY <1>2
<1>9. \A i \in 1 .. (n + 1) : Before(i - 1)' = Before(i - 1)
  BY <1>6, <1>8
<1> QED
  <2>1. SUFFICES ASSUME NEW i \in 1 .. (n + 1)
                 PROVE  /\ levels'[i] # {}
                        /\ levels'[i] = {t \in needed \ Before(i - 1)' : needs[t] \subseteq Before(i - 1)'}
    BY <1>1, <1>3 DEF EarlyInv
  <2> QED
    BY <1>7, <1>9

(* It holds at first: nothing is found, and the targets wait.               *)
LEMMA MadeInit == Sort!Init => MadeInv
<1> SUFFICES ASSUME Sort!Init PROVE MadeInv
  OBVIOUS
<1>1. /\ needs \in [Node -> SUBSET Node] /\ targets \in SUBSET Node
      /\ needed = {} /\ work = targets /\ phase = "collect" /\ Len(levels) = 0
  BY DEF Sort!Init, Sort!Graphs
<1>2. targets \subseteq NeededBy(needs, targets)
  BY <1>1, NeededLeast, NodeAssumption
<1>3. 1 .. Len(levels) = {}
  BY <1>1
<1> QED
  BY <1>1, <1>2, <1>3 DEF MadeInv, NeededInv, EarlyInv

(* Collecting stays within what is needed, placing makes the earliest level,*)
(* and in an acyclic graph the sort ends with all tasks placed.             *)
LEMMA MadeKeeps ==
    ASSUME SortInv, MadeInv, ~Cyclic(needs), Sort!Next
    PROVE  MadeInv'
<1>1. ASSUME NEW t \in Node, Sort!Collect(t) PROVE MadeInv'
  <2>1. /\ phase = "collect" /\ t \in work /\ needed' = needed \cup {t}
        /\ work' = (work \ {t}) \cup (needs[t] \ needed')
        /\ UNCHANGED <<needs, targets, phase, levels>>
    BY <1>1 DEF Sort!Collect
  <2>2. /\ needs \in [Node -> SUBSET Node] /\ targets \in SUBSET Node /\ levels = <<>>
    BY <2>1 DEF SortInv, SortTypes, MadeInv, NeededInv
  <2>3. Closed(needs, NeededBy(needs, targets))
    BY <2>2, NeededLeast, NodeAssumption
  <2>4. NeededInv'
    BY <2>1, <2>3 DEF MadeInv, NeededInv, Closed
  <2>5. EarlyInv'
    <3>1. Len(levels') = 0
      BY <2>1, <2>2
    <3>2. 1 .. Len(levels') = {}
      BY <3>1
    <3> QED
      BY <3>2 DEF EarlyInv
  <2> QED
    BY <2>1, <2>4, <2>5 DEF MadeInv
<1>2. CASE Sort!StartSort
  <2>1. UNCHANGED <<needs, targets, work, needed, levels>> /\ work = {}
    BY <1>2 DEF Sort!StartSort
  <2>2. ~Sort!Cyclic(Sort!sub)
    BY <2>1, SortAcyclic DEF SortInv
  <2>3. phase' = "sort"
    BY <1>2, <2>2 DEF Sort!StartSort
  <2> QED
    BY <2>1, <2>3, EarlySame DEF MadeInv, NeededInv
<1>3. CASE Sort!PlaceLevel
  <2>1. UNCHANGED <<needs, targets, work, needed, phase>> /\ phase = "sort"
    BY <1>3 DEF Sort!PlaceLevel
  <2> QED
    BY <1>3, <2>1, PlaceEarly DEF MadeInv, NeededInv
<1>4. CASE Sort!FinishSort
  <2>1. /\ UNCHANGED <<needs, targets, work, needed, levels>> /\ phase = "sort" /\ queue = {}
    BY <1>4 DEF Sort!FinishSort
  <2>2. phase' = "planned"
    <3>1. Sort!Placed = needed
      BY <2>1, AllPlaced
    <3> QED
      BY <1>4, <3>1 DEF Sort!FinishSort
  <2>3. levels = Sort!PlanFor(needs, targets)
    BY <2>1, LevelsAreEarliest DEF MadeInv
  <2>4. Sort!PlanFor(needs, targets)' = Sort!PlanFor(needs, targets)
    BY <2>1
  <2> QED
    BY <2>1, <2>2, <2>3, <2>4, EarlySame DEF MadeInv, NeededInv
<1> QED
  BY <1>1, <1>2, <1>3, <1>4 DEF Sort!Next

(* The search does not touch what the sort has made.                        *)
LEMMA MadeSame ==
    ASSUME MadeInv, UNCHANGED <<needs, sortvars>>
    PROVE  MadeInv'
<1>1. UNCHANGED <<needs, targets, work, needed, levels, phase>>
  OBVIOUS
<1>2. Sort!PlanFor(needs, targets)' = Sort!PlanFor(needs, targets)
  BY <1>1
<1> QED
  BY <1>1, <1>2, EarlySame DEF MadeInv, NeededInv

(* What the search has found out, beyond SearchInv.                         *)
SearchMore == CycleInv /\ ParentInv /\ path \in Seq(Node) /\ PathIsSimpleCycle

(* The inductive invariant of the search and the sort.                      *)
WholeInv == SearchInv /\ SortInv /\ SearchMore /\ MadeInv

(* Search and sort keep the invariant, for every finite graph and all       *)
(* targets.  The sort runs only on a graph the search let pass, so that its *)
(* own check for a cycle never fires (toposort.go 35, 84).                  *)
THEOREM Whole == PlanSpec => []WholeInv
<1>1. PlanInit => SearchMore /\ MadeInv
  <2> SUFFICES ASSUME PlanInit PROVE SearchMore /\ MadeInv
    OBVIOUS
  <2>1. MadeInv
    BY MadeInit DEF PlanInit
  <2>2. Init /\ Len(stack) = 0 /\ 1 .. Len(stack) = {}
    BY DEF PlanInit, Init
  <2>3. CycleInv /\ path \in Seq(Node) /\ PathIsSimpleCycle
    <3>1. path = <<>> /\ found = FALSE /\ \A t \in Node : color[t] = white
      BY <2>2 DEF Init
    <3>2. path \in Seq(Node)
      BY <3>1
    <3>3. found \in BOOLEAN /\ ~found
      BY <3>1, Zenon
    <3>4. \A t \in Node : color[t] # black
      BY <3>1 DEF white, black
    <3> QED
      BY <3>2, <3>3, <3>4 DEF CycleInv, PathIsSimpleCycle
  <2>4. ParentInv
    BY <2>2 DEF Init, ParentInv
  <2> QED
    BY <2>1, <2>3, <2>4 DEF SearchMore
<1>2. SearchInv /\ SortInv /\ SearchMore /\ MadeInv /\ [Detect \/ PlanTargets]_<<vars, sortvars>>
          => (SearchMore /\ MadeInv)'
  <2> SUFFICES ASSUME SearchInv, SortInv, SearchMore, MadeInv,
                      [Detect \/ PlanTargets]_<<vars, sortvars>>
               PROVE  SearchMore' /\ MadeInv'
    OBVIOUS
  <2>1. [Next]_vars => SearchMore'
    <3> SUFFICES ASSUME [Next]_vars PROVE SearchMore'
      OBVIOUS
    <3>1. CycleInv'
      BY CycleKeeps DEF SearchMore
    <3>2. ParentInv'
      BY ParentKeeps DEF SearchMore
    <3>3. path' \in Seq(Node) /\ PathIsSimpleCycle'
      BY PathKeeps DEF SearchMore
    <3> QED
      BY <3>1, <3>2, <3>3 DEF SearchMore
  <2>2. CASE Detect
    <3>1. [Next]_vars /\ UNCHANGED <<needs, sortvars>>
      BY <2>2 DEF Detect, Next, VisitRoot, VisitDependency, Finish
    <3> QED
      BY <2>1, <3>1, MadeSame
  <2>3. CASE PlanTargets
    <3>1. Sort!Next /\ needs' = needs /\ Returned /\ ~found
      BY <2>3 DEF PlanTargets, Sort!Next, Sort!Collect, Sort!StartSort, Sort!PlaceLevel,
                  Sort!FinishSort
    <3>2. UNCHANGED vars
      BY <2>3, <3>1 DEF PlanTargets
    <3>3. ~Cyclic(needs)
      BY <3>1, ReturnedExact DEF SearchMore, DetectsExactlyCycles
    <3> QED
      BY <2>1, <3>1, <3>2, <3>3, MadeKeeps
  <2>4. CASE UNCHANGED <<vars, sortvars>>
    BY <2>1, <2>4, MadeSame
  <2> QED
    BY <2>2, <2>3, <2>4
<1> QED
  BY <1>1, <1>2, Invariance, PTL DEF PlanSpec, WholeInv

(* The variables of DetectCycle and TopoSort keep their types               *)
(* (cycle.go 38-39, toposort.go 46-61, 99-110).                             *)
THEOREM TypesHold == PlanSpec => []PlanTypeOK
<1>1. WholeInv => PlanTypeOK
  <2> SUFFICES ASSUME WholeInv PROVE PlanTypeOK
    OBVIOUS
  <2>1. TypeOK
    BY DEF WholeInv, SearchInv, SearchTypes, SearchMore, CycleInv, ParentInv, TypeOK, Graphs, Calls
  <2>2. Sort!TypeOK
    BY DEF WholeInv, SortInv, SortTypes, MadeInv, NeededInv, Sort!TypeOK, Sort!Graphs
  <2> QED
    BY <2>1, <2>2 DEF PlanTypeOK
<1> QED
  BY <1>1, Whole, PTL

(* When DetectCycle returns, it returns a cycle exactly if there is one     *)
(* (cycle.go 29-31): the finished nodes are on none, and an edge to a gray  *)
(* node closes one.                                                         *)
THEOREM DetectionExact == PlanSpec => []DetectsExactlyCycles
<1>1. WholeInv => DetectsExactlyCycles
  BY ReturnedExact DEF WholeInv, SearchMore
<1> QED
  BY <1>1, Whole, PTL

(* The path of the error is a cycle of the graph without a repeated task    *)
(* (cycle.go 46-53), but for a task that depends on itself, which is listed *)
(* twice.                                                                   *)
THEOREM PathSimple == PlanSpec => []PathIsSimpleCycle
<1>1. WholeInv => PathIsSimpleCycle
  BY DEF WholeInv, SearchMore
<1> QED
  BY <1>1, Whole, PTL

(* The levels are the plan for the targets, each task as early as its       *)
(* dependencies allow, and the sort never reports a cycle that DetectCycle  *)
(* let pass (toposort.go 84-88, 93-118; scheduler.go 156, 245).             *)
THEOREM EarliestPlan == PlanSpec => []PlanIsEarliest
<1>1. WholeInv => PlanIsEarliest
  BY DEF WholeInv, MadeInv, PlanIsEarliest, Sort!PlanIsEarliest
<1> QED
  BY <1>1, Whole, PTL

--------------------------------------------------------------------------------
(* Both of them end.                                                        *)

(* B is a proper part of A.                                                 *)
Shrinks(A, B) == B \subseteq A /\ B # A

(* The nodes of a colour.                                                   *)
Colored(c) == {t \in Node : color[t] = c}

(* What a step of the search uses up, in this order: the nodes not seen,    *)
(* the nodes being visited, the list of the innermost call.                 *)
SearchProgress ==
    \/ ~found /\ found'
    \/ Shrinks(Colored(white), Colored(white)')
    \/ Colored(white)' = Colored(white) /\ Shrinks(Colored(gray), Colored(gray)')
    \/ /\ UNCHANGED color
       /\ stack # <<>> /\ stack' # <<>> /\ Shrinks(Head(stack).todo, Head(stack').todo)

(* What a step of the sort uses up: the phases, then the tasks not found    *)
(* and the worklist, or the tasks not placed.                               *)
SortProgress ==
    \/ phase = "collect" /\ phase' = "sort"
    \/ phase = "sort" /\ phase' = "planned"
    \/ /\ phase = "collect" /\ UNCHANGED phase
       /\ \/ Shrinks(Node \ needed, Node \ needed')
          \/ UNCHANGED needed /\ Shrinks(work, work')
    \/ /\ phase = "sort" /\ UNCHANGED <<phase, needed>>
       /\ Shrinks(needed \ Sort!Placed, needed \ Sort!Placed')

(* Every step of the search uses something up.                              *)
LEMMA SearchGoesOn ==
    ASSUME SearchInv, Next
    PROVE  SearchProgress
<1>0. color \in [Node -> {white, gray, black}] /\ stack \in Seq(Calls)
  BY DEF SearchInv, SearchTypes
<1>1. ASSUME NEW t \in Node, color[t] = white, color' = [color EXCEPT ![t] = gray]
      PROVE  Shrinks(Colored(white), Colored(white)')
  <2>1. t \in Colored(white) /\ t \notin Colored(white)'
    BY <1>0, <1>1 DEF Colored, white, gray
  <2>2. \A u \in Node : color'[u] = white => color[u] = white
    BY <1>0, <1>1 DEF white, gray
  <2> QED
    BY <2>1, <2>2 DEF Shrinks, Colored
<1>2. ASSUME NEW t \in Node, VisitRoot(t) PROVE SearchProgress
  BY <1>1, <1>2 DEF VisitRoot, SearchProgress
<1>3. ASSUME NEW d \in Node, VisitDependency(d) PROVE SearchProgress
  <2> DEFINE r == <<[Head(stack) EXCEPT !.todo = @ \ {d}]>> \o Tail(stack)
  <2>1. stack # <<>> /\ d \in Head(stack).todo /\ ~found
    BY <1>3 DEF VisitDependency
  <2>2. CASE found'
    BY <2>1, <2>2 DEF SearchProgress
  <2>3. CASE color[d] = white /\ color' = [color EXCEPT ![d] = gray]
    BY <1>1, <2>3 DEF SearchProgress
  <2>4. CASE stack' = r /\ UNCHANGED color
    <3> HIDE DEF r
    <3>1. /\ r \in Seq(Calls) /\ Len(r) = Len(stack) /\ Len(stack) \in Nat /\ Len(stack) >= 1
          /\ r[1].todo = stack[1].todo \ {d} /\ Head(stack) = stack[1]
      BY <2>1, TopKeeps DEF r
    <3>2. Head(r) = r[1] /\ r # <<>>
      BY ONLY <3>1
    <3>3. Shrinks(Head(stack).todo, Head(r).todo)
      BY <2>1, <3>1, <3>2 DEF Shrinks
    <3> QED
      BY <2>1, <2>4, <3>2, <3>3 DEF SearchProgress
  <2> QED
    BY <1>3, <2>2, <2>3, <2>4 DEF VisitDependency
<1>4. CASE Finish
  <2>1. stack # <<>> /\ color' = [color EXCEPT ![Head(stack).node] = black]
    BY <1>4 DEF Finish
  <2>2. Head(stack) = stack[1] /\ 1 \in 1 .. Len(stack)
    BY ONLY <1>0, <2>1
  <2> DEFINE x == stack[1].node
  <2>3. x \in Node /\ color[x] = gray /\ color' = [color EXCEPT ![x] = black]
    BY <2>1, <2>2, CallAt DEF SearchInv, CallsInv
  <2> HIDE DEF x
  <2>4. \A u \in Node : color'[u] = IF u = x THEN black ELSE color[u]
    BY <1>0, <2>3
  <2>5. Colored(white)' = Colored(white)
    BY <2>3, <2>4 DEF Colored, white, gray, black
  <2>6. Shrinks(Colored(gray), Colored(gray)')
    <3>1. x \in Colored(gray) /\ x \notin Colored(gray)'
      BY <2>3, <2>4 DEF Colored, gray, black
    <3>2. \A u \in Node : color'[u] = gray => color[u] = gray
      BY <2>3, <2>4
    <3> QED
      BY <3>1, <3>2 DEF Shrinks, Colored
  <2> QED
    BY <2>5, <2>6 DEF SearchProgress
<1> QED
  BY <1>2, <1>3, <1>4 DEF Next

(* Every step of the sort uses something up: a name read twice from the     *)
(* worklist is gone, a level is not empty.                                  *)
LEMMA SortGoesOn ==
    ASSUME SortInv, MadeInv, ~Cyclic(needs), Sort!Next
    PROVE  SortProgress
<1>0. /\ needs \in [Node -> SUBSET Node] /\ work \subseteq Node /\ needed \subseteq Node
      /\ SortTypes /\ ListInv
  BY DEF SortInv, SortTypes
<1>1. ASSUME NEW t \in Node, Sort!Collect(t) PROVE SortProgress
  <2>1. /\ phase = "collect" /\ t \in work /\ needed' = needed \cup {t} /\ phase' = phase
        /\ work' = (work \ {t}) \cup (needs[t] \ needed')
    BY <1>1 DEF Sort!Collect
  <2>2. CASE t \in needed
    <3>1. needed' = needed /\ needs[t] \ needed' \subseteq work
      BY <1>0, <2>1, <2>2 DEF ListInv
    <3>2. work' \subseteq work /\ t \notin work'
      BY <2>1, <2>2, <3>1
    <3> QED
      BY <2>1, <3>1, <3>2 DEF SortProgress, Shrinks
  <2>3. CASE t \notin needed
    <3>1. Shrinks(Node \ needed, Node \ needed')
      BY <2>1, <2>3 DEF Shrinks
    <3> QED
      BY <2>1, <3>1 DEF SortProgress
  <2> QED
    BY <2>2, <2>3
<1>2. CASE Sort!StartSort
  <2>1. phase = "collect" /\ work = {} /\ ~Sort!Cyclic(Sort!sub)
    BY <1>0, <1>2, SortAcyclic DEF Sort!StartSort
  <2> QED
    BY <1>2, <2>1 DEF Sort!StartSort, SortProgress
<1>3. CASE Sort!PlaceLevel
  <2>1. /\ phase = "sort" /\ UNCHANGED <<phase, needed>> /\ queue # {}
        /\ levels' = Append(levels, queue) /\ queue \subseteq needed
    BY <1>0, <1>3 DEF Sort!PlaceLevel, SortTypes
  <2>2. queue \cap Sort!Placed = {}
    BY <2>1 DEF SortInv, CountersExact, Sort!CountersExact
  <2>3. Sort!Placed' = Sort!Placed \cup queue
    BY <1>0, <2>1, PlacedAfter
  <2>4. Shrinks(needed \ Sort!Placed, needed \ Sort!Placed')
    BY <2>1, <2>2, <2>3 DEF Shrinks
  <2> QED
    BY <2>1, <2>4 DEF SortProgress
<1>4. CASE Sort!FinishSort
  <2>1. phase = "sort" /\ Sort!Placed = needed
    BY <1>4, AllPlaced DEF Sort!FinishSort
  <2> QED
    BY <1>4, <2>1 DEF Sort!FinishSort, SortProgress
<1> QED
  BY <1>1, <1>2, <1>3, <1>4 DEF Sort!Next

(* Every step of DetectCycle and TopoSort brings its end nearer, in the     *)
(* order of SearchProgress and SortProgress, which has no infinite descent  *)
(* on a finite graph: neither loops (cycle.go 42-75, toposort.go 62-82,     *)
(* 103-118).  That a step is possible until the end is left to PlanEnds.    *)
THEOREM Terminates ==
    PlanSpec => [][SearchProgress \/ SortProgress]_<<vars, sortvars>>
<1>1. WholeInv /\ [Detect \/ PlanTargets]_<<vars, sortvars>>
          => [SearchProgress \/ SortProgress]_<<vars, sortvars>>
  <2> SUFFICES ASSUME WholeInv, Detect \/ PlanTargets PROVE SearchProgress \/ SortProgress
    OBVIOUS
  <2>1. CASE Detect
    BY <2>1, SearchGoesOn DEF Detect, WholeInv
  <2>2. CASE PlanTargets
    <3>1. ~Cyclic(needs)
      BY <2>2, ReturnedExact DEF WholeInv, SearchMore, DetectsExactlyCycles, PlanTargets
    <3> QED
      BY <2>2, <3>1, SortGoesOn DEF PlanTargets, WholeInv
  <2> QED
    BY <2>1, <2>2
<1> QED
  BY <1>1, Whole, PTL DEF PlanSpec

--------------------------------------------------------------------------------
(* The operators of Dag are the same ones in PlanContract.                  *)
LEMMA SameInContract ==
    ASSUME NEW nd, NEW S
    PROVE  /\ Contract!Cyclic(nd) = Cyclic(nd)
           /\ Contract!PlanFor(nd, S) = Sort!PlanFor(nd, S)
<1>0. ASSUME NEW A PROVE Contract!Cardinality(A) = Cardinality(A)
  BY DEF Contract!Cardinality, Cardinality
<1>1. ASSUME NEW g, NEW A PROVE Contract!NeededBy(g, A) = NeededBy(g, A)
  BY <1>0, Zenon DEF NeededBy, Contract!NeededBy
<1>2. Contract!Cyclic(nd) = Cyclic(nd)
  BY <1>1, Zenon DEF Cyclic, Contract!Cyclic, OnCycle, Contract!OnCycle
<1>3. ASSUME NEW g PROVE Contract!LevelsOf(g) = LevelsOf(g)
  BY <1>0, Zenon DEF LevelsOf, Contract!LevelsOf
<1>4. ASSUME NEW g, NEW A PROVE Contract!Subgraph(g, A) = Subgraph(g, A)
  BY DEF Subgraph, Contract!Subgraph
<1> QED
  BY <1>1, <1>2, <1>3, <1>4, SameOperators, Zenon DEF Contract!PlanFor, Sort!PlanFor

(* A plan is there only when the search has let the graph pass.             *)
PassedInv == phase = "planned" => Returned /\ ~found

LEMMA PassedKeeps == PassedInv /\ [Detect \/ PlanTargets]_<<vars, sortvars>> => PassedInv'
<1> SUFFICES ASSUME PassedInv, [Detect \/ PlanTargets]_<<vars, sortvars>>
             PROVE  PassedInv'
  OBVIOUS
<1>1. CASE Detect
  BY <1>1 DEF Detect, PassedInv
<1>2. CASE PlanTargets
  BY <1>2 DEF PlanTargets, Returned, PassedInv
<1>3. CASE UNCHANGED <<vars, sortvars>>
  BY <1>3 DEF PassedInv, Returned
<1> QED
  BY <1>1, <1>2, <1>3

(* The search and the sort together do what PlanContract promises: one      *)
(* answer, a refusal exactly for a graph with a cycle, else the earliest    *)
(* plan for the targets (scheduler.go 156-158, 245-248; cycle.go 29-31,     *)
(* toposort.go 91-92).                                                      *)
THEOREM PlansAsPromised == PlanSpec => ImplementsContract
<1>1. PlanInit => Contract!Init
  BY DEF PlanInit, Init, Sort!Init, Graphs, Sort!Graphs, Contract!Init, Contract!Graphs
<1>2. WholeInv /\ PassedInv /\ WholeInv' /\ [Detect \/ PlanTargets]_<<vars, sortvars>>
          => [Contract!RefuseCycle \/ Contract!ReturnPlan]_(Contract!vars)
  <2> SUFFICES ASSUME WholeInv, PassedInv, WholeInv', [Detect \/ PlanTargets]_<<vars, sortvars>>
               PROVE  [Contract!RefuseCycle \/ Contract!ReturnPlan]_(Contract!vars)
    OBVIOUS
  <2>1. CASE Detect
    <3>1. UNCHANGED <<needs, sortvars>> /\ ~found /\ phase # "planned"
      BY <2>1 DEF Detect, PassedInv, Returned, Next, VisitRoot, VisitDependency, Finish
    <3>2. CASE ~found'
      BY <3>1, <3>2 DEF Contract!vars
    <3>3. CASE found'
      <4>1. Cyclic(needs)
        BY <3>1, <3>3 DEF WholeInv, SearchMore, CycleInv
      <4> QED
        BY <3>1, <3>3, <4>1, SameInContract DEF Contract!RefuseCycle
    <3> QED
      BY <3>2, <3>3
  <2>2. CASE PlanTargets
    <3>1. /\ Sort!Next /\ UNCHANGED <<needs, targets, found>> /\ Returned /\ ~found
      BY <2>2 DEF PlanTargets, Sort!Next, Sort!Collect, Sort!StartSort, Sort!PlaceLevel,
                  Sort!FinishSort
    <3>2. ~Cyclic(needs)
      BY <3>1, ReturnedExact DEF WholeInv, SearchMore, DetectsExactlyCycles
    <3>3. phase # "planned"
      BY <3>1 DEF Sort!Next, Sort!Collect, Sort!StartSort, Sort!PlaceLevel, Sort!FinishSort
    <3>4. CASE phase' # "planned"
      BY <3>1, <3>3, <3>4 DEF Contract!vars
    <3>5. CASE phase' = "planned"
      <4>1. levels' = Sort!PlanFor(needs', targets')
        BY <3>5 DEF WholeInv, MadeInv
      <4>2. levels' = Contract!PlanFor(needs, targets)
        BY <3>1, <4>1, SameInContract
      <4>3. ~Contract!Cyclic(needs)
        BY <3>2, SameInContract
      <4> QED
        BY <3>1, <3>3, <3>5, <4>2, <4>3 DEF Contract!ReturnPlan
    <3> QED
      BY <3>4, <3>5
  <2>3. CASE UNCHANGED <<vars, sortvars>>
    BY <2>3 DEF Contract!vars
  <2> QED
    BY <2>1, <2>2, <2>3
<1>3. PlanInit => PassedInv
  BY DEF PlanInit, Sort!Init, PassedInv
<1> QED
  BY <1>1, <1>2, <1>3, PassedKeeps, Whole, PTL DEF PlanSpec, ImplementsContract, Contract!Spec
================================================================================
