------------------------------- MODULE TopoSort --------------------------------
(***************************************************************************)
(* dag.TopoSortFrom and dag.TopoSort (pkg/dagryn/dag/toposort.go): the     *)
(* worklist that collects the tasks needed for the targets, and Kahn's     *)
(* algorithm with in-degree counters over the subgraph of those tasks.     *)
(*                                                                         *)
(* Map iteration order is arbitrary in the code; the worklist is a set     *)
(* from which any element may come next.  The nodes of one level are       *)
(* interchangeable, so a level is a set.                                   *)
(***************************************************************************)
EXTENDS Dag, Integers

CONSTANT Node          \* the task names of the workflow, a finite set

VARIABLES
    needs,      \* the graph, built by BuildFromWorkflow
    targets,    \* the targets of this call
    phase,      \* "collect", "sort", "planned" or "cycle"
    work,       \* the queue of TopoSortFrom
    needed,     \* the tasks found so far
    inDegree,   \* Kahn's counters
    queue,      \* the nodes of the level being processed
    levels      \* plan.Levels

vars == <<needs, targets, phase, work, needed, inDegree, queue, levels>>

sub == Subgraph(needs, needed)

Placed == UNION {levels[i] : i \in DOMAIN levels}

Init ==
    /\ needs \in Graphs(Node)
    /\ targets \in SUBSET Node
    /\ phase = "collect"
    /\ work = targets
    /\ needed = {}
    /\ inDegree = [t \in Node |-> 0]
    /\ queue = {}
    /\ levels = <<>>

(* Faulty: only the direct dependencies of the targets are enqueued.        *)
Collect_OneStep(t) ==
    /\ phase = "collect"
    /\ t \in work
    /\ needed' = needed \cup {t}
    /\ work' = (work \ {t}) \cup (IF t \in targets THEN needs[t] \ needed' ELSE {})
    /\ UNCHANGED <<needs, targets, phase, inDegree, queue, levels>>

(* Faulty: the name that is looked at stays on the worklist.                *)
Collect_KeepsName(t) ==
    /\ phase = "collect"
    /\ t \in work
    /\ needed' = needed \cup {t}
    /\ work' = work \cup (needs[t] \ needed')
    /\ UNCHANGED <<needs, targets, phase, inDegree, queue, levels>>

(* Take one name off the worklist; if it is new, keep it and enqueue its   *)
(* dependencies that were not found yet.                                    *)
Collect(t) ==
    /\ phase = "collect"
    /\ t \in work
    /\ needed' = needed \cup {t}
    /\ work' = (work \ {t}) \cup (needs[t] \ needed')
    /\ UNCHANGED <<needs, targets, phase, inDegree, queue, levels>>

(* The worklist is empty: TopoSort runs on the subgraph.  It first asks    *)
(* DetectCycle, then sets the counters and the first level.                 *)
StartSort ==
    /\ phase = "collect"
    /\ work = {}
    /\ IF Cyclic(sub)
       THEN /\ phase' = "cycle"
            /\ UNCHANGED <<inDegree, queue>>
       ELSE /\ phase' = "sort"
            /\ inDegree' = [t \in Node |->
                               IF t \in needed THEN Cardinality(sub[t]) ELSE 0]
            /\ queue' = {t \in needed : inDegree'[t] = 0}
    /\ UNCHANGED <<needs, targets, work, needed, levels>>

(* Faulty: the next queue is appended to the current one.                   *)
PlaceLevel_KeepsQueue ==
    /\ phase = "sort"
    /\ queue # {}
    /\ levels' = Append(levels, queue)
    /\ inDegree' = [t \in Node |->
                       IF t \in needed
                       THEN inDegree[t] - Cardinality(sub[t] \cap queue)
                       ELSE inDegree[t]]
    /\ queue' = queue \cup {t \in needed : sub[t] \cap queue # {} /\ inDegree'[t] = 0}
    /\ UNCHANGED <<needs, targets, phase, work, needed>>

(* Faulty: a dependent is decremented once, however many of its             *)
(* dependencies are in the level.                                           *)
PlaceLevel_CountsOnce ==
    /\ phase = "sort"
    /\ queue # {}
    /\ levels' = Append(levels, queue)
    /\ inDegree' = [t \in Node |->
                       IF t \in needed /\ sub[t] \cap queue # {}
                       THEN inDegree[t] - 1 ELSE inDegree[t]]
    /\ queue' = {t \in needed : sub[t] \cap queue # {} /\ inDegree'[t] = 0}
    /\ UNCHANGED <<needs, targets, phase, work, needed>>

(* Faulty: a task is queued with one dependency still to be placed.         *)
PlaceLevel_OneEarly ==
    /\ phase = "sort"
    /\ queue # {}
    /\ levels' = Append(levels, queue)
    /\ inDegree' = [t \in Node |->
                       IF t \in needed
                       THEN inDegree[t] - Cardinality(sub[t] \cap queue)
                       ELSE inDegree[t]]
    /\ queue' = {t \in needed : sub[t] \cap queue # {} /\ inDegree'[t] <= 1}
    /\ UNCHANGED <<needs, targets, phase, work, needed>>

(* One turn of the loop over levels: the queue becomes a level, every      *)
(* dependent is decremented once per dependency in the queue, and those    *)
(* whose counter reaches zero are the next queue.                           *)
PlaceLevel ==
    /\ phase = "sort"
    /\ queue # {}
    /\ levels' = Append(levels, queue)
    /\ inDegree' = [t \in Node |->
                       IF t \in needed
                       THEN inDegree[t] - Cardinality(sub[t] \cap queue)
                       ELSE inDegree[t]]
    /\ queue' = {t \in needed : sub[t] \cap queue # {} /\ inDegree'[t] = 0}
    /\ UNCHANGED <<needs, targets, phase, work, needed>>

(* The loop is over: fewer processed nodes than the graph has is an error. *)
FinishSort ==
    /\ phase = "sort"
    /\ queue = {}
    /\ phase' = IF Cardinality(Placed) # Cardinality(needed)
                THEN "cycle" ELSE "planned"
    /\ UNCHANGED <<needs, targets, work, needed, inDegree, queue, levels>>

Next ==
    \/ \E t \in Node : Collect(t)
    \/ StartSort
    \/ PlaceLevel
    \/ FinishSort

Spec == Init /\ [][Next]_vars /\ WF_vars(Next)

--------------------------------------------------------------------------------
TypeOK ==
    /\ needs \in Graphs(Node)
    /\ targets \in SUBSET Node
    /\ phase \in {"collect", "sort", "planned", "cycle"}
    /\ work \in SUBSET Node
    /\ needed \in SUBSET Node
    /\ inDegree \in [Node -> Nat]
    /\ queue \in SUBSET Node
    /\ levels \in Seq(SUBSET Node)

(* What the worklist has found is closed under dependencies up to the      *)
(* names still waiting in it.                                               *)
WorklistCovers ==
    /\ targets \subseteq needed \cup work
    /\ \A t \in needed : needs[t] \subseteq needed \cup work

(* The counter of an unplaced task is the number of its dependencies that  *)
(* have not been placed in a level, and the queue holds exactly the tasks  *)
(* that became ready: no task is lost and none is queued twice.             *)
CountersExact ==
    phase = "sort" =>
        /\ \A t \in needed : inDegree[t] = Cardinality(sub[t] \ Placed)
        /\ queue = {t \in needed \ Placed : sub[t] \subseteq Placed}

(* Every dependency of a task lies in an earlier level than the task, and  *)
(* no task is in two levels: what lets the scheduler run a level in        *)
(* parallel (toposort.go:5-11).                                             *)
LevelsRespectNeeds == ValidPlan(needs, levels)

(* The plan holds the targets and everything they need and nothing else,   *)
(* each task as early as its dependencies allow; and a graph that passed   *)
(* DetectCycle never ends in the "graph contains a cycle" error.            *)
PlanIsEarliest ==
    /\ phase = "planned" => levels = PlanFor(needs, targets)
    /\ phase = "cycle" => Cyclic(Subgraph(needs, NeededBy(needs, targets)))

(* Sorting ends, for every graph.                                           *)
SortEnds == <>(phase \in {"planned", "cycle"})
================================================================================
