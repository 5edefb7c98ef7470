------------------------------- MODULE PlanGraph -------------------------------
(***************************************************************************)
(* How a plan comes about (scheduler.New and Run, and the same calls in    *)
(* the server's ExecuteRun): DetectCycle searches the whole graph, and     *)
(* only if it finds none does TopoSortFrom plan the tasks for the targets. *)
(* The search is CycleDetect and the planning TopoSort, on the same graph. *)
(***************************************************************************)
EXTENDS CycleDetect

VARIABLES targets, phase, work, needed, inDegree, queue, levels

ASSUME NodeAssumption == IsFiniteSet(Node)

Sort == INSTANCE TopoSort

sortvars == <<targets, phase, work, needed, inDegree, queue, levels>>

PlanInit == Init /\ Sort!Init

Detect == ~Returned /\ Next /\ UNCHANGED sortvars

(* Planning begins when the search has returned without a cycle.            *)
PlanTargets ==
    /\ Returned /\ ~found
    /\ Sort!Next
    /\ UNCHANGED <<color, parent, stack, path, found>>

PlanSpec ==
    /\ PlanInit
    /\ [][Detect \/ PlanTargets]_<<vars, sortvars>>
    /\ WF_<<vars, sortvars>>(Detect \/ PlanTargets)

--------------------------------------------------------------------------------
(* The variables of both algorithms have their types.                       *)
PlanTypeOK == TypeOK /\ Sort!TypeOK

(* The counter of an unplaced task is the number of its dependencies that  *)
(* have not been placed in a level, and the queue holds exactly the tasks  *)
(* that became ready: none is lost or queued twice (toposort.go 52-101).   *)
CountersExact == Sort!CountersExact

(* Every dependency of a task lies in an earlier level than the task, and  *)
(* no task is in two levels: what lets the scheduler run a level in        *)
(* parallel (toposort.go 5-11).                                             *)
LevelsRespectNeeds == Sort!LevelsRespectNeeds

(* The plan holds the targets and everything they need and nothing else,   *)
(* each task as early as its dependencies allow; and no graph that passed  *)
(* DetectCycle is refused for a cycle by the sort (scheduler.go 156, 245). *)
PlanIsEarliest == Sort!PlanIsEarliest /\ phase # "cycle"

(* The whole of it answers once, as PlanContract says: found is the refusal *)
(* that New returns, and the levels are the plan once the sort has returned *)
(* (scheduler.go 156-158, 245-248).                                         *)
Contract == INSTANCE PlanContract WITH
                verdict <- IF found THEN "cycle"
                           ELSE IF phase = "planned" THEN "plan" ELSE "pending",
                plan    <- IF phase = "planned" THEN levels ELSE <<>>

ImplementsContract == Contract!Spec

(* For every graph and all targets the search and the sort end, with a     *)
(* cycle or with a plan.                                                    *)
PlanEnds == <>(found \/ phase = "planned")
================================================================================
