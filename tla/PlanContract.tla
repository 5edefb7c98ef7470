----------------------------- MODULE PlanContract ------------------------------
(***************************************************************************)
(* What scheduler.New and Run want of pkg/dagryn/dag, without colours,     *)
(* stacks, worklists or counters: one answer about a graph and its         *)
(* targets, a refusal if the graph has a cycle and else the earliest plan  *)
(* for what the targets need.  Module PlanGraph implements it.             *)
(***************************************************************************)
EXTENDS Dag

CONSTANT Node

VARIABLES
    needs,      \* the graph
    targets,    \* the targets of the run
    verdict,    \* "pending", "cycle" or "plan"
    plan        \* the plan, <<>> until there is one

vars == <<needs, targets, verdict, plan>>

Init ==
    /\ needs \in Graphs(Node)
    /\ targets \in SUBSET Node
    /\ verdict = "pending"
    /\ plan = <<>>

RefuseCycle ==
    /\ verdict = "pending"
    /\ Cyclic(needs)
    /\ verdict' = "cycle"
    /\ UNCHANGED <<needs, targets, plan>>

ReturnPlan ==
    /\ verdict = "pending"
    /\ ~Cyclic(needs)
    /\ verdict' = "plan"
    /\ plan' = PlanFor(needs, targets)
    /\ UNCHANGED <<needs, targets>>

Spec == Init /\ [][RefuseCycle \/ ReturnPlan]_vars
================================================================================
