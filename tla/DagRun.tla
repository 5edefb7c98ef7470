-------------------------------- MODULE DagRun ---------------------------------
(***************************************************************************)
(* What a run of a task graph promises, without levels, slots, goroutines, *)
(* caches or counters: a task begins when all of its dependencies settled  *)
(* in a way that lets it, is blocked when one of them settled otherwise,   *)
(* and the run is over when nothing is active and every planned task has   *)
(* settled, unless the run was stopped.  module Scheduler implements it.   *)
(***************************************************************************)
EXTENDS Naturals, FiniteSets

CONSTANTS
    Task,       \* the tasks of the workflow
    Needs       \* Needs[t]: the dependencies of t

VARIABLES
    todo,       \* the tasks of the plan
    status,     \* "idle", "active" or how the task settled
    stopped,    \* the run was cancelled
    over        \* the run has returned its summary

vars == <<todo, status, stopped, over>>

Settled == {"passed", "failed", "blocked", "waived"}

Passes(s) == s \in {"passed", "waived"}

Init ==
    /\ todo \in SUBSET Task
    /\ status = [t \in Task |-> "idle"]
    /\ stopped = FALSE
    /\ over = FALSE

Settle(t, s) ==
    /\ status' = [status EXCEPT ![t] = s]
    /\ UNCHANGED <<todo, stopped, over>>

(* All dependencies let t run.                                              *)
Begin(t) ==
    /\ ~over /\ t \in todo /\ status[t] = "idle"
    /\ \A d \in Needs[t] : Passes(status[d])
    /\ Settle(t, "active")

(* They let it run, and its condition says it need not.                     *)
Waive(t) ==
    /\ ~over /\ t \in todo /\ status[t] = "idle"
    /\ \A d \in Needs[t] : Passes(status[d])
    /\ Settle(t, "waived")

(* A dependency failed or was itself blocked.                               *)
Block(t) ==
    /\ ~over /\ t \in todo /\ status[t] = "idle"
    /\ \E d \in Needs[t] : status[d] \in {"failed", "blocked"}
    /\ Settle(t, "blocked")

(* An active task ends; in a dry run it ends blocked, not executed.         *)
End(t) ==
    /\ ~over /\ status[t] = "active"
    /\ \E s \in {"passed", "failed", "blocked"} : Settle(t, s)

Stop ==
    /\ ~over /\ ~stopped
    /\ stopped' = TRUE
    /\ UNCHANGED <<todo, status, over>>

(* The run returns.  A run that never began also returns, with an error.   *)
Finish ==
    /\ ~over
    /\ \/ \A t \in todo : status[t] \in Settled
       \/ stopped /\ \A t \in todo : status[t] # "active"
       \/ \A t \in todo : status[t] = "idle"
    /\ over' = TRUE
    /\ UNCHANGED <<todo, status, stopped>>

Next ==
    \/ \E t \in Task : Begin(t) \/ Waive(t) \/ Block(t) \/ End(t)
    \/ Stop
    \/ Finish

Spec == Init /\ [][Next]_vars
================================================================================
