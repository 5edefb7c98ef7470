--------------------------- MODULE DispatchContract ----------------------------
(***************************************************************************)
(* What the scheduler may rely on when it dispatches tasks to the cluster, *)
(* without registry, channels, rows, events or retries: a task is executed *)
(* once at most, Execute answers once, a success or a failure is what the  *)
(* worker's execution ended in, and a task that was answered as not sent   *)
(* is never executed.  A dispatch that timed out or was cancelled may be   *)
(* executed all the same.  Module Cluster implements it.                   *)
(***************************************************************************)
CONSTANT Task

VARIABLES
    work,       \* "none", "begun" or how the execution of a task ended
    answer      \* "none" or what Execute has answered

vars == <<work, answer>>

Ends == {"success", "failed"}

Init ==
    /\ work = [t \in Task |-> "none"]
    /\ answer = [t \in Task |-> "none"]

Begin(t) ==
    /\ work[t] = "none" /\ answer[t] # "not sent"
    /\ work' = [work EXCEPT ![t] = "begun"]
    /\ UNCHANGED answer

End(t) ==
    /\ work[t] = "begun"
    /\ \E o \in Ends : work' = [work EXCEPT ![t] = o]
    /\ UNCHANGED answer

Answer(t, v) ==
    /\ answer[t] = "none"
    /\ v \in Ends => work[t] = v
    /\ v = "not sent" => work[t] = "none"
    /\ answer' = [answer EXCEPT ![t] = v]
    /\ UNCHANGED work

Answers == Ends \cup {"not sent", "timed out", "cancelled"}

Next == \E t \in Task : Begin(t) \/ End(t) \/ \E v \in Answers : Answer(t, v)

Spec == Init /\ [][Next]_vars
================================================================================
