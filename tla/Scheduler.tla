------------------------------- MODULE Scheduler -------------------------------
(***************************************************************************)
(* scheduler.Run and executeTask (pkg/dagryn/scheduler/scheduler.go): the  *)
(* levels of a plan run one after the other; within a level one goroutine  *)
(* per task competes for a slot, checks the results of its dependencies,   *)
(* its condition and the cache, executes, and sends its result to the      *)
(* collector.  A failure in fail-fast mode, or the caller, cancels the     *)
(* context.  Cache saves run in the background and outlive Run.            *)
(*                                                                         *)
(* Abstracted: the text of outputs and errors, plugin paths, containers    *)
(* (they decide how a command runs, not which outcomes it can have) and    *)
(* composite plugin set-up, which is module CompositeSetup.                *)
(***************************************************************************)
EXTENDS Naturals, FiniteSets, Sequences

CONSTANTS
    Task,           \* the tasks of the workflow
    Needs,          \* Needs[t]: the dependencies of t
    Plans,          \* the plans TopoSortFrom returns for sets of targets
    Options,        \* the options [failFast, dryRun, parallelism] of a run
    Kind,           \* Kind[t]: "command", "composite" or "remote"
    Conditional,    \* the tasks with an If condition
    Cacheable       \* the tasks whose cache check yields a key

ASSUME NeedsAssumption == Needs \in [Task -> SUBSET Task]

ASSUME PlansAssumption ==
    \A p \in Plans :
        /\ p \in Seq(SUBSET Task)
        /\ \A i, j \in DOMAIN p : i # j => p[i] \cap p[j] = {}
        /\ \A i \in DOMAIN p : \A t \in p[i] : \A d \in Needs[t] :
               \E j \in 1 .. (i - 1) : d \in p[j]

ASSUME OptionsAssumption ==
    /\ Options \subseteq [failFast : BOOLEAN, dryRun : BOOLEAN,
                          parallelism : Nat \ {0}]
    /\ Kind \in [Task -> {"command", "composite", "remote"}]
    /\ Conditional \subseteq Task
    /\ Cacheable \subseteq Task

VARIABLES
    plan,       \* plan.Levels, fixed when Run starts
    opts,       \* the options, fixed when Run starts
    main,       \* where Run is
    level,      \* number of levels started
    pc,         \* where the goroutine of a task is
    sem,        \* slots taken in the semaphore channel
    outcome,    \* the result a goroutine has produced
    channel,    \* levelResults: results sent and not collected
    recorded,   \* states and summary.Results: what the collector has seen
    cacheHits,  \* summary.CacheHits
    failures,   \* summary.Failures
    cancelledBy,\* who cancelled the context first
    started,    \* tasks reported to onTaskStart
    completed,  \* tasks reported to onTaskComplete
    store,      \* tasks with a valid entry in the cache
    saving,     \* cache saves in flight, counted by cacheSaveWg
    hook        \* the end-of-run hook whose command was started

conf     == <<plan, opts>>
summary  == <<recorded, cacheHits, failures>>
calls    == <<started, completed>>
cacheSt  == <<store, saving>>
vars     == <<plan, opts, main, level, pc, sem, outcome, channel, recorded,
              cacheHits, failures, cancelledBy, started, completed, store,
              saving, hook>>

(* executor.Status, with "waived" for a Skipped result whose taskState is  *)
(* marked conditionSkipped.                                                 *)
Outcome == {"success", "failed", "cached", "skipped", "waived", "timedout",
            "cancelled"}

IsSuccess(o) == o \in {"success", "cached"}

(* A dependency with such a result keeps its dependents from running.       *)
Blocks(o) == o \in Outcome /\ ~IsSuccess(o) /\ o # "waived"

(* A result counted in summary.Failures; in fail-fast mode it cancels.      *)
IsFailure(o) == o \in Outcome /\ ~IsSuccess(o) /\ o \notin {"skipped", "waived"}

Cancelled == cancelledBy # "nobody"

(* The results the executor of t can return.  A command is only reported   *)
(* as cancelled when the context is; a composite task has no such result.  *)
ExecutionOutcomes(t) ==
    LET real == Kind[t] = "remote" \/ ~opts.dryRun
    IN  {o \in Outcome :
            \/ o \in {"success", "failed"} /\ real
            \/ o = "timedout" /\ real /\ Kind[t] = "command"
            \/ o = "cancelled" /\ real /\ Kind[t] # "composite" /\ Cancelled
            \/ o = "skipped" /\ ~real}

SavesTo(t, o) ==
    o = "success" /\ t \in Cacheable /\ Kind[t] # "remote"

Init ==
    /\ plan \in Plans
    /\ opts \in Options
    /\ main = "starting"
    /\ level = 0
    /\ pc = [t \in Task |-> "idle"]
    /\ sem = 0
    /\ outcome = [t \in Task |-> "none"]
    /\ channel = <<>>
    /\ recorded = [t \in Task |-> "none"]
    /\ cacheHits = 0
    /\ failures = 0
    /\ cancelledBy = "nobody"
    /\ started = {}
    /\ completed = {}
    /\ store \in SUBSET Cacheable
    /\ saving = {}
    /\ hook = "none"

--------------------------------------------------------------------------------
(* The goroutine of Run.                                                    *)

(* An empty plan returns at once; a plugin that cannot be installed makes  *)
(* Run return an error; otherwise the loop over levels begins.              *)
BeginRun ==
    /\ main = "starting"
    /\ \/ plan = <<>> /\ main' = "returned"
       \/ plan # <<>> /\ ~opts.dryRun /\ main' = "error"
       \/ plan # <<>> /\ main' = "between"
    /\ UNCHANGED <<conf, level, pc, sem, outcome, channel, summary, cancelledBy,
                   calls, cacheSt, hook>>

(* The next level: its goroutines are created.                              *)
StartLevel ==
    /\ main = "between"
    /\ ~Cancelled
    /\ level < Len(plan)
    /\ level' = level + 1
    /\ pc' = [t \in Task |-> IF t \in plan[level + 1] THEN "acquiring" ELSE pc[t]]
    /\ main' = "collecting"
    /\ UNCHANGED <<conf, sem, outcome, channel, summary, cancelledBy, calls,
                   cacheSt, hook>>

(* Faulty: only the status Failed is counted as a failure.                  *)
Collect_OnlyFailed ==
    /\ main = "collecting"
    /\ channel # <<>>
    /\ LET t == Head(channel)
       IN  /\ recorded' = [recorded EXCEPT ![t] = outcome[t]]
           /\ cacheHits' = cacheHits + (IF outcome[t] = "cached" THEN 1 ELSE 0)
           /\ failures' = failures + (IF outcome[t] = "failed" THEN 1 ELSE 0)
    /\ channel' = Tail(channel)
    /\ UNCHANGED <<conf, main, level, pc, sem, outcome, cancelledBy, calls,
                   cacheSt, hook>>

(* Faulty: a success is counted as a cache hit when the cache holds it.     *)
Collect_AnyStored ==
    /\ main = "collecting"
    /\ channel # <<>>
    /\ LET t == Head(channel)
       IN  /\ recorded' = [recorded EXCEPT ![t] = outcome[t]]
           /\ cacheHits' = cacheHits +
                  (IF IsSuccess(outcome[t]) /\ t \in store THEN 1 ELSE 0)
           /\ failures' = failures + (IF IsFailure(outcome[t]) THEN 1 ELSE 0)
    /\ channel' = Tail(channel)
    /\ UNCHANGED <<conf, main, level, pc, sem, outcome, cancelledBy, calls,
                   cacheSt, hook>>

(* The collector takes one result off levelResults and counts it.           *)
Collect ==
    /\ main = "collecting"
    /\ channel # <<>>
    /\ LET t == Head(channel)
       IN  /\ recorded' = [recorded EXCEPT ![t] = outcome[t]]
           /\ cacheHits' = cacheHits + (IF outcome[t] = "cached" THEN 1 ELSE 0)
           /\ failures' = failures + (IF IsFailure(outcome[t]) THEN 1 ELSE 0)
    /\ channel' = Tail(channel)
    /\ UNCHANGED <<conf, main, level, pc, sem, outcome, cancelledBy, calls,
                   cacheSt, hook>>

(* Faulty: the level ends although results are still in the channel.        *)
CloseLevel_Undrained ==
    /\ main = "collecting"
    /\ \A t \in plan[level] : pc[t] = "done"
    /\ main' = "between"
    /\ UNCHANGED <<conf, level, pc, sem, outcome, channel, summary, cancelledBy,
                   calls, cacheSt, hook>>

(* Faulty: the level ends when the context does, without its goroutines.    *)
CloseLevel_OnCancel ==
    /\ main = "collecting"
    /\ channel = <<>>
    /\ Cancelled \/ \A t \in plan[level] : pc[t] = "done"
    /\ main' = "between"
    /\ UNCHANGED <<conf, level, pc, sem, outcome, channel, summary, cancelledBy,
                   calls, cacheSt, hook>>

(* All goroutines of the level are done and the channel is drained: it is  *)
(* closed and the collector's loop ends.                                    *)
CloseLevel ==
    /\ main = "collecting"
    /\ channel = <<>>
    /\ \A t \in plan[level] : pc[t] = "done"
    /\ main' = "between"
    /\ UNCHANGED <<conf, level, pc, sem, outcome, channel, summary, cancelledBy,
                   calls, cacheSt, hook>>

(* The loop ends after the last level or when the context is cancelled.     *)
EndLevels ==
    /\ main = "between"
    /\ Cancelled \/ level = Len(plan)
    /\ main' = "ending"
    /\ UNCHANGED <<conf, level, pc, sem, outcome, channel, summary, cancelledBy,
                   calls, cacheSt, hook>>

(* on_run_failure or on_run_success is dispatched with Run's own context;  *)
(* exec.CommandContext refuses to start a command when that is cancelled,  *)
(* and a dry run has registered no plugin with a hook.                      *)
DispatchEndHook ==
    /\ main = "ending"
    /\ hook' = IF Cancelled \/ opts.dryRun THEN "none"
               ELSE IF failures > 0 THEN "failure" ELSE "success"
    /\ main' = "returned"
    /\ UNCHANGED <<conf, level, pc, sem, outcome, channel, summary, cancelledBy,
                   calls, cacheSt>>

(* The caller waits for the background saves before it exits.               *)
WaitCacheSaves ==
    /\ main \in {"returned", "error"}
    /\ saving = {}
    /\ main' = "exited"
    /\ UNCHANGED <<conf, level, pc, sem, outcome, channel, summary, cancelledBy,
                   calls, cacheSt, hook>>

--------------------------------------------------------------------------------
(* The goroutine of task t.                                                 *)

Acquire(t) ==
    /\ pc[t] = "acquiring"
    /\ sem < opts.parallelism
    /\ sem' = sem + 1
    /\ pc' = [pc EXCEPT ![t] = "checking"]
    /\ UNCHANGED <<conf, main, level, outcome, channel, summary, cancelledBy,
                   calls, cacheSt, hook>>

(* Faulty: the deferred release is registered before the select.            *)
Abandon_Releases(t) ==
    /\ pc[t] = "acquiring"
    /\ Cancelled
    /\ sem' = sem - 1
    /\ pc' = [pc EXCEPT ![t] = "done"]
    /\ UNCHANGED <<conf, main, level, outcome, channel, summary, cancelledBy,
                   calls, cacheSt, hook>>

(* The other branch of the select: the goroutine returns without a result. *)
Abandon(t) ==
    /\ pc[t] = "acquiring"
    /\ Cancelled
    /\ pc' = [pc EXCEPT ![t] = "done"]
    /\ UNCHANGED <<conf, main, level, sem, outcome, channel, summary,
                   cancelledBy, calls, cacheSt, hook>>

(* Faulty: a skipped dependency does not block.                             *)
NeedsBlocked_OnlyFailures(t) == \E d \in Needs[t] : IsFailure(recorded[d])

NeedsBlocked(t) == \E d \in Needs[t] : Blocks(recorded[d])

(* Faulty: the early return comes before the callback.                      *)
SkipOnNeed_Silent(t) ==
    /\ pc[t] = "checking"
    /\ NeedsBlocked(t)
    /\ outcome' = [outcome EXCEPT ![t] = "skipped"]
    /\ pc' = [pc EXCEPT ![t] = "settled"]
    /\ UNCHANGED <<conf, main, level, sem, channel, summary, cancelledBy,
                   calls, cacheSt, hook>>

(* A dependency has a blocking result: skipped, reported as completed but  *)
(* never as started.                                                        *)
SkipOnNeed(t) ==
    /\ pc[t] = "checking"
    /\ NeedsBlocked(t)
    /\ outcome' = [outcome EXCEPT ![t] = "skipped"]
    /\ completed' = completed \cup {t}
    /\ pc' = [pc EXCEPT ![t] = "settled"]
    /\ UNCHANGED <<conf, main, level, sem, channel, summary, cancelledBy,
                   started, cacheSt, hook>>

(* The condition evaluates to false.                                        *)
SkipOnCondition(t) ==
    /\ pc[t] = "checking"
    /\ ~NeedsBlocked(t)
    /\ t \in Conditional
    /\ outcome' = [outcome EXCEPT ![t] = "waived"]
    /\ started' = started \cup {t}
    /\ completed' = completed \cup {t}
    /\ pc' = [pc EXCEPT ![t] = "settled"]
    /\ UNCHANGED <<conf, main, level, sem, channel, summary, cancelledBy,
                   cacheSt, hook>>

(* Faulty: the results of the dependencies are not looked at.               *)
Start_Unchecked(t) ==
    /\ pc[t] = "checking"
    /\ started' = started \cup {t}
    /\ pc' = [pc EXCEPT ![t] = "started"]
    /\ UNCHANGED <<conf, main, level, sem, outcome, channel, summary,
                   cancelledBy, completed, cacheSt, hook>>

(* No condition, a true one, or one that fails to evaluate.                 *)
Start(t) ==
    /\ pc[t] = "checking"
    /\ ~NeedsBlocked(t)
    /\ started' = started \cup {t}
    /\ pc' = [pc EXCEPT ![t] = "started"]
    /\ UNCHANGED <<conf, main, level, sem, outcome, channel, summary,
                   cancelledBy, completed, cacheSt, hook>>

(* A cache hit whose restore succeeds.                                      *)
RestoreFromCache(t) ==
    /\ pc[t] = "started"
    /\ t \in Cacheable \cap store
    /\ outcome' = [outcome EXCEPT ![t] = "cached"]
    /\ completed' = completed \cup {t}
    /\ pc' = [pc EXCEPT ![t] = "settled"]
    /\ UNCHANGED <<conf, main, level, sem, channel, summary, cancelledBy,
                   started, cacheSt, hook>>

(* No key, a miss, a failed check, or a hit whose restore fails.            *)
MissCache(t) ==
    /\ pc[t] = "started"
    /\ pc' = [pc EXCEPT ![t] = "executing"]
    /\ UNCHANGED <<conf, main, level, sem, outcome, channel, summary,
                   cancelledBy, calls, cacheSt, hook>>

(* Execution ends: on success a cache save is spawned, then the completion *)
(* is reported.                                                             *)
Execute(t) ==
    /\ pc[t] = "executing"
    /\ \E o \in ExecutionOutcomes(t) :
           /\ outcome' = [outcome EXCEPT ![t] = o]
           /\ saving' = IF SavesTo(t, o) THEN saving \cup {t} ELSE saving
    /\ completed' = completed \cup {t}
    /\ pc' = [pc EXCEPT ![t] = "settled"]
    /\ UNCHANGED <<conf, main, level, sem, channel, summary, cancelledBy,
                   started, store, hook>>

(* The result goes to the collector.                                        *)
Send(t) ==
    /\ pc[t] = "settled"
    /\ channel' = Append(channel, t)
    /\ pc' = [pc EXCEPT ![t] = "sent"]
    /\ UNCHANGED <<conf, main, level, sem, outcome, summary, cancelledBy, calls,
                   cacheSt, hook>>

(* Faulty: a failure returns before the slot is given back.                 *)
Leave_KeepsSlot(t) ==
    /\ pc[t] = "sent"
    /\ cancelledBy' = IF opts.failFast /\ IsFailure(outcome[t]) /\ ~Cancelled
                      THEN "failure" ELSE cancelledBy
    /\ sem' = IF IsFailure(outcome[t]) THEN sem ELSE sem - 1
    /\ pc' = [pc EXCEPT ![t] = "done"]
    /\ UNCHANGED <<conf, main, level, outcome, channel, summary, calls,
                   cacheSt, hook>>

(* Faulty: whatever is not a success stops a fail-fast run.                 *)
Leave_CancelsOnSkip(t) ==
    /\ pc[t] = "sent"
    /\ cancelledBy' = IF opts.failFast /\ ~IsSuccess(outcome[t]) /\ ~Cancelled
                      THEN "failure" ELSE cancelledBy
    /\ sem' = sem - 1
    /\ pc' = [pc EXCEPT ![t] = "done"]
    /\ UNCHANGED <<conf, main, level, outcome, channel, summary, calls,
                   cacheSt, hook>>

(* The goroutine cancels the run on a failure in fail-fast mode, then its  *)
(* deferred calls give the slot back and count it as done.                  *)
Leave(t) ==
    /\ pc[t] = "sent"
    /\ cancelledBy' = IF opts.failFast /\ IsFailure(outcome[t]) /\ ~Cancelled
                      THEN "failure" ELSE cancelledBy
    /\ sem' = sem - 1
    /\ pc' = [pc EXCEPT ![t] = "done"]
    /\ UNCHANGED <<conf, main, level, outcome, channel, summary, calls,
                   cacheSt, hook>>

--------------------------------------------------------------------------------
(* The background save of t, with a context of its own, ends well or not.  *)
FinishSave(t) ==
    /\ t \in saving
    /\ saving' = saving \ {t}
    /\ store' \in {store, store \cup {t}}
    /\ UNCHANGED <<conf, main, level, pc, sem, outcome, channel, summary,
                   cancelledBy, calls, hook>>

(* Ctrl-C, a remote cancellation or a shutdown cancels the caller's context. *)
CancelByCaller ==
    /\ main \notin {"returned", "error", "exited"}
    /\ ~Cancelled
    /\ cancelledBy' = "caller"
    /\ UNCHANGED <<conf, main, level, pc, sem, outcome, channel, summary, calls,
                   cacheSt, hook>>

MainStep ==
    \/ BeginRun \/ StartLevel \/ Collect \/ CloseLevel
    \/ EndLevels \/ DispatchEndHook \/ WaitCacheSaves

TaskStep(t) ==
    \/ Acquire(t) \/ Abandon(t) \/ SkipOnNeed(t) \/ SkipOnCondition(t)
    \/ Start(t) \/ RestoreFromCache(t) \/ MissCache(t) \/ Execute(t)
    \/ Send(t) \/ Leave(t)

Next ==
    \/ MainStep
    \/ \E t \in Task : TaskStep(t) \/ FinishSave(t)
    \/ CancelByCaller

Spec == Init /\ [][Next]_vars

(* Every goroutine is scheduled and every command, dispatched task and     *)
(* cache save ends (commands by themselves, by their timeout or killed     *)
(* when the context ends).  Nobody has to cancel.                           *)
FairSpec ==
    /\ Spec
    /\ WF_vars(MainStep)
    /\ \A t \in Task : WF_vars(TaskStep(t)) /\ WF_vars(FinishSave(t))

--------------------------------------------------------------------------------
PlanTasks == UNION {plan[i] : i \in DOMAIN plan}

HasSlot == {t \in Task : pc[t] \in {"checking", "started", "executing",
                                    "settled", "sent"}}

TypeOK ==
    /\ plan \in Plans
    /\ opts \in Options
    /\ main \in {"starting", "between", "collecting", "ending", "returned",
                 "error", "exited"}
    /\ level \in 0 .. Len(plan)
    /\ pc \in [Task -> {"idle", "acquiring", "checking", "started", "executing",
                        "settled", "sent", "done"}]
    /\ sem \in 0 .. opts.parallelism
    /\ outcome \in [Task -> Outcome \cup {"none"}]
    /\ channel \in Seq(Task)
    /\ recorded \in [Task -> Outcome \cup {"none"}]
    /\ cacheHits \in Nat
    /\ failures \in Nat
    /\ cancelledBy \in {"nobody", "caller", "failure"}
    /\ started \in SUBSET Task
    /\ completed \in SUBSET Task
    /\ store \in SUBSET Task
    /\ saving \in SUBSET Task
    /\ hook \in {"none", "success", "failure"}

(* A task is started, executed or restored from the cache only after every *)
(* dependency has a recorded result, and none of those results blocks it:  *)
(* the collector has seen the earlier levels completely, whatever was      *)
(* cancelled in between (scheduler.go:283-338, 398-419).                   *)
RunsAfterNeeds ==
    \A t \in Task :
        pc[t] \in {"started", "executing"} \/ IsSuccess(outcome[t]) =>
            \A d \in Needs[t] :
                recorded[d] \in Outcome /\ ~Blocks(recorded[d])

(* A failure never lets a transitive dependent run: whatever is reachable  *)
(* from it is skipped, or has no result because the run was cancelled.     *)
FailureIsContained ==
    \A t \in Task : \A d \in Needs[t] :
        Blocks(recorded[d]) => outcome[t] \in {"none", "skipped"}

(* The slots counted by the semaphore are those of the goroutines between  *)
(* acquiring and leaving, so no more tasks run at a time than the options  *)
(* allow.                                                                   *)
SlotsBounded ==
    /\ sem = Cardinality(HasSlot)
    /\ Cardinality({t \in Task : pc[t] = "executing"}) <= opts.parallelism

(* The counters of the summary agree with the results it lists.             *)
SummaryAgrees ==
    /\ failures = Cardinality({t \in Task : IsFailure(recorded[t])})
    /\ cacheHits = Cardinality({t \in Task : recorded[t] = "cached"})

(* When Run is over, a planned task without a result is explained by the   *)
(* caller's cancellation or by a failure the summary counts: no task is    *)
(* silently dropped.                                                        *)
NoTaskDropped ==
    main \in {"ending", "returned"} =>
        \/ \A t \in PlanTasks : recorded[t] # "none"
        \/ cancelledBy = "caller"
        \/ opts.failFast /\ failures > 0

(* Run returns with no callback outstanding: every started task was        *)
(* reported as completed, the completed ones are those with a result, and  *)
(* those completed without being started are the ones skipped on a         *)
(* dependency.                                                              *)
CallbacksPaired ==
    main \in {"ending", "returned", "exited"} =>
        /\ started \subseteq completed
        /\ completed = {t \in Task : recorded[t] # "none"}
        /\ completed \ started =
               {t \in Task : recorded[t] = "skipped" /\ NeedsBlocked(t)}

(* The success hook runs only when every task of the plan has a result and *)
(* none of them is a failure.                                               *)
SuccessHookSound ==
    hook = "success" =>
        \A t \in PlanTasks :
            recorded[t] \in Outcome /\ ~IsFailure(recorded[t])

(* After Run has returned only the background saves go on: no callback, no *)
(* result and no new save, so the caller's wait covers them all.            *)
QuietAfterReturn ==
    [][(main \in {"returned", "error", "exited"}) =>
           /\ UNCHANGED <<started, completed, recorded, pc>>
           /\ saving' \subseteq saving]_vars

(* Run returns and the caller exits, with every save finished.              *)
RunExits == <>(main = "exited" /\ saving = {})

(***************************************************************************)
(* The scheduler implements DagRun: a task is idle until it is started,    *)
(* active while it is looked up or executed, and settled when its goroutine *)
(* has the result, before the collector has seen it.                        *)
(***************************************************************************)
StatusOf(t) ==
    CASE pc[t] \in {"started", "executing"}  -> "active"
      [] outcome[t] \in {"success", "cached"} -> "passed"
      [] outcome[t] = "skipped"               -> "blocked"
      [] outcome[t] = "waived"                -> "waived"
      [] IsFailure(outcome[t])                -> "failed"
      [] OTHER                                -> "idle"

Run == INSTANCE DagRun WITH
           todo    <- PlanTasks,
           status  <- [t \in Task |-> StatusOf(t)],
           stopped <- Cancelled,
           over    <- main \in {"returned", "error", "exited"}

ImplementsDagRun == Run!Spec

(* plugin.go:648: "on_run_failure - Triggered when a run fails", of a run   *)
(* that registers its plugins and that its caller lets finish.              *)
FailureHookRuns ==
    (main = "returned" /\ failures > 0 /\ ~opts.dryRun /\ cancelledBy # "caller")
        => hook = "failure"
================================================================================
