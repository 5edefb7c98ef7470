------------------------------- MODULE ServerRun -------------------------------
(***************************************************************************)
(* A run that the server executes: the API creates its row and queues a    *)
(* job (TriggerRun), a worker executes the job (ExecuteRunHandler.Handle), *)
(* and a user may cancel it (CancelRun), which writes the row and sends a  *)
(* signal over Redis (CancelManager).                                      *)
(*                                                                         *)
(* Every access to the database or to Redis is a step.  The row of the run *)
(* is written in two ways: column by column (Start, Complete, the counters), *)
(* and as a whole from a copy read earlier (RunRepo.Update).  The job      *)
(* queue is external: it delivers a job again after an error or a crash.   *)
(* One attempt runs at a time.  Logs, artifacts, the clean-up's synthetic  *)
(* task and the key's time to live of an hour are left out.  A database    *)
(* error is one of a cancelled context, or keeps an attempt from beginning *)
(* (Refuse).                                                               *)
(***************************************************************************)
EXTENDS Naturals, FiniteSets

CONSTANTS
    Task,           \* the tasks of the plan
    Request,        \* the calls of CancelRun
    MaxAttempts,    \* how often the queue delivers the job
    MaxFaults       \* bound on the faults: crashes and shutdowns of the worker,
                    \* and attempts that fail before they can report anything

ASSUME ServerRunAssumption ==
    /\ Task # {} /\ IsFiniteSet(Task)
    /\ MaxAttempts \in Nat \ {0} /\ MaxFaults \in Nat

Clone == "clone"                \* the synthetic task of the clone
ASSUME CloneAssumption == Clone \notin Task

VARIABLES
    pr,         \* whether the run has a pull request, on which it comments
    row,        \* the row of the run
    result,     \* task_results.status of a task, "none" without a row
    job,        \* the job of the run in the queue
    attempts,   \* how often it has been delivered
    key,        \* the cancellation key in Redis
    pc,         \* where the attempt is in Handle
    snap,       \* the run as the attempt holds it
    latest,     \* the run as notifyGitHub has reloaded it
    watch,      \* the attempt's subscription, "closed" once it is told
    ctx,        \* the attempt's context
    verdict,    \* what the attempt is going to return
    stage,      \* how far the scheduler and the callbacks are with a task
    out,        \* what the execution of a task ended in
    apc,        \* where a call of CancelRun is
    asnap,      \* the run as that call has read it
    faults,     \* how many faults there have been
    stopped     \* whether a worker was shut down while it executed the run

wvars == <<pc, snap, latest, watch, ctx, verdict, stage, out>>
avars == <<apc, asnap>>
jvars == <<job, attempts>>
fvars == <<pr, faults, stopped>>
vars  == <<row, result, jvars, key, wvars, avars, fvars>>

Terminal == {"success", "failed", "cancelled"}
NewRow == [status |-> "pending", completed |-> 0, failed |-> 0, total |-> 0,
           comment |-> FALSE]

Init ==
    /\ pr \in BOOLEAN
    /\ row = [NewRow EXCEPT !.status = "absent"]
    /\ result = [t \in Task \cup {Clone} |-> "none"]
    /\ job = "absent" /\ attempts = 0 /\ key = FALSE
    /\ pc = "idle" /\ snap = NewRow /\ latest = NewRow /\ watch = "off" /\ ctx = "live"
    /\ verdict = "none"
    /\ stage = [t \in Task |-> "todo"] /\ out = [t \in Task |-> "none"]
    /\ apc = [c \in Request |-> "idle"] /\ asnap = [c \in Request |-> NewRow]
    /\ faults = 0 /\ stopped = FALSE

--------------------------------------------------------------------------------
(* The statements of RunRepo.                                               *)

Update(r)           == row' = r
StartWithTotal      == row' = [row EXCEPT !.status = "running",
                                          !.total = Cardinality(Task)]
Complete(s)         == row' = [row EXCEPT !.status = s]
IncrementCompleted  == row' = [row EXCEPT !.completed = @ + 1]
IncrementFailed     == row' = [row EXCEPT !.completed = @ + 1, !.failed = @ + 1]
CancelNonTerminalTasks ==
    result' = [t \in DOMAIN result |->
                 IF result[t] = "running" THEN "cancelled" ELSE result[t]]

(* Within the attempt a statement whose context is cancelled does nothing,  *)
(* and its error is ignored or logged.                                      *)
InCtx(A, v) == IF ctx = "live" THEN A ELSE UNCHANGED v

--------------------------------------------------------------------------------
(* The API.                                                                 *)

(* The row is created and the job queued; that the queue may refuse it is   *)
(* ignored.                                                                 *)
TriggerRun ==
    /\ row.status = "absent"
    /\ row' = NewRow
    /\ job' \in {"queued", "lost"}
    /\ UNCHANGED <<result, attempts, key, wvars, avars, fvars>>

CancelGoto(c, l) == apc' = [apc EXCEPT ![c] = l]

CancelRead(c) ==
    /\ apc[c] = "idle" /\ row.status # "absent"
    /\ CancelGoto(c, IF row.status \in Terminal THEN "conflict" ELSE "update")
    /\ asnap' = [asnap EXCEPT ![c] = IF row.status \in Terminal THEN @ ELSE row]
    /\ UNCHANGED <<row, result, jvars, key, wvars, fvars>>

CancelUpdate(c) ==
    /\ apc[c] = "update"
    /\ Update([asnap[c] EXCEPT !.status = "cancelled"])
    /\ asnap' = [asnap EXCEPT ![c] = NewRow]
    /\ CancelGoto(c, "tasks")
    /\ UNCHANGED <<result, jvars, key, wvars, fvars>>

CancelTasks(c) ==
    /\ apc[c] = "tasks"
    /\ CancelNonTerminalTasks
    /\ CancelGoto(c, "set")
    /\ UNCHANGED <<row, jvars, key, wvars, asnap, fvars>>

(* CancelManager.Signal sets the key and then publishes.                    *)
SignalSet(c) ==
    /\ apc[c] = "set"
    /\ key' = TRUE
    /\ CancelGoto(c, "publish")
    /\ UNCHANGED <<row, result, jvars, wvars, asnap, fvars>>

SignalPublish(c) ==
    /\ apc[c] = "publish"
    /\ watch' = IF watch = "subscribed" THEN "closed" ELSE watch
    /\ CancelGoto(c, "ok")
    /\ UNCHANGED <<row, result, jvars, key, pc, snap, latest, ctx, verdict, stage, out,
                   asnap, fvars>>

--------------------------------------------------------------------------------
(* The attempt: from the delivery of the job to the first task.             *)

Goto(l) == pc' = l
Leave(v) == pc' = "clear" /\ verdict' = v

(* An attempt that has read the row.                                        *)
Begin(r) ==
    /\ Goto("exists") /\ snap' = r
    /\ UNCHANGED <<latest, watch, ctx, verdict, stage, out>>

(* Faulty: the status that was read is not looked at.                       *)
Deliver_AnyStatus ==
    /\ job = "queued" /\ attempts < MaxAttempts
    /\ attempts' = attempts + 1
    /\ job' = "active" /\ Begin(row)
    /\ UNCHANGED <<row, result, key, avars, fvars>>

(* The run is read, and an attempt at a cancelled one ends at once.         *)
Deliver ==
    /\ job = "queued" /\ attempts < MaxAttempts
    /\ attempts' = attempts + 1
    /\ \/ row.status = "cancelled" /\ job' = "acked" /\ UNCHANGED wvars
       \/ row.status # "cancelled" /\ job' = "active" /\ Begin(row)
    /\ UNCHANGED <<row, result, key, avars, fvars>>

(* The payload cannot be decrypted or parsed, or the run not be read: the   *)
(* attempt returns the error before it has touched anything.                *)
Requeued(n) == IF n < MaxAttempts THEN "queued" ELSE "archived"
Refuse ==
    /\ job = "queued" /\ attempts < MaxAttempts
    /\ faults < MaxFaults /\ faults' = faults + 1
    /\ attempts' = attempts + 1 /\ job' = Requeued(attempts')
    /\ UNCHANGED <<pr, row, result, key, wvars, avars, stopped>>

(* CancelManager.Watch asks for the key, then subscribes.                   *)
WatchExists ==
    /\ pc = "exists"
    /\ \/ key /\ watch' = "closed" /\ Goto("check")
       \/ ~key /\ watch' = "off" /\ Goto("subscribe")
    /\ UNCHANGED <<row, result, jvars, key, snap, latest, ctx, verdict, stage, out,
                   avars, fvars>>

WatchSubscribe ==
    /\ pc = "subscribe"
    /\ watch' = "subscribed" /\ Goto("check")
    /\ UNCHANGED <<row, result, jvars, key, snap, latest, ctx, verdict, stage, out,
                   avars, fvars>>

(* The goroutine that waits for the channel of Watch cancels the context.   *)
PropagateCancel ==
    /\ watch = "closed" /\ ctx = "live"
    /\ ctx' = "cancelled"
    /\ UNCHANGED <<row, result, jvars, key, pc, snap, latest, watch, verdict, stage,
                   out, avars, fvars>>

CheckContext ==
    /\ pc = "check"
    /\ Goto(IF ctx = "live" THEN "delete" ELSE "mark")
    /\ verdict' = IF ctx = "live" THEN "none" ELSE "nil"
    /\ UNCHANGED <<row, result, jvars, key, snap, latest, watch, ctx, stage, out, avars,
                   fvars>>

DeleteTaskResults ==
    /\ pc = "delete"
    /\ InCtx(result' = [t \in DOMAIN result |-> "none"], result)
    /\ Goto("reset")
    /\ UNCHANGED <<row, jvars, key, snap, latest, watch, ctx, verdict, stage, out,
                   avars, fvars>>

(* Faulty: the counters of an earlier attempt are kept.                     *)
ResetRun_KeepsCounters ==
    /\ pc = "reset"
    /\ snap' = [snap EXCEPT !.status = "pending"]
    /\ InCtx(Update(snap'), row)
    /\ Goto("clone")
    /\ UNCHANGED <<result, jvars, key, latest, watch, ctx, verdict, stage, out, avars,
                   fvars>>

ResetRun ==
    /\ pc = "reset"
    /\ snap' = [snap EXCEPT !.status = "pending", !.completed = 0, !.failed = 0]
    /\ InCtx(Update(snap'), row)
    /\ Goto("clone")
    /\ UNCHANGED <<result, jvars, key, latest, watch, ctx, verdict, stage, out, avars,
                   fvars>>

(* Without a repository the run is failed and the job is done.              *)
NoRepository ==
    /\ pc = "clone"
    /\ InCtx(Complete("failed"), row) /\ Leave("nil")
    /\ UNCHANGED <<result, jvars, key, snap, latest, watch, ctx, stage, out, avars, fvars>>

(* The directory for the clone cannot be made: the one error of an attempt  *)
(* that does not fail the run.                                              *)
NoWorkDir ==
    /\ pc = "clone"
    /\ faults < MaxFaults /\ faults' = faults + 1
    /\ Leave("err")
    /\ UNCHANGED <<pr, row, result, jvars, key, snap, latest, watch, ctx, stage, out,
                   avars, stopped>>

StartClone ==
    /\ pc = "clone"
    /\ InCtx(result' = [result EXCEPT ![Clone] = "running"], result)
    /\ Goto("cloning")
    /\ UNCHANGED <<row, jvars, key, snap, latest, watch, ctx, verdict, stage, out,
                   avars, fvars>>

(* The synthetic task is read and then written, when it is found; a clone   *)
(* that cannot be opened fails without a word to its task.                  *)
CloneEnds(s) ==
    /\ pc = "cloning"
    /\ \/ s = "failed" /\ UNCHANGED result
       \/ InCtx(result' = [result EXCEPT ![Clone] = IF @ = "none" THEN @ ELSE s],
                result)
    /\ Goto(IF s = "success" THEN "plan" ELSE "fail")
    /\ UNCHANGED <<row, jvars, key, snap, latest, watch, ctx, verdict, stage, out,
                   avars, fvars>>

(* Whatever fails before the first task fails the run and returns the error, *)
(* for which the job is queued again: the clone, the configuration, the     *)
(* graph.                                                                   *)
FailAndRetry ==
    /\ pc \in {"fail", "plan"}
    /\ InCtx(Complete("failed"), row) /\ Leave("err")
    /\ UNCHANGED <<result, jvars, key, snap, latest, watch, ctx, stage, out, avars, fvars>>

(* No target, or an unknown one: failed, and nothing to retry.              *)
NoTargets ==
    /\ pc = "plan"
    /\ InCtx(Complete("failed"), row) /\ Leave("nil")
    /\ UNCHANGED <<result, jvars, key, snap, latest, watch, ctx, stage, out, avars, fvars>>

(* The commit, the workflow and the host are saved by writing the whole row *)
(* from the attempt's copy, each if it is new.                              *)
SaveSnapshot ==
    /\ pc = "plan"
    /\ InCtx(Update(snap), row)
    /\ UNCHANGED <<result, jvars, key, wvars, avars, fvars>>

StartRun ==
    /\ pc = "plan"
    /\ \/ ctx = "live" /\ StartWithTotal
          /\ Goto(IF pr THEN "announce" ELSE "run") /\ UNCHANGED verdict
       \/ ctx # "live" /\ UNCHANGED row /\ Leave("err")
    /\ UNCHANGED <<result, jvars, key, snap, latest, watch, ctx, stage, out, avars, fvars>>

(* notifyGitHub reloads the run, then creates the comment if the run has    *)
(* none yet, and saves its number by writing the whole row from the reloaded *)
(* copy.                                                                    *)
Reload(live, write, next) ==
    /\ \/ Goto(next) /\ UNCHANGED latest
       \/ live /\ ~row.comment /\ latest' = row /\ Goto(write)
    /\ UNCHANGED <<row, result, jvars, key, snap, watch, ctx, verdict, stage, out,
                   avars, fvars>>
SaveComment(A, next) ==
    /\ A /\ latest' = NewRow /\ Goto(next)
    /\ UNCHANGED <<result, jvars, key, snap, watch, ctx, verdict, stage, out, avars,
                   fvars>>
Commented == Update([latest EXCEPT !.comment = TRUE])

(* Without a live context the reload fails, and then the write does.        *)
Announce == pc = "announce" /\ Reload(ctx = "live", "announced", "run")
Announced == pc = "announced" /\ SaveComment(InCtx(Commented, row), "run")

--------------------------------------------------------------------------------
(* The attempt: the scheduler and its callbacks, the tasks side by side.    *)

Stage(t, s) == pc = "run" /\ stage[t] = s
SetStage(t, s) == stage' = [stage EXCEPT ![t] = s]
vtask == <<jvars, key, pc, snap, latest, watch, ctx, verdict, avars, fvars>>

(* OnTaskStart inserts the task's row.                                      *)
StartTask(t) ==
    /\ Stage(t, "todo") /\ SetStage(t, "running")
    /\ InCtx(result' = [result EXCEPT ![t] = "running"], result)
    /\ UNCHANGED <<row, out, vtask>>

Failed == {t \in Task : out[t] \in {"failed", "cancelled"}}

(* Fail-fast: whoever has failed and reported it cancels the scheduler's own *)
(* context, which is a child of the attempt's.                              *)
Cancelled == ctx # "live" \/ \E t \in Failed : stage[t] = "done"

(* A task skipped for a need that failed is completed without having been   *)
(* started: it has no row, and is not counted.                              *)
SkipTask(t) ==
    /\ Stage(t, "todo") /\ SetStage(t, "done") /\ Failed # {}
    /\ out' = [out EXCEPT ![t] = "skipped"]
    /\ UNCHANGED <<row, result, vtask>>

(* The execution ends, cancelled only when the scheduler's context is; a    *)
(* condition that does not hold ends it before it begins.                   *)
EndTask(t) ==
    /\ Stage(t, "running") /\ SetStage(t, "report")
    /\ \E o \in {"success", "failed", "skipped"} \cup
                (IF Cancelled THEN {"cancelled"} ELSE {}) :
         out' = [out EXCEPT ![t] = o]
    /\ UNCHANGED <<row, result, vtask>>

(* OnTaskComplete reads the task's row and writes it back; without the row  *)
(* the completion is not counted.                                           *)
ReportTask(t) ==
    /\ Stage(t, "report")
    /\ \/ ctx = "live" /\ result[t] # "none"
          /\ result' = [result EXCEPT ![t] = out[t]] /\ SetStage(t, "count")
       \/ (ctx # "live" \/ result[t] = "none")
          /\ SetStage(t, "done") /\ UNCHANGED result
    /\ UNCHANGED <<row, out, vtask>>

CountTask(t) ==
    /\ Stage(t, "count") /\ SetStage(t, "done")
    /\ InCtx(IF t \in Failed THEN IncrementFailed ELSE IncrementCompleted, row)
    /\ UNCHANGED <<result, out, vtask>>

(* The scheduler returns when nothing runs and nothing is going to: tasks   *)
(* are left over only after a failure or a cancellation.  The context is    *)
(* looked at before the result.                                             *)
RunEnds ==
    /\ pc = "run"
    /\ \A t \in Task : stage[t] \in {"todo", "done"}
    /\ \/ ctx # "live" \/ Failed # {}
       \/ \A t \in Task : stage[t] = "done"
    /\ Goto(IF ctx = "live" THEN "complete" ELSE "mark") /\ verdict' = "nil"
    /\ UNCHANGED <<row, result, jvars, key, snap, latest, watch, ctx, stage, out, avars,
                   fvars>>

(* The scheduler gives up before its first task, as when a plugin cannot be *)
(* installed: the run is failed, and the error returned.                    *)
RunFails ==
    /\ pc = "run" /\ ctx = "live" /\ \A t \in Task : stage[t] = "todo"
    /\ Complete("failed")
    /\ Goto(IF pr THEN "notify" ELSE "clear") /\ verdict' = "err"
    /\ UNCHANGED <<result, jvars, key, snap, latest, watch, ctx, stage, out, avars, fvars>>

(* Faulty: the verdict is taken from the counter in the attempt's copy of   *)
(* the run, which was read before the tasks ran.                            *)
CompleteRun_StaleCounter ==
    /\ pc = "complete"
    /\ InCtx(Complete(IF snap.failed = 0 THEN "success" ELSE "failed"), row)
    /\ Goto(IF pr THEN "notify" ELSE "clear")
    /\ UNCHANGED <<result, jvars, key, snap, latest, watch, ctx, verdict, stage, out,
                   avars, fvars>>

(* The verdict is the one of the scheduler's own results.                   *)
CompleteRun ==
    /\ pc = "complete"
    /\ InCtx(Complete(IF Failed = {} THEN "success" ELSE "failed"), row)
    /\ Goto(IF pr THEN "notify" ELSE "clear")
    /\ UNCHANGED <<result, jvars, key, snap, latest, watch, ctx, verdict, stage, out,
                   avars, fvars>>

NotifyEnd == pc = "notify" /\ Reload(ctx = "live", "notified", "clear")
Notified == pc = "notified" /\ SaveComment(InCtx(Commented, row), "clear")

--------------------------------------------------------------------------------
(* The attempt: markRunCancelled, which has a context of its own, and the   *)
(* return.                                                                  *)

MarkRead ==
    /\ pc = "mark"
    /\ snap' = [row EXCEPT !.status = "cancelled"]
    /\ Goto(IF row.status \in {"running", "pending"} THEN "markUpdate" ELSE "clear")
    /\ UNCHANGED <<row, result, jvars, key, latest, watch, ctx, verdict, stage, out,
                   avars, fvars>>

MarkUpdate ==
    /\ pc = "markUpdate"
    /\ Update(snap) /\ Goto("markTasks")
    /\ UNCHANGED <<result, jvars, key, snap, latest, watch, ctx, verdict, stage, out,
                   avars, fvars>>

MarkTasks ==
    /\ pc = "markTasks"
    /\ CancelNonTerminalTasks
    /\ Goto(IF pr THEN "markNotify" ELSE "clear")
    /\ UNCHANGED <<row, jvars, key, snap, latest, watch, ctx, verdict, stage, out,
                   avars, fvars>>

MarkNotify == pc = "markNotify" /\ Reload(TRUE, "markNotified", "clear")
MarkNotified == pc = "markNotified" /\ SaveComment(Commented, "clear")

(* The deferred calls remove the key and cancel the context.                *)
Clear ==
    /\ pc = "clear"
    /\ key' = FALSE /\ Goto("return")
    /\ UNCHANGED <<row, result, jvars, snap, latest, watch, ctx, verdict, stage, out,
                   avars, fvars>>

(* What an attempt knew is gone when it ends.                               *)
Forget ==
    /\ pc' = "idle" /\ watch' = "off" /\ ctx' = "live"
    /\ snap' = NewRow /\ latest' = NewRow
    /\ verdict' = "none"
    /\ stage' = [t \in Task |-> "todo"] /\ out' = [t \in Task |-> "none"]

Return ==
    /\ pc = "return"
    /\ job' = IF verdict = "nil" THEN "acked" ELSE Requeued(attempts)
    /\ Forget
    /\ UNCHANGED <<row, result, attempts, key, avars, fvars>>

(* Faulty: the job of a worker that died is never delivered again.          *)
Crash_JobLost ==
    /\ pc # "idle" /\ faults < MaxFaults /\ faults' = faults + 1
    /\ Forget
    /\ UNCHANGED <<pr, row, result, jvars, key, avars, stopped>>

(* The worker process dies: the queue finds that its lease has expired.     *)
Crash ==
    /\ pc # "idle" /\ faults < MaxFaults /\ faults' = faults + 1
    /\ job' = Requeued(attempts) /\ Forget
    /\ UNCHANGED <<pr, row, result, attempts, key, avars, stopped>>

(* The worker is shut down: the context all its handlers derive theirs from *)
(* is cancelled.                                                            *)
ShutDown ==
    /\ pc # "idle" /\ ctx = "live" /\ faults < MaxFaults /\ faults' = faults + 1
    /\ ctx' = "cancelled" /\ stopped' = TRUE
    /\ UNCHANGED <<pr, row, result, jvars, key, pc, snap, latest, watch, verdict, stage,
                   out, avars>>

--------------------------------------------------------------------------------
Prepare ==
    \/ Deliver \/ Refuse \/ WatchExists \/ WatchSubscribe \/ CheckContext
    \/ DeleteTaskResults \/ ResetRun \/ NoRepository \/ NoWorkDir \/ StartClone
    \/ \E s \in {"success", "failed"} : CloneEnds(s)
    \/ FailAndRetry \/ NoTargets \/ StartRun \/ Announce \/ Announced

TaskStep(t) ==
    StartTask(t) \/ SkipTask(t) \/ EndTask(t) \/ ReportTask(t) \/ CountTask(t)

Finish ==
    \/ RunEnds \/ RunFails \/ CompleteRun \/ NotifyEnd \/ Notified
    \/ MarkRead \/ MarkUpdate \/ MarkTasks \/ MarkNotify \/ MarkNotified
    \/ Clear \/ Return

Cancel(c) ==
    CancelRead(c) \/ CancelUpdate(c) \/ CancelTasks(c) \/ SignalSet(c) \/ SignalPublish(c)

Next ==
    \/ TriggerRun \/ SaveSnapshot \/ PropagateCancel \/ Crash \/ ShutDown
    \/ Prepare \/ Finish
    \/ \E t \in Task : TaskStep(t)
    \/ \E c \in Request : Cancel(c)

Spec == Init /\ [][Next]_vars

--------------------------------------------------------------------------------
Status == {"pending", "running"} \cup Terminal
RowType == [status : Status \cup {"absent"}, completed : Nat, failed : Nat,
            total : {0, Cardinality(Task)}, comment : BOOLEAN]

(* The variables have the values the code can give them.                    *)
TypeOK ==
    /\ row \in RowType /\ snap \in RowType /\ latest \in RowType
    /\ result \in [Task \cup {Clone} ->
                    {"none", "running", "success", "failed", "cancelled", "skipped"}]
    /\ job \in {"absent", "lost", "queued", "active", "acked", "archived"}
    /\ attempts \in 0 .. MaxAttempts /\ key \in BOOLEAN
    /\ pc \in {"idle", "exists", "subscribe", "check", "delete", "reset", "clone",
               "cloning", "fail", "plan", "announce", "announced", "run", "complete",
               "notify", "notified", "mark", "markUpdate", "markTasks", "markNotify",
               "markNotified", "clear", "return"}
    /\ watch \in {"off", "subscribed", "closed"} /\ ctx \in {"live", "cancelled"}
    /\ verdict \in {"none", "nil", "err"}
    /\ stage \in [Task -> {"todo", "running", "report", "count", "done"}]
    /\ out \in [Task -> {"none", "success", "failed", "cancelled", "skipped"}]
    /\ apc \in [Request -> {"idle", "conflict", "update", "tasks", "set", "publish", "ok"}]
    /\ asnap \in [Request -> RowType]
    /\ pr \in BOOLEAN /\ faults \in 0 .. MaxFaults /\ stopped \in BOOLEAN
    /\ (pc = "idle") <=> (job # "active")

Requested  == \E c \in Request : apc[c] # "idle"
InFlight   == \E c \in Request : apc[c] \notin {"idle", "conflict", "ok"}
Counted(S) == Cardinality({t \in Task : result[t] \in S})

(* A run that nobody cancelled, once its job is done, has ended, with        *)
(* counters that agree with the rows of its tasks, those that fail-fast     *)
(* cancelled included, however many attempts crashed or failed on the way   *)
(* (execute_run.go 349-365 clears what they left) and whatever wrote the    *)
(* whole row: it succeeded only with no task failed, and no row is still    *)
(* running.  Given up without a fault, it is reported as failed (every      *)
(* error path but those of Refuse and NoWorkDir completes the run).         *)
Undisturbed == ~Requested /\ ~stopped
SettledRunIsAccurate ==
    /\ job = "acked" /\ Undisturbed =>
         /\ row.status \in {"success", "failed"}
         /\ row.completed = Counted({"success", "failed", "cancelled", "skipped"})
         /\ row.failed = Counted({"failed", "cancelled"})
         /\ row.status = "success" =>
              row.failed = 0 /\ row.total = Cardinality(Task)
         /\ \A t \in DOMAIN result : result[t] # "running"
    /\ job = "archived" /\ Undisturbed /\ faults = 0 => row.status = "failed"

(* Cancelled or shut down at any moment: a job that is done never leaves     *)
(* behind a success with a task that failed, was cancelled or is running.    *)
SuccessIsEarned ==
    job = "acked" /\ row.status = "success" =>
        \A t \in DOMAIN result : result[t] \in {"none", "success", "skipped"}

(* A cancelled run that no attempt executes and no call is still cancelling  *)
(* is never revived: attempts delivered later leave it as it is              *)
(* (execute_run.go 323-326).                                                 *)
AtRest == row.status = "cancelled" /\ pc = "idle" /\ ~InFlight
CancelledRunNotRevived == [][AtRest => AtRest']_vars

(* The API's description of CancelRun, "Cancels a running or pending         *)
(* workflow run": a run for which a call answered that it is cancelled does  *)
(* not end as a success.                                                     *)
CancelledRunNeverSucceeds ==
    (\E c \in Request : apc[c] = "ok") /\ ~InFlight => row.status # "success"
================================================================================
