------------------------------- MODULE RemoteSync ------------------------------
(***************************************************************************)
(* A run that the CLI executes and reports to the server (dagryn run       *)
(* --sync): the main goroutine and the scheduler's callbacks, the          *)
(* goroutines of the heartbeat, of the log flusher and of the signal       *)
(* handler, the API handlers that write the run's row, a user of the       *)
(* dashboard who may cancel the run, and the job that looks for runs whose *)
(* client has gone.                                                        *)
(*                                                                         *)
(* A request is handled in two steps, a read of the row and a write; the   *)
(* requests of the callbacks only add to counters and are one step.  Any   *)
(* request may be lost, or its answer.  A client gives up only on requests *)
(* that are not being handled, and the request of one that died is handled *)
(* to its end.  Task names, timestamps and the local copy of the logs are  *)
(* left out, and of the local record all but its status.                   *)
(***************************************************************************)
EXTENDS Integers, Sequences, Functions, FiniteSets

CONSTANTS
    Task,           \* the tasks of the workflow
    Needs,          \* the dependencies of a task
    Plans,          \* what a run may be asked for: tasks with all they need
    MaxErrors,      \* maxErrors, after which the CLI is offline
    MaxLogBuf,      \* maxLogBuf, the cap of the log buffer
    MaxLines,       \* bound on the log lines of the tasks
    MaxSize         \* bound on a run's tasks and what disturbs it: see Disturbances

ASSUME RemoteSyncAssumption ==
    /\ Task # {} /\ IsFiniteSet(Task) /\ Needs \in [Task -> SUBSET Task]
    /\ \A P \in Plans : P # {} /\ P \subseteq Task /\ \A t \in P : Needs[t] \subseteq P
    /\ {MaxErrors, MaxLogBuf} \subseteq Nat \ {0}
    /\ {MaxLines, MaxSize} \subseteq Nat

VARIABLES
    row,        \* the run's row on the server
    result,     \* task_results.status of a task, "none" without a row
    srvlog,     \* the log lines the server has stored
    unstored,   \* the lines the server has answered for without storing them
    user,       \* the dashboard's call of CancelRun
    listed,     \* whether the stale job has the run in its list
    local,      \* the status in the local record of the run
    pc,         \* where the main goroutine is
    sig,        \* where the signal handler is
    hb,         \* where the heartbeat goroutine is
    call,       \* a request of the main goroutine or of the signal handler
    req,        \* the report that the main goroutine has last requested
    snap,       \* the row as the handler of a request has read it
    cancelFn,   \* whether the heartbeat goroutine can cancel the context
    ctx,        \* the context of the scheduler
    remote,     \* remoteCancelled
    stage,      \* how far the scheduler is with a task
    out,        \* what a task ended in
    lines,      \* how many lines the tasks have logged
    buf,        \* logBuffer
    tries,      \* how often Stop has flushed
    errors,     \* errorCount
    offline,    \* offline
    faults      \* how many requests and answers were lost

vserver == <<row, result, srvlog, unstored, user, listed>>
vrun    == <<cancelFn, ctx, remote, stage, out>>
vlog    == <<lines, buf, tries>>
vsync   == <<errors, offline, faults>>
vmain   == <<pc, sig, hb, local>>
vcall   == <<call, req, snap>>
vars    == <<vserver, vrun, vlog, vsync, vmain, vcall>>

Caller   == {"main", "signal", "user"}
Terminal == {"success", "failed", "cancelled"}
NewRow   == [status |-> "pending", completed |-> 0, failed |-> 0, total |-> 0,
             beat |-> FALSE, gone |-> FALSE]

Init ==
    /\ row = NewRow /\ result = [t \in Task |-> "none"] /\ srvlog = <<>>
    /\ unstored = {} /\ user = "idle" /\ listed = FALSE
    /\ local = "running" /\ pc = "setup" /\ sig = "off" /\ hb = "on"
    /\ call = [a \in Caller |-> "none"] /\ req = "none"
    /\ snap = [a \in Caller |-> NewRow]
    /\ cancelFn = FALSE /\ ctx = "live" /\ remote = FALSE
    /\ \E P \in Plans : stage = [t \in Task |-> IF t \in P THEN "todo" ELSE "unplanned"]
    /\ out = [t \in Task |-> "none"]
    /\ lines = 0 /\ buf = <<>> /\ tries = 0
    /\ errors = 0 /\ offline = FALSE /\ faults = 0

(* The tasks of the run.                                                    *)
Plan == {t \in Task : stage[t] # "unplanned"}

Alive == pc \notin {"exit", "crashed"}

--------------------------------------------------------------------------------
(* The outcome of a sync operation: a success resets the count of errors,   *)
(* an error adds to it, and a network error may take the CLI offline.  The  *)
(* goroutines share the count without a lock: a change to it may be lost.   *)

Count       == errors' \in {errors, errors + 1}
SyncOk      == errors' \in {0, errors} /\ UNCHANGED offline
SyncRefused == Count /\ UNCHANGED offline
SyncNetwork == Count /\ offline' = (offline \/ errors' >= MaxErrors)

(* What disturbs a run: lost requests and answers, a cancellation from the  *)
(* dashboard, Ctrl-C, heartbeats that are late, and the death of the CLI.   *)
Disturbances == faults + Cardinality({c \in {<<"user", user # "idle">>,
    <<"signal", sig \in {"local", "remote", "done"}>>, <<"crash", pc = "crashed">>,
    <<"late", Alive /\ (listed \/ row.gone)>>} : c[2]})
MayDisturb == Cardinality(Plan) + Disturbances < MaxSize

Fault   == MayDisturb /\ faults' = faults + 1
NoFault == UNCHANGED faults

--------------------------------------------------------------------------------
(* The API handlers behind UpdateRunStatus and CancelRun.                   *)

Goto(a, l) == call' = [call EXCEPT ![a] = l]
Ask(a)     == Goto(a, "read") /\ UNCHANGED snap

(* The run is read; one that has ended is not updated.                      *)
HandlerRead(a) ==
    /\ call[a] = "read"
    /\ \/ row.status \in Terminal /\ Goto(a, "conflict") /\ UNCHANGED snap
       \/ row.status \notin Terminal /\ Goto(a, "write")
          /\ snap' = [snap EXCEPT ![a] = row]
    /\ UNCHANGED <<req, vserver, vrun, vlog, vsync, vmain>>

(* What UpdateRunStatus is asked for.                                       *)
Verdict == IF \E t \in Task : out[t] \in {"failed", "cancelled"}
           THEN "failed" ELSE "success"

(* RunRepo.Update writes the row as it was read, but for the heartbeat's    *)
(* columns, which it leaves alone.                                          *)
Update(r) == row' = [r EXCEPT !.beat = row.beat, !.gone = row.gone]

(* A run that is pending is started, one that is to end completed, each by  *)
(* its own columns; any other change, here the total of a running run,      *)
(* writes the whole row and then the total.                                 *)
UpdateRunStatus ==
    LET r == snap["main"] IN
    \/ req = "final" /\ row' = [row EXCEPT !.status = Verdict]
    \/ req \in {"start", "total"} /\ r.status = "pending"
       /\ row' = [row EXCEPT !.status = "running",
                             !.total = IF req = "total" THEN Cardinality(Plan) ELSE @]
    \/ req = "total" /\ r.status = "running"
       /\ Update([r EXCEPT !.total = Cardinality(Plan)])

CancelRun(a) ==
    /\ Update([snap[a] EXCEPT !.status = "cancelled"])
    /\ result' = [t \in Task |-> IF result[t] \in {"pending", "running"}
                                 THEN "cancelled" ELSE result[t]]

(* The run is written, and the caller is answered unless the answer is lost.*)
HandlerWrite(a) ==
    /\ call[a] = "write"
    /\ IF a = "main" THEN UpdateRunStatus /\ UNCHANGED result ELSE CancelRun(a)
    /\ snap' = [snap EXCEPT ![a] = NewRow]
    /\ \/ Goto(a, "ok") /\ NoFault
       \/ Goto(a, "lost") /\ Fault
    /\ UNCHANGED <<srvlog, unstored, user, listed, vrun, vlog, errors, offline, vmain, req>>

(* A request does not reach the server.                                     *)
RequestLost(a) ==
    /\ call[a] = "read" /\ Fault
    /\ Goto(a, "lost")
    /\ UNCHANGED <<vserver, vrun, vlog, errors, offline, vmain, req, snap>>

(* The caller goes on with the answer; success in the last request of a run *)
(* does not reset the count.                                                *)
Answered(a) ==
    /\ call[a] \in {"ok", "conflict", "lost"}
    /\ Goto(a, "none") /\ UNCHANGED <<req, snap, faults>>
    /\ \/ call[a] = "ok" /\ a = "main" /\ pc # "final" /\ SyncOk
       \/ call[a] = "ok" /\ (a # "main" \/ pc = "final") /\ UNCHANGED <<errors, offline>>
       \/ call[a] = "conflict" /\ SyncRefused
       \/ call[a] = "lost" /\ SyncNetwork

UserCancels ==
    /\ MayDisturb /\ user = "idle" /\ user' = "asked"
    /\ Ask("user")
    /\ UNCHANGED <<row, result, srvlog, unstored, listed, vrun, vlog, vsync, vmain, req>>

--------------------------------------------------------------------------------
(* The heartbeat goroutine and the job that looks for stale runs.           *)

UpdateHeartbeat == row' = [row EXCEPT !.beat = TRUE, !.gone = FALSE]

(* A heartbeat is stored; its answer has the run's status.  A heartbeat     *)
(* that fails is ignored.                                                   *)
Heartbeat ==
    /\ Alive /\ hb = "on" /\ ~offline
    /\ UpdateHeartbeat
    /\ hb' = IF row.status = "cancelled" THEN "mark" ELSE "on"
    /\ UNCHANGED <<result, srvlog, unstored, user, listed, vrun, vlog, vsync, pc, sig,
                   local, vcall>>

HbStep(from, to) == Alive /\ hb = from /\ hb' = to
vhb == <<vserver, cancelFn, stage, out, vlog, vsync, pc, sig, vcall>>

MarkRemote ==
    /\ HbStep("mark", "record")
    /\ remote' = TRUE
    /\ UNCHANGED <<ctx, local, vhb>>

RecordRemote ==
    /\ HbStep("record", "cancel")
    /\ local' = "cancelled"
    /\ UNCHANGED <<ctx, remote, vhb>>

(* The context is cancelled if the function to do so is already known.      *)
CancelRemote ==
    /\ HbStep("cancel", "off")
    /\ ctx' = IF cancelFn THEN "cancelled" ELSE ctx
    /\ UNCHANGED <<remote, local, vhb>>

(* The model has no clock: any heartbeat may be five minutes late, and the  *)
(* job may find any run stale that has had one.                             *)
Stale(r) == r.status = "running" /\ r.beat /\ ~r.gone

ListStaleRuns ==
    /\ ~listed /\ Stale(row) /\ (Alive => MayDisturb)
    /\ listed' = TRUE
    /\ UNCHANGED <<row, result, srvlog, unstored, user, vrun, vlog, vsync, vmain, vcall>>

(* Faulty: a run that is marked gets the age of a run without heartbeats.   *)
MarkAsStale_NotMarked ==
    /\ listed /\ listed' = FALSE
    /\ row' = [row EXCEPT !.beat = FALSE]
    /\ UNCHANGED <<result, srvlog, unstored, user, vrun, vlog, vsync, vmain, vcall>>

(* The run is marked whatever has happened since it was listed.             *)
MarkAsStale ==
    /\ listed /\ listed' = FALSE
    /\ row' = [row EXCEPT !.gone = TRUE]
    /\ UNCHANGED <<result, srvlog, unstored, user, vrun, vlog, vsync, vmain, vcall>>

--------------------------------------------------------------------------------
(* The log buffer; its lock is held over the request.                       *)

(* AppendLog stores the lines in one COPY, and answers OK even if that has  *)
(* failed.                                                                  *)
Store ==
    \/ srvlog' = srvlog \o buf /\ UNCHANGED unstored /\ NoFault
    \/ unstored' = unstored \cup Range(buf) /\ UNCHANGED srvlog /\ Fault

(* Faulty: the buffer is emptied whether or not the lines were sent.        *)
FlushLogs_DropsOnError ==
    \/ buf = <<>> /\ UNCHANGED <<buf, srvlog, unstored, vsync>>
    \/ buf # <<>> /\ buf' = <<>>
       /\ \/ offline /\ UNCHANGED <<srvlog, unstored, vsync>>
          \/ ~offline /\ Store /\ SyncOk
          \/ ~offline /\ SyncNetwork /\ Fault /\ UNCHANGED <<srvlog, unstored>>

Trim(s) == IF Len(s) > MaxLogBuf THEN SubSeq(s, Len(s) - MaxLogBuf + 1, Len(s)) ELSE s

(* flushLogsLocked: the lines are sent and forgotten; after an error they   *)
(* are kept, whether the request was lost or its answer, and trimmed.       *)
FlushLogs ==
    \/ buf = <<>> /\ UNCHANGED <<buf, srvlog, unstored, vsync>>
    \/ buf # <<>> /\ offline /\ buf' = <<>> /\ UNCHANGED <<srvlog, unstored, vsync>>
    \/ buf # <<>> /\ ~offline
       /\ \/ Store /\ buf' = <<>> /\ SyncOk
          \/ srvlog' \in {srvlog, srvlog \o buf} /\ buf' = Trim(buf)
             /\ UNCHANGED unstored /\ SyncNetwork /\ Fault

(* The ticker, or a buffer that is full.                                    *)
PeriodicFlush ==
    /\ Alive /\ pc # "stop" /\ buf # <<>>
    /\ FlushLogs
    /\ UNCHANGED <<row, result, user, listed, vrun, lines, tries, vmain, vcall>>

AppendLog(t) ==
    /\ Alive /\ stage[t] = "running" /\ lines < MaxLines
    /\ lines' = lines + 1 /\ buf' = Append(buf, lines + 1)
    /\ UNCHANGED <<vserver, vrun, tries, vsync, vmain, vcall>>

--------------------------------------------------------------------------------
(* The main goroutine.                                                      *)

vstay == <<result, srvlog, unstored, user, listed, vrun, vlog, sig, hb>>

(* The scheduler is built and the context's cancel function handed over; or *)
(* the CLI gives up, or was only asked for the plan.                        *)
Setup ==
    /\ pc = "setup"
    /\ \/ pc' = "start" /\ cancelFn' = TRUE /\ sig' = "armed"
       \/ pc' = "exit" /\ UNCHANGED <<cancelFn, sig>>
    /\ UNCHANGED <<vserver, ctx, remote, stage, out, vlog, vsync, hb, local, vcall>>

Following(l) == IF l = "start" THEN "total" ELSE IF l = "total" THEN "run" ELSE "stop"

(* OnRunStart, SetTotalTasks and the last request of a report.              *)
AskStatus ==
    /\ pc \in {"start", "total", "final"} /\ call["main"] = "none" /\ ~offline
    /\ Ask("main") /\ req' = pc
    /\ UNCHANGED <<vserver, vrun, vlog, vsync, vmain>>

StatusAnswered ==
    /\ pc \in {"start", "total", "final"}
    /\ Answered("main") /\ pc' = Following(pc)
    /\ UNCHANGED <<row, vstay, local>>

StatusOffline ==
    /\ pc \in {"start", "total", "final"} /\ call["main"] = "none" /\ offline
    /\ pc' = Following(pc)
    /\ UNCHANGED <<row, vstay, local, vsync, vcall>>

(* OnTaskStart creates the task on the server and then updates its status.  *)
OnTaskStart(t) ==
    IF offline THEN UNCHANGED <<result, vsync>>
    ELSE \/ result' = [result EXCEPT ![t] = "running"] /\ SyncOk /\ NoFault
         \/ result' \in {[result EXCEPT ![t] = s] : s \in {"none", "pending", "running"}}
            /\ SyncNetwork /\ Fault

StartTask(t) ==
    /\ pc = "run" /\ stage[t] = "todo"
    /\ \A n \in Needs[t] : out[n] \in {"success", "skipped"}
    /\ stage' = [stage EXCEPT ![t] = "running"]
    /\ OnTaskStart(t)
    /\ UNCHANGED <<row, srvlog, unstored, user, listed, cancelFn, ctx, remote, out, vlog,
                   vmain, vcall>>

(* Faulty: a failure is counted as a failure only.                          *)
UpdateTaskStatus_FailedOnly(t, s) ==
    /\ result' = [result EXCEPT ![t] = s]
    /\ row' = [row EXCEPT !.completed = @ + (IF s = "success" THEN 1 ELSE 0),
                          !.failed = @ + (IF s = "failed" THEN 1 ELSE 0)]

(* UpdateTaskStatus: the counters count what succeeded or was cached, and   *)
(* what failed.                                                             *)
UpdateTaskStatus(t, s) ==
    /\ result' = [result EXCEPT ![t] = s]
    /\ row' = [row EXCEPT !.completed = @ + (IF s \in {"success", "failed"} THEN 1 ELSE 0),
                          !.failed = @ + (IF s = "failed" THEN 1 ELSE 0)]

(* OnTaskComplete: a task the server does not know is refused.              *)
OnTaskComplete(t, s) ==
    \/ offline /\ UNCHANGED <<row, result, vsync>>
    \/ ~offline /\ result[t] = "none" /\ SyncRefused /\ NoFault /\ UNCHANGED <<row, result>>
    \/ ~offline /\ result[t] # "none" /\ UpdateTaskStatus(t, s)
       /\ \/ SyncOk /\ NoFault
          \/ SyncNetwork /\ Fault
    \/ ~offline /\ SyncNetwork /\ Fault /\ UNCHANGED <<row, result>>

(* The scheduler's context is a child of ctx, which fail-fast cancels too.   *)
Cancelled == ctx # "live" \/ \E t \in Task : stage[t] = "done" /\ out[t] \in {"failed", "cancelled"}

(* A task ends, cancelled only if that context is; a condition that does    *)
(* not hold ends it as skipped.                                             *)
EndTask(t) ==
    /\ pc = "run" /\ stage[t] = "running"
    /\ stage' = [stage EXCEPT ![t] = "done"]
    /\ \E o \in {"success", "failed", "skipped"} \cup
                (IF Cancelled THEN {"cancelled"} ELSE {}) :
         out' = [out EXCEPT ![t] = o] /\ OnTaskComplete(t, o)
    /\ UNCHANGED <<srvlog, unstored, user, listed, cancelFn, ctx, remote, vlog, vmain, vcall>>

(* A task is skipped for a need that failed or was itself skipped so.       *)
SkipTask(t) ==
    /\ pc = "run" /\ stage[t] = "todo"
    /\ \E n \in Needs[t] : out[n] \in {"failed", "cancelled", "blocked"}
    /\ stage' = [stage EXCEPT ![t] = "done"]
    /\ out' = [out EXCEPT ![t] = "blocked"] /\ OnTaskComplete(t, "skipped")
    /\ UNCHANGED <<srvlog, unstored, user, listed, cancelFn, ctx, remote, vlog, vmain, vcall>>

(* The scheduler returns; it leaves tasks out only after a failure or a     *)
(* cancellation.                                                            *)
RunEnds ==
    /\ pc = "run"
    /\ \A t \in Task : stage[t] # "running"
    /\ ctx # "live" \/ Verdict = "failed" \/ \A t \in Plan : stage[t] = "done"
    /\ pc' = "check"
    /\ UNCHANGED <<row, vstay, local, vsync, vcall>>

(* Faulty: the run is reported without a look at the note.                  *)
CheckRemote_Ignored ==
    /\ pc = "check" /\ pc' = "local"
    /\ UNCHANGED <<row, vstay, local, vsync, vcall>>

(* Faulty: a run that was cancelled in any way is left to the others to     *)
(* report.                                                                  *)
CheckRemote_AnyCancel ==
    /\ pc = "check"
    /\ pc' = IF ctx = "live" THEN "local" ELSE "stop"
    /\ UNCHANGED <<row, vstay, local, vsync, vcall>>

(* Nothing is reported of a run that was cancelled remotely.                *)
CheckRemote ==
    /\ pc = "check"
    /\ pc' = IF remote THEN "stop" ELSE "local"
    /\ UNCHANGED <<row, vstay, local, vsync, vcall>>

(* OnRunComplete or OnRunFailed: the local record, the logs, the status.    *)
RecordVerdict ==
    /\ pc = "local" /\ pc' = "flush" /\ local' = Verdict
    /\ UNCHANGED <<row, vstay, vsync, vcall>>

ReportFlush ==
    /\ pc = "flush" /\ pc' = "final"
    /\ FlushLogs
    /\ UNCHANGED <<row, result, user, listed, vrun, lines, tries, sig, hb, local,
                   vcall>>

(* Stop ends the goroutines and flushes at most three times.                *)
StopFlush ==
    /\ pc = "stop" /\ tries < 3 /\ (tries = 0 \/ (buf # <<>> /\ ~offline))
    /\ tries' = tries + 1 /\ hb' = IF hb = "on" THEN "off" ELSE hb
    /\ FlushLogs
    /\ UNCHANGED <<row, result, user, listed, vrun, lines, pc, sig, local, vcall>>

Exit ==
    /\ pc = "stop" /\ tries > 0 /\ (tries = 3 \/ buf = <<>> \/ offline)
    /\ pc' = "exit"
    /\ UNCHANGED <<row, vstay, local, vsync, vcall>>

Crash ==
    /\ Alive /\ MayDisturb /\ pc' = "crashed"
    /\ UNCHANGED <<row, vstay, local, vsync, vcall>>

--------------------------------------------------------------------------------
(* The signal handler: it cancels the context, and OnCancelled updates the  *)
(* local record and cancels the run on the server.                          *)

vsig == <<vserver, cancelFn, remote, stage, out, vlog, hb, pc>>

Interrupt ==
    /\ Alive /\ MayDisturb /\ sig = "armed" /\ sig' = "local"
    /\ ctx' = "cancelled"
    /\ UNCHANGED <<vsig, local, vsync, vcall>>

RecordCancelled ==
    /\ Alive /\ sig = "local" /\ sig' = "remote"
    /\ local' = "cancelled"
    /\ UNCHANGED <<vsig, ctx, vsync, vcall>>

AskCancel ==
    /\ Alive /\ sig = "remote" /\ sig' = "done"
    /\ IF offline THEN UNCHANGED vcall ELSE Ask("signal") /\ UNCHANGED req
    /\ UNCHANGED <<vsig, ctx, local, vsync>>

CancelAnswered ==
    /\ Alive /\ sig = "done" /\ Answered("signal")
    /\ UNCHANGED <<vsig, ctx, sig, local>>

--------------------------------------------------------------------------------
Server ==
    \/ \E a \in Caller : HandlerRead(a) \/ HandlerWrite(a) \/ RequestLost(a)
    \/ UserCancels
StaleJob   == ListStaleRuns \/ MarkAsStale
Hb         == MarkRemote \/ RecordRemote \/ CancelRemote
TaskStep(t) == StartTask(t) \/ EndTask(t) \/ SkipTask(t) \/ AppendLog(t)
Main ==
    \/ Setup \/ AskStatus \/ StatusAnswered \/ StatusOffline \/ RunEnds
    \/ CheckRemote \/ RecordVerdict \/ ReportFlush \/ StopFlush \/ Exit \/ Crash
Signal == Interrupt \/ RecordCancelled \/ AskCancel \/ CancelAnswered

Next ==
    \/ Server \/ Heartbeat \/ Hb \/ StaleJob \/ PeriodicFlush \/ Main \/ Signal
    \/ \E t \in Task : TaskStep(t)

(* The stale job runs every minute, and of the heartbeats sent every five   *)
(* seconds one gets through.                                                *)
Fairness == WF_vars(Heartbeat) /\ WF_vars(StaleJob)

Spec == Init /\ [][Next]_vars /\ Fairness

--------------------------------------------------------------------------------
RowType == [status : {"pending", "running"} \cup Terminal,
            completed : 0 .. Cardinality(Plan), failed : 0 .. Cardinality(Plan),
            total : {0, Cardinality(Plan)},
            beat : BOOLEAN, gone : BOOLEAN]

(* The variables have the values the code can give them; in particular no   *)
(* more tasks are counted than there are (UpdateTaskStatus, CancelRun).     *)
TypeOK ==
    /\ row \in RowType /\ row.failed <= row.completed
    /\ snap \in [Caller -> RowType]
    /\ result \in [Task -> {"none", "pending", "running", "skipped"} \cup Terminal]
    /\ \A i \in DOMAIN srvlog : srvlog[i] \in 1 .. lines
    /\ \A i \in DOMAIN buf : buf[i] \in 1 .. lines
    /\ unstored \subseteq 1 .. lines /\ lines \in 0 .. MaxLines /\ tries \in 0 .. 3
    /\ user \in {"idle", "asked"} /\ listed \in BOOLEAN
    /\ local \in {"running"} \cup Terminal
    /\ pc \in {"setup", "start", "total", "run", "check", "local", "flush", "final",
               "stop", "exit", "crashed"}
    /\ sig \in {"off", "armed", "local", "remote", "done"}
    /\ hb \in {"on", "mark", "record", "cancel", "off"}
    /\ call \in [Caller -> {"none", "read", "write", "ok", "conflict", "lost"}]
    /\ req \in {"none", "start", "total", "final"}
    /\ {cancelFn, remote, offline} \subseteq BOOLEAN /\ ctx \in {"live", "cancelled"}
    /\ stage \in [Task -> {"unplanned", "todo", "running", "done"}]
    /\ out \in [Task -> {"none", "success", "failed", "cancelled", "skipped", "blocked"}]
    /\ errors \in Nat /\ faults \in 0 .. MaxSize

(* A run that was stopped from the dashboard before all its tasks had run is *)
(* never reported or recorded as a success: the heartbeat goroutine notes    *)
(* the cancellation before it cancels the context (remote_sync.go 594-598),  *)
(* and main looks at the note after the scheduler has returned (run.go 245). *)
StoppedIsNotSuccess ==
    sig \in {"off", "armed"} /\ "success" \in {row.status, local} =>
        \A t \in Plan : out[t] \in {"success", "skipped"}

(* Once it has begun to report (an exit before that, from Setup, flushes    *)
(* nothing: tries = 0), the CLI leaves no run open: if it lost no request,  *)
(* and has not left the report to the one who cancelled the run, the row is *)
(* final when it exits, whether or not the signal handler got to its        *)
(* request (run.go 240-255).  A run that nobody cancelled ends on the       *)
(* server as it did locally, or stays running if the report was lost; and   *)
(* its counters agree with what its tasks did: a task that fail-fast        *)
(* cancelled is in none of them.                                            *)
ReportAgrees ==
    pc = "exit" /\ tries > 0 =>
        /\ faults = 0 /\ ~remote => row.status \in Terminal
        /\ sig = "armed" /\ user = "idle" =>
             /\ row.status \in Terminal => row.status = local
             /\ faults = 0 =>
                  /\ row.total = Cardinality(Plan)
                  /\ row.completed = Cardinality({t \in Task : out[t] \in {"success", "failed"}})
                  /\ row.failed = Cardinality({t \in Task : out[t] = "failed"})

(* Whatever is lost on the way, a log line is on the server or in the buffer *)
(* until the CLI goes offline or MaxLogBuf later lines have pushed it out,   *)
(* unless the server has answered OK for it and failed to insert it          *)
(* (AppendLog, handlers/runs.go 2004-2006); and but for lines it has         *)
(* already, the server gets the lines in order (flushLogsLocked keeps what   *)
(* it could not send).                                                       *)
NoLineLost ==
    /\ ~offline => \A l \in 1 .. lines :
           l + MaxLogBuf > lines => l \in Range(srvlog) \cup Range(buf) \cup unstored
    /\ faults = 0 => unstored = {}
    /\ \A j \in DOMAIN srvlog :
           LET before == {srvlog[i] : i \in 1 .. j - 1} IN
           srvlog[j] \in before \/ \A l \in before : l < srvlog[j]

(* The dashboard ends up with the truth about a run's client: one that died  *)
(* after its first heartbeat is marked as disconnected, and one that was     *)
(* marked while it lives is connected again (ListStaleRuns, MarkAsStale and  *)
(* UpdateHeartbeat, in any order).                                           *)
ClientPresence ==
    /\ (pc = "crashed" /\ row.status = "running" /\ row.beat) ~>
           (row.gone \/ row.status # "running")
    /\ row.gone ~> (~row.gone \/ ~Alive \/ offline \/ hb # "on")
================================================================================
