-------------------------------- MODULE Cluster --------------------------------
(***************************************************************************)
(* Distributed execution (pkg/cluster, pkg/agent): the dispatcher inserts  *)
(* an assignment, puts it on the channel of a connected worker and polls   *)
(* the row until a verdict; the registry keeps the connections; a worker   *)
(* agent executes what its task stream delivers and sends events back; the *)
(* reassigner looks for the assignments of workers that are offline.       *)
(*                                                                         *)
(* A worker that registers again, being known by its host name, keeps its  *)
(* identity, so a connection is a worker and the number of its             *)
(* registration.  A task has one assignment: Execute is called once.       *)
(* Commands, workspaces and resource snapshots are abstracted.             *)
(***************************************************************************)
EXTENDS Naturals, FiniteSets, Sequences

CONSTANTS
    Task,           \* the tasks dispatched to workers
    PreferLocal,    \* those routed without looking at the worker's row
    Worker,         \* the workers of the cluster the tasks are routed to
    MaxConcurrent,  \* Info.MaxConcurrentTasks of every worker
    ChanCap,        \* the capacity of a TaskCh
    MaxRetries,     \* assignment.MaxRetries
    MaxSessions,    \* bound on the registrations of a worker
    MaxFaults       \* bound on crashes, stalls, shutdowns and drains

ASSUME ClusterAssumption ==
    /\ PreferLocal \subseteq Task
    /\ {MaxConcurrent, ChanCap, MaxRetries, MaxSessions} \subseteq Nat \ {0}
    /\ MaxFaults \in Nat

Session == 1 .. MaxSessions
Conn    == Worker \X Session

VARIABLES
    status,     \* workers.status in the database
    session,    \* how often a worker has registered
    registry,   \* the session of the entry of a worker, 0 without one
    reported,   \* ActiveTasks of that entry
    taskCh,     \* the buffered dispatches of a connection
    closed,     \* connections whose channels are closed
    handlers,   \* connections whose RegisterWorker stream is still served
    leaving,    \* removed connections whose row is not yet set offline
    agent,      \* the agent process of a worker
    accepted,   \* tasks an agent accepted and has not begun
    executing,  \* tasks an agent executes
    events,     \* task events on their way to the server
    row,        \* task_assignments.status of a task
    retries,    \* retry_count; a row with a retry has no worker
    target,     \* the connection Execute has chosen
    pc,         \* where Execute is
    verdict,    \* the result of Execute and where it comes from
    listed,     \* the reassigner's list of orphaned assignments
    panicked,   \* the server process has panicked
    faults,     \* how many disturbances there have been
    outcome     \* what its execution ended in

vconn    == <<session, registry, reported, closed, handlers, leaving>>
vagent   == <<agent, accepted, executing, outcome>>
vexec    == <<target, pc, verdict>>
vrow     == <<row, retries>>
vrest    == <<listed, panicked>>
vars     == <<status, vconn, taskCh, vagent, events, vrow, vexec, vrest, faults>>

None == <<>>

Init ==
    /\ status = [w \in Worker |-> "absent"]
    /\ session = [w \in Worker |-> 0]
    /\ registry = [w \in Worker |-> 0]
    /\ reported = [w \in Worker |-> 0]
    /\ taskCh = [c \in Conn |-> <<>>]
    /\ closed = {} /\ handlers = {} /\ leaving = {}
    /\ agent = [w \in Worker |-> "off"]
    /\ accepted = [w \in Worker |-> {}]
    /\ executing = [w \in Worker |-> {}]
    /\ events = [w \in Worker |-> <<>>]
    /\ row = [t \in Task |-> "none"]
    /\ retries = [t \in Task |-> 0]
    /\ target = [t \in Task |-> None]
    /\ pc = [t \in Task |-> "idle"]
    /\ verdict = [t \in Task |-> "none"]
    /\ listed = {}
    /\ panicked = FALSE
    /\ faults = 0
    /\ outcome = [t \in Task |-> "none"]

--------------------------------------------------------------------------------
(* The registry and the heartbeat stream.                                   *)

(* One disturbance more; what the code does about it is not bounded.        *)
Disturb == faults < MaxFaults /\ faults' = faults + 1

(* Updates of the database whose error is ignored: done, or not.            *)
SetStatus(w, s) == status' \in {status, [status EXCEPT ![w] = s]}
SetRow(t, s)    == row' \in {row, [row EXCEPT ![t] = s]}

(* Faulty: a worker that comes back is given the channel it had.            *)
Register_KeepsChannel(w) ==
    /\ ~panicked /\ agent[w] = "off" /\ session[w] < MaxSessions
    /\ LET s == session[w] + 1
       IN  /\ session' = [session EXCEPT ![w] = s]
           /\ registry' = [registry EXCEPT ![w] = s]
           /\ handlers' = handlers \cup {<<w, s>>}
           /\ taskCh' = IF s = 1 THEN taskCh
                        ELSE [taskCh EXCEPT ![<<w, s>>] = taskCh[<<w, s - 1>>],
                                            ![<<w, s - 1>>] = <<>>]
    /\ reported' = [reported EXCEPT ![w] = 0]
    /\ status' = [status EXCEPT ![w] = "online"]
    /\ agent' = [agent EXCEPT ![w] = "up"]
    /\ UNCHANGED <<closed, leaving, accepted, executing, outcome, events, vrow,
                   vexec, vrest, faults>>

(* An agent starts and its first heartbeat registers it: the row is upserted *)
(* as online, and the entry of an earlier registration is replaced without  *)
(* its channels being closed.                                               *)
Register(w) ==
    /\ ~panicked /\ agent[w] = "off" /\ session[w] < MaxSessions
    /\ LET s == session[w] + 1
       IN  /\ session' = [session EXCEPT ![w] = s]
           /\ registry' = [registry EXCEPT ![w] = s]
           /\ handlers' = handlers \cup {<<w, s>>}
    /\ reported' = [reported EXCEPT ![w] = 0]
    /\ status' = [status EXCEPT ![w] = "online"]
    /\ agent' = [agent EXCEPT ![w] = "up"]
    /\ UNCHANGED <<closed, leaving, taskCh, accepted, executing, outcome,
                   events, vrow, vexec, vrest, faults>>

(* A later heartbeat.  Without an entry in the registry the error is        *)
(* ignored and the agent gets its acknowledgement all the same.             *)
Heartbeat(w) ==
    /\ ~panicked /\ agent[w] # "off" /\ registry[w] # 0
    /\ reported' = [reported EXCEPT ![w] = Cardinality(executing[w])]
    /\ SetStatus(w, "online")
    /\ UNCHANGED <<session, registry, closed, handlers, leaving,
                   taskCh, vagent, events, vrow, vexec, vrest, faults>>

(* Faulty: the channels of the entry are not closed.                        *)
Remove_LeavesOpen(w) ==
    /\ leaving' = leaving \cup {<<w, registry[w]>>}
    /\ registry' = [registry EXCEPT ![w] = 0]
    /\ UNCHANGED closed

(* Faulty: the entry is not deleted.                                        *)
Remove_KeepsEntry(w) ==
    LET c == <<w, registry[w]>>
    IN  /\ closed' = closed \cup {c}
        /\ leaving' = leaving \cup {c}
        /\ UNCHANGED registry

(* The entry of w leaves the registry and its channels are closed; the row  *)
(* is set offline after the lock is released.                               *)
Remove(w) ==
    LET c == <<w, registry[w]>>
    IN  /\ closed' = closed \cup {c}
        /\ leaving' = leaving \cup {c}
        /\ registry' = [registry EXCEPT ![w] = 0]

(* The heartbeat stream of a session whose agent is gone ends.  Deregister  *)
(* goes by the worker's identity and takes whichever entry it finds.        *)
StreamEnds(c) ==
    LET w == c[1]
    IN  /\ ~panicked /\ c \in handlers
        /\ agent[w] = "off" \/ session[w] # c[2]
        /\ handlers' = handlers \ {c}
        /\ IF registry[w] # 0 THEN Remove(w)
           ELSE UNCHANGED <<closed, leaving, registry>>
        /\ UNCHANGED <<status, session, reported, taskCh, vagent, events,
                       vrow, vexec, vrest, faults>>

(* No heartbeat has come for the timeout, be the agent dead or only slow.   *)
DetectStale(w) ==
    /\ ~panicked /\ registry[w] # 0
    /\ Remove(w)
    /\ IF agent[w] = "off" THEN UNCHANGED faults ELSE Disturb
    /\ UNCHANGED <<status, session, reported, handlers, taskCh, vagent,
                   events, vrow, vexec, vrest>>

MarkOffline(c) ==
    /\ ~panicked /\ c \in leaving
    /\ leaving' = leaving \ {c}
    /\ SetStatus(c[1], "offline")
    /\ UNCHANGED <<session, registry, reported, closed, handlers,
                   taskCh, vagent, events, vrow, vexec, vrest, faults>>

(* The API handler that drains a worker.                                    *)
DrainWorker(w) ==
    /\ ~panicked /\ status[w] \notin {"absent", "draining"}
    /\ status' = [status EXCEPT ![w] = "draining"]
    /\ Disturb
    /\ UNCHANGED <<vconn, taskCh, vagent, events, vrow, vexec, vrest>>

--------------------------------------------------------------------------------
(* Execute of the dispatcher for task t.  A panic ends everything the       *)
(* server does.                                                             *)

Eligible(t, w) ==
    /\ registry[w] # 0
    /\ t \in PreferLocal \/ status[w] = "online"
    /\ reported[w] < MaxConcurrent

(* Execute returns a failure without having sent anything.                  *)
Fail(t) ==
    /\ verdict' = [verdict EXCEPT ![t] = "not sent"]
    /\ pc' = [pc EXCEPT ![t] = "done"]

(* The router picks any eligible worker.  The task fails when there is none *)
(* or the database answers with an error.                                   *)
Choose(t) ==
    /\ ~panicked /\ pc[t] = "idle"
    /\ \/ \E w \in Worker :
              /\ Eligible(t, w)
              /\ target' = [target EXCEPT ![t] = <<w, registry[w]>>]
              /\ pc' = [pc EXCEPT ![t] = "chosen"]
              /\ UNCHANGED verdict
       \/ Fail(t) /\ UNCHANGED target
    /\ UNCHANGED <<status, vconn, taskCh, vagent, events, vrow, vrest, faults>>

CreateAssignment(t) ==
    /\ ~panicked /\ pc[t] = "chosen"
    /\ \/ /\ row' = [row EXCEPT ![t] = "assigned"]
          /\ pc' = [pc EXCEPT ![t] = "sending"]
          /\ UNCHANGED verdict
       \/ Fail(t) /\ UNCHANGED row
    /\ UNCHANGED <<status, vconn, taskCh, vagent, events, retries, target, vrest,
                   faults>>

(* The send to TaskCh.  On a channel that was closed since the worker was   *)
(* chosen it panics.                                                        *)
SendDispatch(t) ==
    /\ ~panicked /\ pc[t] = "sending"
    /\ IF target[t] \in closed
       THEN /\ panicked' = TRUE
            /\ UNCHANGED <<taskCh, pc>>
       ELSE /\ Len(taskCh[target[t]]) < ChanCap
            /\ taskCh' = [taskCh EXCEPT ![target[t]] = Append(@, t)]
            /\ pc' = [pc EXCEPT ![t] = "sent"]
            /\ UNCHANGED panicked
    /\ UNCHANGED <<status, vconn, vagent, events, vrow, target, verdict, listed,
                   faults>>

(* The context of the run is done: the other branch of the select, which    *)
(* leaves the row as it is.                                                 *)
GiveUpSending(t) ==
    /\ ~panicked /\ pc[t] = "sending"
    /\ verdict' = [verdict EXCEPT ![t] = "cancelled"]
    /\ pc' = [pc EXCEPT ![t] = "done"]
    /\ UNCHANGED <<status, vconn, taskCh, vagent, events, vrow, target, vrest,
                   faults>>

(* After the send the row is set to running, whatever it says by now.       *)
MarkRunning(t) ==
    /\ ~panicked /\ pc[t] = "sent"
    /\ SetRow(t, "running")
    /\ pc' = [pc EXCEPT ![t] = "polling"]
    /\ UNCHANGED <<status, vconn, taskCh, vagent, events, retries, target, verdict,
                   vrest, faults>>

(* The poll reads a final status.                                           *)
Poll(t) ==
    /\ ~panicked /\ pc[t] = "polling"
    /\ row[t] \in {"completed", "failed"}
    /\ verdict' = [verdict EXCEPT ![t] = IF row[t] = "completed" THEN "success"
                                         ELSE "failed"]
    /\ pc' = [pc EXCEPT ![t] = "deciding"]
    /\ UNCHANGED <<status, vconn, taskCh, vagent, events, vrow, target, vrest,
                   faults>>

(* Thirty minutes have passed, or the context is done.                      *)
StopPolling(t) ==
    /\ ~panicked /\ pc[t] = "polling"
    /\ \E v \in {"timed out", "cancelled"} : verdict' = [verdict EXCEPT ![t] = v]
    /\ pc' = [pc EXCEPT ![t] = "deciding"]
    /\ UNCHANGED <<status, vconn, taskCh, vagent, events, vrow, target, vrest,
                   faults>>

(* The final status of the row is written from the verdict.                 *)
Conclude(t) ==
    /\ ~panicked /\ pc[t] = "deciding"
    /\ SetRow(t, IF verdict[t] = "success" THEN "completed" ELSE "failed")
    /\ pc' = [pc EXCEPT ![t] = "done"]
    /\ UNCHANGED <<status, vconn, taskCh, vagent, events, retries, target, verdict,
                   vrest, faults>>

--------------------------------------------------------------------------------
(* The task stream and the agent.                                           *)

Live(c) == agent[c[1]] # "off" /\ session[c[1]] = c[2]

(* The sending goroutine takes a dispatch off the channel, closed or not,   *)
(* and the agent receives it: it accepts, or rejects while it drains.       *)
Deliver(c) ==
    LET w == c[1]  t == Head(taskCh[c])
    IN  /\ ~panicked /\ taskCh[c] # <<>> /\ Live(c)
        /\ taskCh' = [taskCh EXCEPT ![c] = Tail(@)]
        /\ IF agent[w] = "draining"
           THEN /\ events' = [events EXCEPT ![w] = Append(@, <<"rejected", t>>)]
                /\ UNCHANGED accepted
           ELSE /\ events' = [events EXCEPT ![w] = Append(@, <<"accepted", t>>)]
                /\ accepted' = [accepted EXCEPT ![w] = @ \cup {t}]
        /\ UNCHANGED <<status, vconn, agent, executing, outcome, vrow, vexec,
                       vrest, faults>>

(* The stream is dead and the dispatch is lost.  Once a send has reported   *)
(* the error the goroutine is gone, and what comes later stays in the       *)
(* channel: that is this step not being taken.                              *)
LoseDispatch(c) ==
    /\ ~panicked /\ taskCh[c] # <<>> /\ ~Live(c)
    /\ taskCh' = [taskCh EXCEPT ![c] = Tail(@)]
    /\ UNCHANGED <<status, vconn, vagent, events, vrow, vexec, vrest, faults>>

(* The semaphore lets an accepted task begin.                               *)
BeginTask(w, t) ==
    /\ t \in accepted[w] /\ Cardinality(executing[w]) < MaxConcurrent
    /\ accepted' = [accepted EXCEPT ![w] = @ \ {t}]
    /\ executing' = [executing EXCEPT ![w] = @ \cup {t}]
    /\ outcome' = [outcome EXCEPT ![t] = "begun"]
    /\ UNCHANGED <<status, vconn, taskCh, agent, events, vrow, vexec, vrest, faults>>

EndTask(w, t) ==
    /\ t \in executing[w]
    /\ executing' = [executing EXCEPT ![w] = @ \ {t}]
    /\ \E o \in {"success", "failed"} :
           /\ outcome' = [outcome EXCEPT ![t] = o]
           /\ events' = [events EXCEPT ![w] = Append(@, <<o, t>>)]
    /\ UNCHANGED <<status, vconn, taskCh, agent, accepted, vrow, vexec, vrest,
                   faults>>

(* handleTaskEvent writes the row, whatever it says.                        *)
HandleEvent(w) ==
    /\ ~panicked /\ events[w] # <<>>
    /\ LET e == Head(events[w])
       IN  SetRow(e[2], CASE e[1] = "accepted" -> "running"
                          [] e[1] = "rejected" -> "pending"
                          [] e[1] = "success"  -> "completed"
                          [] e[1] = "failed"   -> "failed")
    /\ events' = [events EXCEPT ![w] = Tail(@)]
    /\ UNCHANGED <<status, vconn, taskCh, vagent, retries, vexec, vrest, faults>>

(* SIGTERM: the agent rejects new tasks and waits for those it has.         *)
BeginShutdown(w) ==
    /\ agent[w] = "up"
    /\ agent' = [agent EXCEPT ![w] = "draining"]
    /\ Disturb
    /\ UNCHANGED <<status, vconn, taskCh, accepted, executing, outcome,
                   events, vrow, vexec, vrest>>

(* The agent process is gone.  Events it had not sent are lost.             *)
Leave(w) ==
    /\ agent' = [agent EXCEPT ![w] = "off"]
    /\ accepted' = [accepted EXCEPT ![w] = {}]
    /\ executing' = [executing EXCEPT ![w] = {}]
    /\ \E n \in 0 .. Len(events[w]) :
           events' = [events EXCEPT ![w] = SubSeq(@, 1, n)]
    /\ UNCHANGED <<status, vconn, taskCh, outcome, vrow, vexec, vrest>>

(* Shutdown ends once the tasks have ended; it does not wait for the        *)
(* goroutine that sends their events.                                       *)
EndShutdown(w) ==
    /\ agent[w] = "draining" /\ accepted[w] = {} /\ executing[w] = {}
    /\ Leave(w)
    /\ UNCHANGED faults

(* The process dies, or one of its streams breaks and Start returns.        *)
Crash(w) ==
    /\ agent[w] # "off"
    /\ Leave(w)
    /\ Disturb

--------------------------------------------------------------------------------
(* The reassigner.                                                          *)

Orphaned ==
    {t \in Task : /\ row[t] \in {"assigned", "running"}
                  /\ retries[t] = 0
                  /\ status[target[t][1]] = "offline"}

ListOrphaned ==
    /\ ~panicked /\ listed = {} /\ Orphaned # {}
    /\ listed' = Orphaned
    /\ UNCHANGED <<status, vconn, taskCh, vagent, events, vrow, vexec, panicked,
                   faults>>

(* Faulty: the test for exhausted retries is the wrong way round.           *)
Reassign_WrongTest(t) ==
    /\ ~panicked /\ t \in listed
    /\ listed' = listed \ {t}
    /\ \/ /\ IF retries[t] <= MaxRetries
             THEN SetRow(t, "failed") /\ UNCHANGED retries
             ELSE /\ row' = [row EXCEPT ![t] = "pending"]
                  /\ retries' = [retries EXCEPT ![t] = @ + 1]
       \/ UNCHANGED vrow
    /\ UNCHANGED <<status, vconn, taskCh, vagent, events, vexec, panicked,
                   faults>>

(* Every assignment of the list is failed or made pending, whatever its row *)
(* says by now.  Its retry count is the one of the list.  Nothing in the    *)
(* code dispatches a pending row.                                           *)
Reassign(t) ==
    /\ ~panicked /\ t \in listed
    /\ listed' = listed \ {t}
    /\ \/ /\ IF retries[t] >= MaxRetries
             THEN SetRow(t, "failed") /\ UNCHANGED retries
             ELSE /\ row' = [row EXCEPT ![t] = "pending"]
                  /\ retries' = [retries EXCEPT ![t] = @ + 1]
       \/ UNCHANGED vrow
    /\ UNCHANGED <<status, vconn, taskCh, vagent, events, vexec, panicked,
                   faults>>

--------------------------------------------------------------------------------
Execute(t) ==
    \/ Choose(t) \/ CreateAssignment(t) \/ SendDispatch(t) \/ GiveUpSending(t)
    \/ MarkRunning(t) \/ Poll(t) \/ StopPolling(t) \/ Conclude(t)

AgentStep(w) ==
    \/ \E t \in Task : BeginTask(w, t) \/ EndTask(w, t)
    \/ Register(w) \/ BeginShutdown(w) \/ EndShutdown(w) \/ Crash(w)

ServerStep ==
    \/ \E w \in Worker :
           Heartbeat(w) \/ DetectStale(w) \/ DrainWorker(w) \/ HandleEvent(w)
    \/ \E c \in Conn :
           StreamEnds(c) \/ MarkOffline(c) \/ Deliver(c) \/ LoseDispatch(c)
    \/ ListOrphaned

Next ==
    \/ \E t \in Task : Execute(t) \/ Reassign(t)
    \/ \E w \in Worker : AgentStep(w)
    \/ ServerStep

(* Broken streams are noticed, the stale detector's ticker fires, and the   *)
(* database answers.                                                        *)
Spec ==
    /\ Init /\ [][Next]_vars
    /\ \A c \in Conn : WF_vars(StreamEnds(c)) /\ WF_vars(MarkOffline(c))
    /\ \A w \in Worker : WF_vars(agent[w] = "off" /\ DetectStale(w))

--------------------------------------------------------------------------------
TypeOK ==
    /\ status \in [Worker -> {"absent", "online", "draining", "offline"}]
    /\ session \in [Worker -> 0 .. MaxSessions]
    /\ registry \in [Worker -> 0 .. MaxSessions]
    /\ reported \in [Worker -> 0 .. MaxConcurrent]
    /\ taskCh \in [Conn -> Seq(Task)]
    /\ \A c \in Conn : Len(taskCh[c]) <= ChanCap
    /\ closed \subseteq Conn /\ handlers \subseteq Conn
    /\ leaving \subseteq closed
    /\ agent \in [Worker -> {"off", "up", "draining"}]
    /\ accepted \in [Worker -> SUBSET Task]
    /\ executing \in [Worker -> SUBSET Task]
    /\ events \in [Worker -> Seq({"accepted", "rejected", "success", "failed"}
                                   \X Task)]
    /\ row \in [Task -> {"none", "assigned", "running", "pending", "completed",
                         "failed"}]
    /\ faults \in 0 .. MaxFaults
    /\ retries \in [Task -> 0 .. MaxRetries]
    /\ target \in [Task -> Conn \cup {None}]
    /\ pc \in [Task -> {"idle", "chosen", "sending", "sent", "polling",
                        "deciding", "done"}]
    /\ verdict \in [Task -> {"none", "not sent", "success", "failed",
                             "timed out", "cancelled"}]
    /\ listed \subseteq Task
    /\ panicked \in BOOLEAN
    /\ outcome \in [Task -> {"none", "begun", "success", "failed"}]

(* A verdict read from the row is what the worker's execution ended in:     *)
(* with every writer of the row overwriting it unconditionally, no mix of   *)
(* late events, crashes, re-registrations and reassignment makes up a       *)
(* success or a failure (dispatcher.go:351-360, grpc_server.go:306-342).    *)
VerdictIsOutcome ==
    \A t \in Task :
        verdict[t] \in {"success", "failed"} => outcome[t] = verdict[t]

(* A task is executed at most once, and by the session of the worker it was *)
(* sent to: no dispatch is delivered twice, nor to the agent that comes     *)
(* back under the same name (dispatcher.go:261, grpc_server.go:258).        *)
ExecutedAtMostOnce ==
    \A t \in Task :
        \A w \in Worker :
            /\ t \in accepted[w] => outcome[t] = "none"
            /\ t \in accepted[w] \cup executing[w] => target[t] = <<w, session[w]>>

(* The entry in the registry has open channels, so nobody closes a channel  *)
(* a second time, which would panic; and it is the last session's.          *)
RegistryEntriesOpen ==
    \A w \in Worker : registry[w] # 0 =>
        /\ <<w, registry[w]>> \notin closed
        /\ registry[w] = session[w]

(* The entry of an agent that is gone leaves the registry, or the agent     *)
(* comes back.                                                              *)
DeadWorkersLeave ==
    \A w \in Worker :
        (agent[w] = "off" /\ registry[w] # 0)
            ~> (registry[w] = 0 \/ agent[w] # "off" \/ panicked)

(* With the registry, channels, rows and retries, dispatching does nothing  *)
(* that DispatchContract does not allow: one execution at most, one answer, *)
(* and neither is withdrawn (dispatcher.go:150-365, agent.go).              *)
Contract == INSTANCE DispatchContract WITH work <- outcome, answer <- verdict

ImplementsContract == Contract!Spec

(* handlers/cluster.go:582: draining a worker means "preventing new task    *)
(* assignments while allowing in-progress tasks to complete".               *)
DrainPreventsAssignments ==
    \A t \in Task \ PreferLocal, c \in Conn :
        [](status[c[1]] = "draining" /\ session[c[1]] = c[2] /\ pc[t] = "idle"
               => [](target[t] # c))
================================================================================
