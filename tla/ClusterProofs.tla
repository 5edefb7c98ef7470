----------------------------- MODULE ClusterProofs -----------------------------
(***************************************************************************)
(* Proofs about Cluster, for any number of tasks, workers, registrations   *)
(* and disturbances: its types, that the entries of the registry are       *)
(* usable, that a task is executed at most once, that a verdict is what    *)
(* the execution ended in, and that Cluster implements DispatchContract.   *)
(***************************************************************************)
EXTENDS Cluster, FiniteSetTheorems, TLAPS

(* The types, in five parts; the bound on the tasks an agent executes; and  *)
(* that Execute has a connection while it is going to send.                 *)
ConnTypes ==
    /\ status \in [Worker -> {"absent", "online", "draining", "offline"}]
    /\ session \in [Worker -> 0 .. MaxSessions]
    /\ registry \in [Worker -> 0 .. MaxSessions]
    /\ closed \subseteq Conn /\ handlers \subseteq Conn /\ leaving \subseteq closed
    /\ faults \in 0 .. MaxFaults /\ panicked \in BOOLEAN

ChannelTypes ==
    /\ taskCh \in [Conn -> Seq(Task)]
    /\ \A c \in Conn : Len(taskCh[c]) <= ChanCap
    /\ \A t \in Task : pc[t] \in {"chosen", "sending"} => target[t] \in Conn
    /\ target \in [Task -> Conn \cup {None}]
    /\ pc \in [Task -> {"idle", "chosen", "sending", "sent", "polling",
                        "deciding", "done"}]

AgentTypes ==
    /\ agent \in [Worker -> {"off", "up", "draining"}]
    /\ accepted \in [Worker -> SUBSET Task]
    /\ executing \in [Worker -> SUBSET Task]
    /\ \A w \in Worker : /\ IsFiniteSet(executing[w])
                         /\ Cardinality(executing[w]) <= MaxConcurrent
    /\ reported \in [Worker -> 0 .. MaxConcurrent]
    /\ outcome \in [Task -> {"none", "begun", "success", "failed"}]

EventKinds == {"accepted", "rejected", "success", "failed"}
EventTypes == events \in [Worker -> Seq(EventKinds \X Task)]

RowTypes ==
    /\ row \in [Task -> {"none", "assigned", "running", "pending", "completed",
                         "failed"}]
    /\ retries \in [Task -> 0 .. MaxRetries]
    /\ verdict \in [Task -> {"none", "not sent", "success", "failed",
                             "timed out", "cancelled"}]
    /\ listed \subseteq Task

TypeInv == ConnTypes /\ ChannelTypes /\ AgentTypes /\ EventTypes /\ RowTypes

(* The channels that are closed are those of sessions there have been.      *)
RegistryInv ==
    /\ RegistryEntriesOpen
    /\ \A c \in closed : c[2] <= session[c[1]]

(* A dispatch that was sent is in one place: once in the channel of the     *)
(* connection that was chosen, with the agent of that session, or begun.    *)
SentTo(t, c) == pc[t] \notin {"idle", "chosen", "sending"} /\ target[t] = c

ChannelInv ==
    \A c \in Conn : \A i \in DOMAIN taskCh[c] :
        /\ SentTo(taskCh[c][i], c)
        /\ outcome[taskCh[c][i]] = "none"
        /\ \A w \in Worker : taskCh[c][i] \notin accepted[w]
        /\ \A j \in DOMAIN taskCh[c] : taskCh[c][j] = taskCh[c][i] => i = j

AgentInv ==
    \A w \in Worker, t \in Task :
        /\ t \in accepted[w] => /\ SentTo(t, <<w, session[w]>>)
                                /\ outcome[t] = "none" /\ agent[w] # "off"
        /\ t \in executing[w] => /\ SentTo(t, <<w, session[w]>>)
                                 /\ outcome[t] = "begun" /\ agent[w] # "off"

BegunInv ==
    \A t \in Task : outcome[t] # "none" => pc[t] \notin {"idle", "chosen", "sending"}

PlaceInv == ChannelInv /\ AgentInv /\ BegunInv

(* Whatever says that a task succeeded or failed, an event under way or the *)
(* row while it is polled, says what the execution ended in.  Nothing that  *)
(* was retried is on the reassigner's list, so it fails no row.             *)
EventInv ==
    \A w \in Worker : \A i \in DOMAIN events[w] :
        events[w][i][1] \in {"success", "failed"} =>
            outcome[events[w][i][2]] = events[w][i][1]

RowInv ==
    \A t \in Task :
        /\ row[t] = "completed" => outcome[t] = "success"
        /\ row[t] = "failed" /\ pc[t] # "done" => outcome[t] = "failed"
        /\ t \in listed => retries[t] = 0

ReportInv == EventInv /\ RowInv /\ VerdictIsOutcome

IInv == TypeInv /\ RegistryInv /\ PlaceInv /\ ReportInv

USE DEF vars, vconn, vagent, vexec, vrow, vrest, Disturb

--------------------------------------------------------------------------------
LEMMA Bounds ==
    /\ MaxConcurrent \in Nat /\ MaxConcurrent # 0 /\ ChanCap \in Nat
    /\ MaxRetries \in Nat /\ MaxRetries # 0 /\ MaxSessions \in Nat
    /\ MaxFaults \in Nat
  BY ClusterAssumption

LEMMA Connections ==
    /\ \A w \in Worker, s \in Session : <<w, s>> \in Conn
    /\ \A c \in Conn : c[1] \in Worker /\ c[2] \in Session /\ c = <<c[1], c[2]>>
  BY DEF Conn

LEMMA TypeInit == Init => TypeInv
<1> SUFFICES ASSUME Init PROVE TypeInv
  OBVIOUS
<1> USE Bounds DEF Init
<1>1. ConnTypes
  <2>1. 0 \in 0 .. MaxSessions /\ 0 \in 0 .. MaxFaults
    BY ONLY Bounds
  <2> QED
    BY <2>1 DEF ConnTypes
<1>2. ChannelTypes
  <2>1. <<>> \in Seq(Task) /\ Len(<<>>) = 0
    OBVIOUS
  <2> QED
    BY <2>1 DEF ChannelTypes
<1>3. AgentTypes
  <2>1. IsFiniteSet({}) /\ Cardinality({}) = 0
    BY FS_EmptySet
  <2> QED
    BY <2>1 DEF AgentTypes
<1>4. EventTypes
  <2>1. <<>> \in Seq(EventKinds \X Task)
    OBVIOUS
  <2> QED
    BY <2>1 DEF EventTypes
<1>5. RowTypes
  BY DEF RowTypes
<1> QED
  BY <1>1, <1>2, <1>3, <1>4, <1>5 DEF TypeInv

LEMMA InvInit == Init => IInv
<1> SUFFICES ASSUME Init PROVE IInv
  OBVIOUS
<1>1. RegistryInv
  BY DEF Init, RegistryInv, RegistryEntriesOpen
<1>2. PlaceInv
  BY DEF Init, PlaceInv, ChannelInv, AgentInv, BegunInv
<1>3. ReportInv
  BY DEF Init, ReportInv, EventInv, RowInv, VerdictIsOutcome
<1> QED
  BY <1>1, <1>2, <1>3, TypeInit DEF IInv

LEMMA AppendEvent ==
    ASSUME NEW s \in Seq(EventKinds \X Task), NEW k \in EventKinds, NEW t \in Task
    PROVE  Append(s, <<k, t>>) \in Seq(EventKinds \X Task)
<1>1. <<k, t>> \in EventKinds \X Task
  OBVIOUS
<1> HIDE DEF EventKinds
<1> QED
  BY <1>1

LEMMA CutEvents ==
    ASSUME NEW s \in Seq(EventKinds \X Task), NEW n \in 0 .. Len(s)
    PROVE  SubSeq(s, 1, n) \in Seq(EventKinds \X Task)
<1> DEFINE S == EventKinds \X Task
<1>1. s \in Seq(S)
  OBVIOUS
<1> HIDE DEF S
<1>2. SubSeq(s, 1, n) \in Seq(S)
  BY <1>1
<1> QED
  BY <1>2 DEF S

LEMMA TakeEvent ==
    ASSUME NEW s \in Seq(EventKinds \X Task), s # <<>>
    PROVE  Head(s) \in EventKinds \X Task /\ Tail(s) \in Seq(EventKinds \X Task)
<1> DEFINE S == EventKinds \X Task
<1>1. s \in Seq(S)
  OBVIOUS
<1> HIDE DEF S
<1>2. Head(s) \in S /\ Tail(s) \in Seq(S)
  BY <1>1
<1> QED
  BY <1>2 DEF S

(* The registry's variables keep their types: what is removed is a            *)
(* connection.                                                                *)
LEMMA ConnStep == TypeInv /\ [Next]_vars => ConnTypes'
<1> SUFFICES ASSUME TypeInv, [Next]_vars PROVE ConnTypes'
  OBVIOUS
<1> USE Bounds, Connections DEF TypeInv, ConnTypes, Session
<1>1. CASE UNCHANGED <<status, session, registry, closed, handlers, leaving, faults, panicked>>
  BY <1>1
<1>2. ASSUME NEW t \in Task, SendDispatch(t) PROVE ConnTypes'
  BY <1>2 DEF SendDispatch
<1>3. ASSUME NEW w \in Worker, Register(w) PROVE ConnTypes'
  BY <1>3 DEF Register
<1>4. ASSUME NEW w \in Worker, BeginShutdown(w) PROVE ConnTypes'
  BY <1>4 DEF BeginShutdown
<1>5. ASSUME NEW w \in Worker, Crash(w) PROVE ConnTypes'
  BY <1>5 DEF Crash, Leave
<1>6. ASSUME NEW w \in Worker, Heartbeat(w) PROVE ConnTypes'
  BY <1>6 DEF Heartbeat, SetStatus
<1>7. ASSUME NEW w \in Worker, DetectStale(w) PROVE ConnTypes'
  BY <1>7 DEF DetectStale, Remove
<1>8. ASSUME NEW w \in Worker, DrainWorker(w) PROVE ConnTypes'
  BY <1>8 DEF DrainWorker
<1>9. ASSUME NEW c \in Conn, StreamEnds(c) PROVE ConnTypes'
  BY <1>9 DEF StreamEnds, Remove
<1>10. ASSUME NEW c \in Conn, MarkOffline(c) PROVE ConnTypes'
  BY <1>10 DEF MarkOffline, SetStatus
<1> QED
  BY ONLY [Next]_vars, <1>1, <1>2, <1>3, <1>4, <1>5, <1>6, <1>7, <1>8, <1>9,
          <1>10
     DEF Next, Execute, AgentStep, ServerStep, Choose, CreateAssignment,
         GiveUpSending, MarkRunning, Poll, StopPolling, Conclude, Reassign,
         BeginTask, EndTask, EndShutdown, Leave, HandleEvent, Deliver,
         LoseDispatch, ListOrphaned

(* A send keeps the channel within its capacity, and goes to a connection.    *)
LEMMA ChannelStep == TypeInv /\ [Next]_vars => ChannelTypes'
<1> SUFFICES ASSUME TypeInv, [Next]_vars PROVE ChannelTypes'
  OBVIOUS
<1> USE Bounds DEF TypeInv, ConnTypes, ChannelTypes
<1>1. CASE UNCHANGED <<taskCh, target, pc>>
  BY <1>1
<1>2. ASSUME NEW t \in Task, Choose(t) PROVE ChannelTypes'
  <2>1. pc' \in [Task -> {"idle", "chosen", "sending", "sent", "polling",
                          "deciding", "done"}] /\ taskCh' = taskCh
    BY <1>2 DEF Choose, Fail
  <2>2. CASE UNCHANGED target /\ Fail(t)
    BY <1>2, <2>1, <2>2 DEF Fail
  <2>3. ASSUME NEW w \in Worker, Eligible(t, w),
               target' = [target EXCEPT ![t] = <<w, registry[w]>>],
               pc' = [pc EXCEPT ![t] = "chosen"]
        PROVE  ChannelTypes'
    <3>1. <<w, registry[w]>> \in Conn
      BY <2>3, Connections DEF Eligible, Session
    <3> QED
      BY <2>1, <2>3, <3>1
  <2> QED
    BY <1>2, <2>2, <2>3 DEF Choose
<1>3. ASSUME NEW t \in Task, CreateAssignment(t) PROVE ChannelTypes'
  BY <1>3 DEF CreateAssignment, Fail
<1>4. ASSUME NEW t \in Task, SendDispatch(t) PROVE ChannelTypes'
  <2>1. UNCHANGED target /\ pc' \in {pc, [pc EXCEPT ![t] = "sent"]}
    BY <1>4 DEF SendDispatch
  <2>2. \/ taskCh' = taskCh
        \/ /\ Len(taskCh[target[t]]) < ChanCap
           /\ taskCh' = [taskCh EXCEPT ![target[t]] = Append(@, t)]
    BY <1>4 DEF SendDispatch
  <2>3. target[t] \in Conn
    BY <1>4 DEF SendDispatch
  <2>4. Append(taskCh[target[t]], t) \in Seq(Task)
    BY <2>3
  <2>5. Len(Append(taskCh[target[t]], t)) = Len(taskCh[target[t]]) + 1
    BY <2>3
  <2>7. Len(taskCh[target[t]]) < ChanCap => Len(Append(taskCh[target[t]], t)) <= ChanCap
    BY <2>3, <2>5
  <2>8. taskCh' \in [Conn -> Seq(Task)]
    BY <2>2, <2>3, <2>4
  <2>6. ASSUME NEW c \in Conn PROVE Len(taskCh'[c]) <= ChanCap
    <3> HIDE DEF TypeInv
    <3>1. taskCh \in [Conn -> Seq(Task)] /\ Len(taskCh[c]) <= ChanCap
      BY DEF TypeInv
    <3> QED
      BY <2>2, <2>3, <2>7, <3>1
  <2> QED
    BY <2>1, <2>6, <2>8
<1>5. ASSUME NEW t \in Task, GiveUpSending(t) PROVE ChannelTypes'
  BY <1>5 DEF GiveUpSending
<1>6. ASSUME NEW t \in Task, MarkRunning(t) PROVE ChannelTypes'
  BY <1>6 DEF MarkRunning, SetRow
<1>7. ASSUME NEW t \in Task, Poll(t) PROVE ChannelTypes'
  BY <1>7 DEF Poll
<1>8. ASSUME NEW t \in Task, StopPolling(t) PROVE ChannelTypes'
  BY <1>8 DEF StopPolling
<1>9. ASSUME NEW t \in Task, Conclude(t) PROVE ChannelTypes'
  BY <1>9 DEF Conclude, SetRow
<1>10. ASSUME NEW c \in Conn, Deliver(c) PROVE ChannelTypes'
  BY <1>10 DEF Deliver, Live
<1>11. ASSUME NEW c \in Conn, LoseDispatch(c) PROVE ChannelTypes'
  BY <1>11 DEF LoseDispatch, Live
<1> QED
  BY ONLY [Next]_vars, <1>1, <1>2, <1>3, <1>4, <1>5, <1>6, <1>7, <1>8, <1>9,
          <1>10, <1>11
     DEF Next, Execute, AgentStep, ServerStep, Reassign, BeginTask, EndTask,
         Register, BeginShutdown, EndShutdown, Leave, Crash, Heartbeat,
         DetectStale, DrainWorker, HandleEvent, StreamEnds, MarkOffline,
         ListOrphaned

(* An agent begins a task only when its semaphore has a slot.                 *)
LEMMA AgentTypesStep == TypeInv /\ [Next]_vars => AgentTypes'
<1> SUFFICES ASSUME TypeInv, [Next]_vars PROVE AgentTypes'
  OBVIOUS
<1> USE Bounds DEF TypeInv, AgentTypes
<1>1. CASE UNCHANGED <<agent, accepted, executing, reported, outcome>>
  BY <1>1
<1>2. ASSUME NEW w \in Worker, NEW t \in Task, BeginTask(w, t) PROVE AgentTypes'
  <2>1. /\ IsFiniteSet(executing[w] \cup {t})
        /\ Cardinality(executing[w] \cup {t}) \in
               {Cardinality(executing[w]), Cardinality(executing[w]) + 1}
    BY FS_AddElement
  <2>2. Cardinality(executing[w]) \in Nat /\ Cardinality(executing[w] \cup {t}) \in Nat
    BY <2>1, FS_CardinalityType
  <2> QED
    BY <1>2, <2>1, <2>2 DEF BeginTask
<1>3. ASSUME NEW w \in Worker, NEW t \in Task, EndTask(w, t) PROVE AgentTypes'
  <2>1. /\ IsFiniteSet(executing[w] \ {t})
        /\ Cardinality(executing[w] \ {t}) <= Cardinality(executing[w])
    BY FS_Subset
  <2>2. Cardinality(executing[w]) \in Nat /\ Cardinality(executing[w] \ {t}) \in Nat
    BY <2>1, FS_CardinalityType
  <2> QED
    BY <1>3, <2>1, <2>2 DEF EndTask
<1>4. ASSUME NEW w \in Worker, Register(w) PROVE AgentTypes'
  BY <1>4 DEF Register
<1>5. ASSUME NEW w \in Worker, BeginShutdown(w) PROVE AgentTypes'
  BY <1>5 DEF BeginShutdown
<1>6. ASSUME NEW w \in Worker, EndShutdown(w) PROVE AgentTypes'
  BY <1>6 DEF EndShutdown, Leave
<1>7. ASSUME NEW w \in Worker, Crash(w) PROVE AgentTypes'
  <2>1. IsFiniteSet({}) /\ Cardinality({}) = 0
    BY FS_EmptySet
  <2> QED
    BY <1>7, <2>1 DEF Crash, Leave
<1>8. ASSUME NEW w \in Worker, Heartbeat(w) PROVE AgentTypes'
  <2>1. Cardinality(executing[w]) \in Nat
    BY FS_CardinalityType
  <2> QED
    BY <1>8, <2>1 DEF Heartbeat
<1>9. ASSUME NEW c \in Conn, Deliver(c) PROVE AgentTypes'
  <2>1. Head(taskCh[c]) \in Task
    BY <1>9 DEF Deliver, ChannelTypes
  <2>2. /\ accepted' \in {accepted, [accepted EXCEPT ![c[1]] = @ \cup {Head(taskCh[c])}]}
        /\ UNCHANGED <<agent, executing, reported, outcome>>
    BY <1>9 DEF Deliver
  <2>3. accepted' \in [Worker -> SUBSET Task]
    BY <2>1, <2>2
  <2> QED
    BY <2>2, <2>3
<1> QED
  BY ONLY [Next]_vars, <1>1, <1>2, <1>3, <1>4, <1>5, <1>6, <1>7, <1>8, <1>9
     DEF Next, Execute, AgentStep, ServerStep, Choose, CreateAssignment,
         SendDispatch, GiveUpSending, MarkRunning, Poll, StopPolling,
         Conclude, Reassign, DetectStale, DrainWorker, HandleEvent,
         StreamEnds, MarkOffline, LoseDispatch, ListOrphaned

(* Rows, events and retries keep their types; a retry is below the limit.     *)
LEMMA RowStep == TypeInv /\ [Next]_vars => (EventTypes /\ RowTypes)'
<1> SUFFICES ASSUME TypeInv, [Next]_vars PROVE (EventTypes /\ RowTypes)'
  OBVIOUS
<1> USE Bounds DEF TypeInv, EventTypes, RowTypes
<1>1. CASE UNCHANGED <<events, row, retries, verdict, listed>>
  BY <1>1
<1>2. ASSUME NEW t \in Task, Choose(t) PROVE (EventTypes /\ RowTypes)'
  BY <1>2 DEF Choose, Fail, Eligible
<1>3. ASSUME NEW t \in Task, CreateAssignment(t) PROVE (EventTypes /\ RowTypes)'
  BY <1>3 DEF CreateAssignment, Fail
<1>4. ASSUME NEW t \in Task, GiveUpSending(t) PROVE (EventTypes /\ RowTypes)'
  BY <1>4 DEF GiveUpSending
<1>5. ASSUME NEW t \in Task, MarkRunning(t) PROVE (EventTypes /\ RowTypes)'
  BY <1>5 DEF MarkRunning, SetRow
<1>6. ASSUME NEW t \in Task, Poll(t) PROVE (EventTypes /\ RowTypes)'
  BY <1>6 DEF Poll
<1>7. ASSUME NEW t \in Task, StopPolling(t) PROVE (EventTypes /\ RowTypes)'
  BY <1>7 DEF StopPolling
<1>8. ASSUME NEW t \in Task, Conclude(t) PROVE (EventTypes /\ RowTypes)'
  BY <1>8 DEF Conclude, SetRow
<1>9. ASSUME NEW t \in Task, Reassign(t) PROVE (EventTypes /\ RowTypes)'
  <2>1. row' \in [Task -> {"none", "assigned", "running", "pending", "completed",
                           "failed"}]
    BY <1>9 DEF Reassign, SetRow
  <2>2. \/ retries' = retries
        \/ ~(retries[t] >= MaxRetries) /\ retries' = [retries EXCEPT ![t] = @ + 1]
    BY <1>9 DEF Reassign
  <2>3. retries[t] \in 0 .. MaxRetries
    OBVIOUS
  <2>5. ~(retries[t] >= MaxRetries) => retries[t] + 1 \in 0 .. MaxRetries
    BY ONLY <2>3, Bounds
  <2>4. retries' \in [Task -> 0 .. MaxRetries]
    BY <2>2, <2>5
  <2> QED
    BY <1>9, <2>1, <2>4 DEF Reassign
<1>10. ASSUME NEW w \in Worker, NEW t \in Task, EndTask(w, t) PROVE (EventTypes /\ RowTypes)'
  <2>1. PICK o \in {"success", "failed"} :
            events' = [events EXCEPT ![w] = Append(@, <<o, t>>)]
    BY <1>10 DEF EndTask
  <2> HIDE DEF EventKinds
  <2>2. o \in EventKinds
    BY DEF EventKinds
  <2>3. Append(events[w], <<o, t>>) \in Seq(EventKinds \X Task)
    BY <2>2, AppendEvent
  <2> QED
    BY <1>10, <2>1, <2>3 DEF EndTask
<1>11. ASSUME NEW w \in Worker, EndShutdown(w) PROVE (EventTypes /\ RowTypes)'
  <2>1. PICK n \in 0 .. Len(events[w]) :
            events' = [events EXCEPT ![w] = SubSeq(@, 1, n)]
    BY <1>11 DEF EndShutdown, Leave
  <2>2. SubSeq(events[w], 1, n) \in Seq(EventKinds \X Task)
    BY <2>1, CutEvents
  <2> QED
    BY <1>11, <2>1, <2>2 DEF EndShutdown, Leave
<1>12. ASSUME NEW w \in Worker, Crash(w) PROVE (EventTypes /\ RowTypes)'
  <2>1. PICK n \in 0 .. Len(events[w]) :
            events' = [events EXCEPT ![w] = SubSeq(@, 1, n)]
    BY <1>12 DEF Crash, Leave
  <2>2. SubSeq(events[w], 1, n) \in Seq(EventKinds \X Task)
    BY <2>1, CutEvents
  <2> QED
    BY <1>12, <2>1, <2>2 DEF Crash, Leave
<1>13. ASSUME NEW w \in Worker, HandleEvent(w) PROVE (EventTypes /\ RowTypes)'
  <2>1. Head(events[w]) \in EventKinds \X Task
        /\ Tail(events[w]) \in Seq(EventKinds \X Task)
    BY <1>13, TakeEvent DEF HandleEvent
  <2>2. row' \in [Task -> {"none", "assigned", "running", "pending", "completed",
                           "failed"}]
    BY <1>13, <2>1 DEF HandleEvent, SetRow, EventKinds
  <2> QED
    BY <1>13, <2>1, <2>2 DEF HandleEvent
<1>14. ASSUME NEW c \in Conn, Deliver(c) PROVE (EventTypes /\ RowTypes)'
  <2>1. c[1] \in Worker
    BY Connections
  <2>5. Head(taskCh[c]) \in Task
    <3>1. taskCh[c] \in Seq(Task) /\ taskCh[c] # <<>>
      BY <1>14 DEF Deliver, ChannelTypes
    <3> QED
      BY ONLY <3>1
  <2>2. \A k \in EventKinds :
            Append(events[c[1]], <<k, Head(taskCh[c])>>) \in Seq(EventKinds \X Task)
    BY <2>1, <2>5, AppendEvent
  <2>3. \E k \in EventKinds :
            events' = [events EXCEPT ![c[1]] = Append(@, <<k, Head(taskCh[c])>>)]
    BY <1>14 DEF Deliver, EventKinds
  <2>4. events' \in [Worker -> Seq(EventKinds \X Task)]
    BY <2>1, <2>2, <2>3
  <2> QED
    BY <1>14, <2>4 DEF Deliver
<1>15. CASE ListOrphaned
  BY <1>15 DEF ListOrphaned, Orphaned
<1> QED
  BY ONLY [Next]_vars, <1>1, <1>2, <1>3, <1>4, <1>5, <1>6, <1>7, <1>8, <1>9,
          <1>10, <1>11, <1>12, <1>13, <1>14, <1>15
     DEF Next, Execute, AgentStep, ServerStep, SendDispatch, BeginTask,
         Register, BeginShutdown, Heartbeat, DetectStale, DrainWorker,
         StreamEnds, MarkOffline, LoseDispatch

(* Only the entry of the last session is in the registry, and leaves it when  *)
(* closed.                                                                    *)
LEMMA RegistryStep == TypeInv /\ RegistryInv /\ [Next]_vars => RegistryInv'
<1> SUFFICES ASSUME TypeInv /\ RegistryInv, [Next]_vars PROVE RegistryInv'
  OBVIOUS
<1> USE Bounds, Connections DEF TypeInv, ConnTypes, RegistryInv, RegistryEntriesOpen, Session
<1>1. CASE UNCHANGED <<session, registry, closed>>
  BY <1>1
<1>2. ASSUME NEW w \in Worker, Register(w) PROVE RegistryInv'
  BY <1>2 DEF Register
<1>3. ASSUME NEW w \in Worker, DetectStale(w) PROVE RegistryInv'
  BY <1>3 DEF DetectStale, Remove
<1>4. ASSUME NEW c \in Conn, StreamEnds(c) PROVE RegistryInv'
  BY <1>4 DEF StreamEnds, Remove
<1> QED
  BY ONLY [Next]_vars, <1>1, <1>2, <1>3, <1>4
     DEF Next, Execute, AgentStep, ServerStep, Choose, CreateAssignment,
         SendDispatch, GiveUpSending, MarkRunning, Poll, StopPolling,
         Conclude, Reassign, BeginTask, EndTask, BeginShutdown, EndShutdown,
         Leave, Crash, Heartbeat, DrainWorker, HandleEvent, MarkOffline,
         Deliver, LoseDispatch, ListOrphaned

(* Until it sends, Execute changes where the dispatch of its own task is.   *)
Unsent(t) ==
    /\ pc[t] \in {"idle", "chosen"} /\ pc'[t] \in {"chosen", "sending", "done"}
    /\ row'[t] \in {row[t], "assigned"} /\ verdict'[t] \in {verdict[t], "not sent"}
    /\ \A u \in Task \ {t} : /\ pc'[u] = pc[u] /\ target'[u] = target[u]
                             /\ row'[u] = row[u] /\ verdict'[u] = verdict[u]
    /\ UNCHANGED <<session, taskCh, agent, accepted, executing, outcome,
                   events, retries, listed>>

LEMMA BeforeSending ==
    ASSUME TypeInv, NEW t \in Task, Choose(t) \/ CreateAssignment(t)
    PROVE  Unsent(t)
<1> USE DEF Unsent, TypeInv, ChannelTypes, RowTypes
<1>1. CASE CreateAssignment(t)
  BY <1>1 DEF CreateAssignment, Fail
<1>2. CASE Choose(t)
  <2>1. CASE Fail(t) /\ UNCHANGED target
    BY <1>2, <2>1 DEF Choose, Fail
  <2>2. ASSUME NEW w \in Worker,
               target' = [target EXCEPT ![t] = <<w, registry[w]>>],
               pc' = [pc EXCEPT ![t] = "chosen"], UNCHANGED verdict
        PROVE  Unsent(t)
    <3>1. /\ pc[t] = "idle"
          /\ UNCHANGED <<session, taskCh, agent, accepted, executing, outcome,
                         events, row, retries, listed>>
      BY <1>2 DEF Choose
    <3>2. \A u \in Task \ {t} : target'[u] = target[u]
      BY <2>2
    <3>3. pc'[t] = "chosen" /\ \A u \in Task \ {t} : pc'[u] = pc[u]
      BY <2>2
    <3> QED
      BY ONLY <2>2, <3>1, <3>2, <3>3 DEF Unsent
  <2>3. \/ Fail(t) /\ UNCHANGED target
        \/ \E w \in Worker : /\ target' = [target EXCEPT ![t] = <<w, registry[w]>>]
                             /\ pc' = [pc EXCEPT ![t] = "chosen"]
                             /\ UNCHANGED verdict
    BY <1>2 DEF Choose
  <2> QED
    BY ONLY <2>1, <2>2, <2>3
<1> QED
  BY <1>1, <1>2

LEMMA DispatchTyped ==
    ASSUME TypeInv, NEW c \in Conn, NEW i \in DOMAIN taskCh[c]
    PROVE  taskCh[c][i] \in Task
<1>1. taskCh[c] \in Seq(Task)
  BY DEF TypeInv, ChannelTypes
<1> QED
  BY <1>1

(* The channels keep their dispatches, and agents accept nothing of them.   *)
LEMMA ChannelKept ==
    ASSUME TypeInv, ChannelInv, UNCHANGED <<taskCh, outcome, accepted>>,
           \A u \in Task, c \in Conn : SentTo(u, c) => SentTo(u, c)'
    PROVE  ChannelInv'
  BY DispatchTyped DEF ChannelInv

LEMMA EventsTyped ==
    ASSUME TypeInv, NEW w \in Worker, NEW i \in DOMAIN events[w]
    PROVE  events[w][i][1] \in EventKinds /\ events[w][i][2] \in Task
<1> DEFINE S == EventKinds \X Task
<1>1. events[w] \in Seq(S)
  BY DEF TypeInv, EventTypes
<1> HIDE DEF S
<1>2. events[w][i] \in S
  BY <1>1
<1> QED
  BY <1>2 DEF S

(* An ended task keeps its outcome; the queue of one worker may change, if  *)
(* what is in it then is true.                                              *)
LEMMA EventsChanged ==
    ASSUME TypeInv, EventInv, NEW w \in Worker, NEW s, events' = [events EXCEPT ![w] = s],
           \A i \in DOMAIN s : s[i][1] \in {"success", "failed"} =>
               outcome'[s[i][2]] = s[i][1],
           \A u \in Task : outcome[u] \in {"success", "failed"} => outcome'[u] = outcome[u]
    PROVE  EventInv'
<1>0. events'[w] = s /\ \A v \in Worker \ {w} : events'[v] = events[v]
  BY DEF TypeInv, EventTypes
<1>1. ASSUME NEW v \in Worker, NEW i \in DOMAIN events'[v],
             events'[v][i][1] \in {"success", "failed"}
      PROVE  outcome'[events'[v][i][2]] = events'[v][i][1]
  <2>1. CASE v = w
    BY <1>0, <1>1, <2>1
  <2>2. CASE v # w
    BY <1>0, <1>1, <2>2, EventsTyped DEF EventInv
  <2> QED
    BY <2>1, <2>2
<1> QED
  BY <1>1 DEF EventInv

LEMMA EventsKept ==
    ASSUME EventInv, UNCHANGED <<events, outcome>>
    PROVE  EventInv'
  BY DEF EventInv

(* A dispatch enters one channel once, and leaves it when it is delivered or  *)
(* lost.                                                                      *)
LEMMA ChannelInvStep == TypeInv /\ PlaceInv /\ [Next]_vars => ChannelInv'
<1> SUFFICES ASSUME TypeInv /\ PlaceInv, [Next]_vars PROVE ChannelInv'
  OBVIOUS
<1> USE DEF TypeInv, ChannelTypes, AgentTypes, PlaceInv, ChannelInv, AgentInv, SentTo
<1>1. CASE UNCHANGED <<taskCh, target, pc, outcome, accepted>>
  BY <1>1
<1>2. ASSUME NEW t \in Task, Choose(t) PROVE ChannelInv'
  <2>1. Unsent(t)
    <3> HIDE DEF TypeInv
    <3> QED BY <1>2, BeforeSending
  <2>2. \A u \in Task, c \in Conn : SentTo(u, c) => SentTo(u, c)'
    BY <2>1 DEF Unsent
  <2> HIDE DEF TypeInv, SentTo
  <2> QED
    BY <2>1, <2>2, ChannelKept DEF Unsent
<1>3. ASSUME NEW t \in Task, CreateAssignment(t) PROVE ChannelInv'
  <2>1. Unsent(t)
    <3> HIDE DEF TypeInv
    <3> QED BY <1>3, BeforeSending
  <2>2. \A u \in Task, c \in Conn : SentTo(u, c) => SentTo(u, c)'
    BY <2>1 DEF Unsent
  <2> HIDE DEF TypeInv, SentTo
  <2> QED
    BY <2>1, <2>2, ChannelKept DEF Unsent
<1>4. ASSUME NEW t \in Task, SendDispatch(t) PROVE ChannelInv'
  <2>1. CASE UNCHANGED <<taskCh, pc>>
    BY <1>4, <2>1 DEF SendDispatch
  <2>2. CASE /\ taskCh' = [taskCh EXCEPT ![target[t]] = Append(@, t)]
             /\ pc' = [pc EXCEPT ![t] = "sent"]
    <3> DEFINE s == taskCh[target[t]]
    <3>1. /\ target[t] \in Conn /\ s \in Seq(Task) /\ pc[t] = "sending"
          /\ UNCHANGED <<target, accepted, outcome>>
      BY <1>4 DEF SendDispatch
    <3>2. \A i \in DOMAIN s : s[i] # t
      BY <3>1
    <3>3. outcome[t] = "none" /\ \A w \in Worker : t \notin accepted[w]
      <4>1. ~SentTo(t, target[t]) /\ \A w \in Worker : ~SentTo(t, <<w, session[w]>>)
        BY <3>1
      <4>2. (outcome[t] # "none" => FALSE) /\ \A w \in Worker : t \in accepted[w] => FALSE
        BY <3>1, <4>1 DEF BegunInv
      <4> QED
        BY <4>2
    <3>4. /\ DOMAIN Append(s, t) = DOMAIN s \cup {Len(s) + 1}
          /\ Append(s, t)[Len(s) + 1] = t /\ Len(s) + 1 \notin DOMAIN s
          /\ \A i \in DOMAIN s : Append(s, t)[i] = s[i]
      BY ONLY <3>1
    <3>5. \A u \in Task, c \in Conn : SentTo(u, c) => u # t /\ SentTo(u, c)'
      BY <2>2, <3>1
    <3>6. SentTo(t, target[t])'
      BY <2>2, <3>1
    <3>7. /\ taskCh'[target[t]] = Append(s, t)
          /\ \A c \in Conn \ {target[t]} : taskCh'[c] = taskCh[c]
      BY <2>2, <3>1
    <3>8. ASSUME NEW c \in Conn, NEW i \in DOMAIN taskCh'[c], NEW u, u = taskCh'[c][i]
          PROVE  /\ SentTo(u, c)' /\ outcome'[u] = "none"
                 /\ \A w \in Worker : u \notin accepted'[w]
                 /\ \A j \in DOMAIN taskCh'[c] : taskCh'[c][j] = u => i = j
      <4> HIDE DEF s, SentTo, TypeInv, PlaceInv, AgentInv
      <4>0. ASSUME NEW d \in Conn, NEW k \in DOMAIN taskCh[d]
            PROVE  /\ outcome[taskCh[d][k]] = "none"
                   /\ \A w \in Worker : taskCh[d][k] \notin accepted[w]
                   /\ \A j \in DOMAIN taskCh[d] : taskCh[d][j] = taskCh[d][k] => k = j
                   /\ taskCh[d][k] \in Task /\ SentTo(taskCh[d][k], d)
        BY DispatchTyped DEF PlaceInv
      <4>1. CASE c = target[t]
        <5>1. CASE i = Len(s) + 1
          BY <4>1, <5>1, <3>1, <3>2, <3>3, <3>4, <3>6, <3>7, <3>8
        <5>2. CASE i \in DOMAIN s
          <6>1. u = taskCh[c][i] /\ i \in DOMAIN taskCh[c]
            BY <4>1, <5>2, <3>4, <3>7, <3>8 DEF s
          <6>2. u # t /\ \A j \in DOMAIN taskCh'[c] :
                    taskCh'[c][j] = t \/ (j \in DOMAIN taskCh[c] /\ taskCh'[c][j] = taskCh[c][j])
            BY <4>1, <6>1, <3>2, <3>4, <3>7 DEF s
          <6> QED
            BY <4>0, <6>1, <6>2, <3>1, <3>5
        <5> QED
          BY <4>1, <5>1, <5>2, <3>4, <3>7
      <4>2. CASE c # target[t]
        BY <4>0, <4>2, <3>1, <3>5, <3>7, <3>8
      <4> QED
        BY <4>1, <4>2
    <3> QED
      BY ONLY <3>8 DEF ChannelInv
  <2> QED
    BY <1>4, <2>1, <2>2 DEF SendDispatch
<1>5. ASSUME NEW t \in Task, GiveUpSending(t) PROVE ChannelInv'
  BY <1>5 DEF GiveUpSending
<1>6. ASSUME NEW t \in Task, MarkRunning(t) PROVE ChannelInv'
  BY <1>6 DEF MarkRunning, SetRow
<1>7. ASSUME NEW t \in Task, Poll(t) PROVE ChannelInv'
  BY <1>7 DEF Poll
<1>8. ASSUME NEW t \in Task, StopPolling(t) PROVE ChannelInv'
  <2>1. /\ pc[t] = "polling" /\ pc' = [pc EXCEPT ![t] = "deciding"]
        /\ UNCHANGED <<taskCh, target, accepted, executing, agent, outcome, session>>
    BY <1>8 DEF StopPolling
  <2> QED
    BY <2>1
<1>9. ASSUME NEW t \in Task, Conclude(t) PROVE ChannelInv'
  BY <1>9 DEF Conclude, SetRow
<1>10. ASSUME NEW w \in Worker, NEW t \in Task, BeginTask(w, t) PROVE ChannelInv'
  BY <1>10 DEF BeginTask
<1>11. ASSUME NEW w \in Worker, NEW t \in Task, EndTask(w, t) PROVE ChannelInv'
  BY <1>11 DEF EndTask
<1>12. ASSUME NEW w \in Worker, EndShutdown(w) PROVE ChannelInv'
  BY <1>12 DEF EndShutdown, Leave
<1>13. ASSUME NEW w \in Worker, Crash(w) PROVE ChannelInv'
  BY <1>13 DEF Crash, Leave
<1>14. ASSUME NEW c \in Conn, Deliver(c) PROVE ChannelInv'
  <2> DEFINE s == taskCh[c]
  <2>1. /\ s \in Seq(Task) /\ s # <<>>
        /\ taskCh' = [taskCh EXCEPT ![c] = Tail(s)]
        /\ accepted' \in {accepted, [accepted EXCEPT ![c[1]] = @ \cup {Head(s)}]}
        /\ UNCHANGED <<pc, target, outcome>>
    BY <1>14 DEF Deliver
  <2>2. /\ Head(s) = s[1] /\ 1 \in DOMAIN s
        /\ \A i \in DOMAIN Tail(s) : i + 1 \in DOMAIN s /\ Tail(s)[i] = s[i + 1] /\ i + 1 # 1
        /\ \A i, j \in DOMAIN Tail(s) : i + 1 = j + 1 => i = j
    BY ONLY <2>1
  <2>3. /\ taskCh'[c] = Tail(s) /\ \A d \in Conn \ {c} : taskCh'[d] = taskCh[d]
    BY <2>1
  <2>4. ASSUME NEW d \in Conn, NEW i \in DOMAIN taskCh'[d]
        PROVE  /\ \E k \in DOMAIN taskCh[d] : taskCh'[d][i] = taskCh[d][k]
               /\ taskCh'[d][i] # Head(s)
               /\ \A j \in DOMAIN taskCh'[d] : taskCh'[d][j] = taskCh'[d][i] => i = j
    <3> HIDE DEF s
    <3>1. CASE d = c
      BY <3>1, <2>2, <2>3 DEF s
    <3>2. CASE d # c
      BY <3>2, <2>2, <2>3 DEF s
    <3> QED
      BY <3>1, <3>2
  <2>5. \A w \in Worker : accepted'[w] \subseteq accepted[w] \cup {Head(s)}
    <3>1. accepted \in [Worker -> SUBSET Task]
      OBVIOUS
    <3> QED
      BY ONLY <2>1, <3>1
  <2> HIDE DEF s, TypeInv, SentTo
  <2>6. ASSUME NEW d \in Conn, NEW i \in DOMAIN taskCh'[d], NEW u, u = taskCh'[d][i]
        PROVE  /\ SentTo(u, d)' /\ outcome'[u] = "none"
               /\ \A w \in Worker : u \notin accepted'[w]
               /\ \A j \in DOMAIN taskCh'[d] : taskCh'[d][j] = u => i = j
    <3>1. PICK k \in DOMAIN taskCh[d] : u = taskCh[d][k]
      BY <2>4, <2>6
    <3>2. SentTo(u, d) /\ outcome[u] = "none" /\ \A w \in Worker : u \notin accepted[w]
      BY <3>1
    <3>3. SentTo(u, d)'
      BY <2>1, <3>2 DEF SentTo
    <3> QED
      BY <2>1, <2>4, <2>5, <2>6, <3>2, <3>3
  <2> QED
    BY ONLY <2>6 DEF ChannelInv
<1>15. ASSUME NEW c \in Conn, LoseDispatch(c) PROVE ChannelInv'
  BY <1>15 DEF LoseDispatch, Live
<1> QED
  BY ONLY [Next]_vars, <1>1, <1>2, <1>3, <1>4, <1>5, <1>6, <1>7, <1>8, <1>9,
          <1>10, <1>11, <1>12, <1>13, <1>14, <1>15
     DEF Next, Execute, AgentStep, ServerStep, Reassign, Register,
         BeginShutdown, Heartbeat, DetectStale, DrainWorker, HandleEvent,
         StreamEnds, MarkOffline, ListOrphaned

(* What an agent has was delivered by the stream of the session it is in.     *)
LEMMA AgentInvStep == TypeInv /\ PlaceInv /\ [Next]_vars => AgentInv'
<1> SUFFICES ASSUME TypeInv /\ PlaceInv, [Next]_vars PROVE AgentInv'
  OBVIOUS
<1> USE DEF TypeInv, ConnTypes, ChannelTypes, AgentTypes, PlaceInv, ChannelInv, AgentInv, SentTo
<1>1. CASE UNCHANGED <<accepted, executing, session, agent, target, pc, outcome>>
  BY <1>1
<1>2. ASSUME NEW t \in Task, Choose(t) PROVE AgentInv'
  <2>1. Unsent(t)
    <3> HIDE DEF TypeInv
    <3> QED BY <1>2, BeforeSending
  <2>2. \A u \in Task, w \in Worker :
            SentTo(u, <<w, session[w]>>) => SentTo(u, <<w, session[w]>>)'
    BY <2>1 DEF Unsent
  <2> HIDE DEF SentTo
  <2> QED
    BY ONLY <2>1, <2>2, AgentInv DEF Unsent, AgentInv
<1>3. ASSUME NEW t \in Task, CreateAssignment(t) PROVE AgentInv'
  <2>1. Unsent(t)
    <3> HIDE DEF TypeInv
    <3> QED BY <1>3, BeforeSending
  <2>2. \A u \in Task, w \in Worker :
            SentTo(u, <<w, session[w]>>) => SentTo(u, <<w, session[w]>>)'
    BY <2>1 DEF Unsent
  <2> HIDE DEF SentTo
  <2> QED
    BY ONLY <2>1, <2>2, AgentInv DEF Unsent, AgentInv
<1>4. ASSUME NEW t \in Task, SendDispatch(t) PROVE AgentInv'
  BY <1>4 DEF SendDispatch
<1>5. ASSUME NEW t \in Task, GiveUpSending(t) PROVE AgentInv'
  BY <1>5 DEF GiveUpSending
<1>6. ASSUME NEW t \in Task, MarkRunning(t) PROVE AgentInv'
  BY <1>6 DEF MarkRunning, SetRow
<1>7. ASSUME NEW t \in Task, Poll(t) PROVE AgentInv'
  BY <1>7 DEF Poll
<1>8. ASSUME NEW t \in Task, StopPolling(t) PROVE AgentInv'
  <2>1. /\ pc[t] = "polling" /\ pc' = [pc EXCEPT ![t] = "deciding"]
        /\ UNCHANGED <<taskCh, target, accepted, executing, agent, outcome, session>>
    BY <1>8 DEF StopPolling
  <2> QED
    BY <2>1
<1>9. ASSUME NEW t \in Task, Conclude(t) PROVE AgentInv'
  BY <1>9 DEF Conclude, SetRow
<1>10. ASSUME NEW w \in Worker, NEW t \in Task, BeginTask(w, t) PROVE AgentInv'
  BY <1>10 DEF BeginTask
<1>11. ASSUME NEW w \in Worker, NEW t \in Task, EndTask(w, t) PROVE AgentInv'
  BY <1>11 DEF EndTask
<1>12. ASSUME NEW w \in Worker, Register(w) PROVE AgentInv'
  BY <1>12 DEF Register
<1>13. ASSUME NEW w \in Worker, BeginShutdown(w) PROVE AgentInv'
  BY <1>13 DEF BeginShutdown
<1>14. ASSUME NEW w \in Worker, EndShutdown(w) PROVE AgentInv'
  BY <1>14 DEF EndShutdown, Leave
<1>15. ASSUME NEW w \in Worker, Crash(w) PROVE AgentInv'
  BY <1>15 DEF Crash, Leave
<1>16. ASSUME NEW c \in Conn, Deliver(c) PROVE AgentInv'
  <2> DEFINE t == Head(taskCh[c])
  <2>1. /\ taskCh[c] \in Seq(Task) /\ taskCh[c] # <<>>
        /\ agent[c[1]] # "off" /\ session[c[1]] = c[2]
        /\ accepted' \in {accepted, [accepted EXCEPT ![c[1]] = @ \cup {t}]}
        /\ UNCHANGED <<pc, target, outcome, executing, agent, session>>
    BY <1>16 DEF Deliver, Live
  <2>2. t = taskCh[c][1] /\ 1 \in DOMAIN taskCh[c]
    BY ONLY <2>1
  <2>3. SentTo(t, c) /\ outcome[t] = "none"
    BY <2>2
  <2>4. c[1] \in Worker /\ c = <<c[1], session[c[1]]>>
    BY <2>1, Connections
  <2>5. accepted'[c[1]] \subseteq accepted[c[1]] \cup {t}
        /\ \A w \in Worker : w # c[1] => accepted'[w] = accepted[w]
    BY <2>1, <2>4
  <2> HIDE DEF t
  <2> QED
    BY <2>1, <2>3, <2>4, <2>5
<1> QED
  BY ONLY [Next]_vars, <1>1, <1>2, <1>3, <1>4, <1>5, <1>6, <1>7, <1>8, <1>9,
          <1>10, <1>11, <1>12, <1>13, <1>14, <1>15, <1>16
     DEF Next, Execute, AgentStep, ServerStep, Reassign, Heartbeat,
         DetectStale, DrainWorker, HandleEvent, StreamEnds, MarkOffline,
         LoseDispatch, ListOrphaned

(* Only a dispatch that was sent begins.                                      *)
LEMMA BegunStep == TypeInv /\ PlaceInv /\ [Next]_vars => BegunInv'
<1> SUFFICES ASSUME TypeInv /\ PlaceInv, [Next]_vars PROVE BegunInv'
  OBVIOUS
<1> USE DEF TypeInv, ChannelTypes, AgentTypes, PlaceInv, BegunInv, AgentInv, SentTo
<1>1. CASE UNCHANGED <<pc, outcome>>
  BY <1>1
<1>2. ASSUME NEW t \in Task, Choose(t) PROVE BegunInv'
  BY <1>2 DEF Choose, Fail, Eligible
<1>3. ASSUME NEW t \in Task, CreateAssignment(t) PROVE BegunInv'
  BY <1>3 DEF CreateAssignment, Fail
<1>4. ASSUME NEW t \in Task, SendDispatch(t) PROVE BegunInv'
  BY <1>4 DEF SendDispatch
<1>5. ASSUME NEW t \in Task, GiveUpSending(t) PROVE BegunInv'
  BY <1>5 DEF GiveUpSending
<1>6. ASSUME NEW t \in Task, MarkRunning(t) PROVE BegunInv'
  BY <1>6 DEF MarkRunning, SetRow
<1>7. ASSUME NEW t \in Task, Poll(t) PROVE BegunInv'
  BY <1>7 DEF Poll
<1>8. ASSUME NEW t \in Task, StopPolling(t) PROVE BegunInv'
  BY <1>8 DEF StopPolling
<1>9. ASSUME NEW t \in Task, Conclude(t) PROVE BegunInv'
  BY <1>9 DEF Conclude, SetRow
<1>10. ASSUME NEW w \in Worker, NEW t \in Task, BeginTask(w, t) PROVE BegunInv'
  BY <1>10 DEF BeginTask
<1>11. ASSUME NEW w \in Worker, NEW t \in Task, EndTask(w, t) PROVE BegunInv'
  BY <1>11 DEF EndTask
<1> QED
  BY ONLY [Next]_vars, <1>1, <1>2, <1>3, <1>4, <1>5, <1>6, <1>7, <1>8, <1>9,
          <1>10, <1>11
     DEF Next, Execute, AgentStep, ServerStep, Reassign, Register,
         BeginShutdown, EndShutdown, Leave, Crash, Heartbeat, DetectStale,
         DrainWorker, HandleEvent, StreamEnds, MarkOffline, Deliver,
         LoseDispatch, ListOrphaned

(* Events say what the outcome is, which never changes once a task has ended. *)
LEMMA EventStep == TypeInv /\ PlaceInv /\ EventInv /\ [Next]_vars => EventInv'
<1> SUFFICES ASSUME TypeInv /\ PlaceInv /\ EventInv, [Next]_vars PROVE EventInv'
  OBVIOUS
<1>1. CASE UNCHANGED <<events, outcome>>
  BY <1>1, EventsKept
<1>2. ASSUME NEW w \in Worker, NEW t \in Task, BeginTask(w, t) PROVE EventInv'
  <2>1. outcome[t] = "none"
    BY <1>2 DEF BeginTask, PlaceInv, AgentInv
  <2>2. outcome' = [outcome EXCEPT ![t] = "begun"] /\ events' = [events EXCEPT ![w] = events[w]]
    BY <1>2 DEF BeginTask, TypeInv, EventTypes
  <2>3. \A u \in Task : outcome[u] \in {"success", "failed"} => outcome'[u] = outcome[u]
    BY <2>1, <2>2 DEF TypeInv, AgentTypes
  <2> QED
    BY <2>2, <2>3, EventsChanged, EventsTyped DEF EventInv
<1>3. ASSUME NEW w \in Worker, NEW t \in Task, EndTask(w, t) PROVE EventInv'
  <2>1. outcome[t] = "begun"
    BY <1>3 DEF EndTask, PlaceInv, AgentInv
  <2>2. PICK o \in {"success", "failed"} :
            /\ outcome' = [outcome EXCEPT ![t] = o]
            /\ events' = [events EXCEPT ![w] = Append(@, <<o, t>>)]
    BY <1>3 DEF EndTask
  <2>3. /\ \A u \in Task : outcome[u] \in {"success", "failed"} => outcome'[u] = outcome[u]
        /\ outcome'[t] = o
    BY <2>1, <2>2 DEF TypeInv, AgentTypes
  <2>4. \A i \in DOMAIN Append(events[w], <<o, t>>) :
            \/ i \in DOMAIN events[w] /\ Append(events[w], <<o, t>>)[i] = events[w][i]
            \/ Append(events[w], <<o, t>>)[i] = <<o, t>>
    <3>1. events[w] \in Seq(EventKinds \X Task)
      BY DEF TypeInv, EventTypes
    <3> QED
      BY ONLY <3>1
  <2> DEFINE s == Append(events[w], <<o, t>>)
  <2>5. ASSUME NEW i \in DOMAIN s, s[i][1] \in {"success", "failed"}
        PROVE  outcome'[s[i][2]] = s[i][1]
    <3> HIDE DEF s
    <3>1. CASE i \in DOMAIN events[w] /\ s[i] = events[w][i]
      BY <2>3, <2>5, <3>1, EventsTyped DEF EventInv
    <3>2. CASE s[i] = <<o, t>>
      BY <2>3, <3>2
    <3> QED
      BY <2>4, <2>5, <3>1, <3>2 DEF s
  <2> HIDE DEF s
  <2> QED
    BY <2>2, <2>3, <2>5, EventsChanged DEF s
<1>4. ASSUME NEW w \in Worker, EndShutdown(w) PROVE EventInv'
  <2>1. PICK n \in 0 .. Len(events[w]) :
            events' = [events EXCEPT ![w] = SubSeq(@, 1, n)]
    BY <1>4 DEF EndShutdown, Leave
  <2>2. \A i \in DOMAIN SubSeq(events[w], 1, n) :
            i \in DOMAIN events[w] /\ SubSeq(events[w], 1, n)[i] = events[w][i]
    <3>1. events[w] \in Seq(EventKinds \X Task)
      BY DEF TypeInv, EventTypes
    <3> QED
      BY ONLY <2>1, <3>1
  <2>3. outcome' = outcome
    BY <1>4 DEF EndShutdown, Leave
  <2> QED
    BY <2>1, <2>2, <2>3, EventsChanged DEF EventInv
<1>5. ASSUME NEW w \in Worker, Crash(w) PROVE EventInv'
  <2>1. PICK n \in 0 .. Len(events[w]) :
            events' = [events EXCEPT ![w] = SubSeq(@, 1, n)]
    BY <1>5 DEF Crash, Leave
  <2>2. \A i \in DOMAIN SubSeq(events[w], 1, n) :
            i \in DOMAIN events[w] /\ SubSeq(events[w], 1, n)[i] = events[w][i]
    <3>1. events[w] \in Seq(EventKinds \X Task)
      BY DEF TypeInv, EventTypes
    <3> QED
      BY ONLY <2>1, <3>1
  <2>3. outcome' = outcome
    BY <1>5 DEF Crash, Leave
  <2> QED
    BY <2>1, <2>2, <2>3, EventsChanged DEF EventInv
<1>6. ASSUME NEW w \in Worker, HandleEvent(w) PROVE EventInv'
  <2>1. events' = [events EXCEPT ![w] = Tail(events[w])] /\ events[w] # <<>>
        /\ outcome' = outcome
    BY <1>6 DEF HandleEvent
  <2>2. \A i \in DOMAIN Tail(events[w]) :
            i + 1 \in DOMAIN events[w] /\ Tail(events[w])[i] = events[w][i + 1]
    <3>1. events[w] \in Seq(EventKinds \X Task)
      BY DEF TypeInv, EventTypes
    <3> QED
      BY ONLY <2>1, <3>1
  <2> QED
    BY <2>1, <2>2, EventsChanged DEF EventInv
<1>7. ASSUME NEW c \in Conn, Deliver(c) PROVE EventInv'
  <2>1. PICK k \in {"accepted", "rejected"} :
            events' = [events EXCEPT ![c[1]] = Append(@, <<k, Head(taskCh[c])>>)]
    BY <1>7 DEF Deliver
  <2> DEFINE e == <<k, Head(taskCh[c])>>
             s == Append(events[c[1]], e)
  <2>2. c[1] \in Worker /\ outcome' = outcome /\ e[1] = k
    BY <1>7, Connections DEF Deliver
  <2> HIDE DEF e
  <2>3. \A i \in DOMAIN s :
            (i \in DOMAIN events[c[1]] /\ s[i] = events[c[1]][i]) \/ s[i] = e
    <3>1. events[c[1]] \in Seq(EventKinds \X Task)
      BY <2>2 DEF TypeInv, EventTypes
    <3> QED
      BY ONLY <3>1
  <2>4. k \notin {"success", "failed"}
    BY <2>1
  <2> HIDE DEF s
  <2> QED
    BY <2>1, <2>2, <2>3, <2>4, EventsChanged DEF EventInv, s, e
<1> QED
  BY ONLY [Next]_vars, <1>1, <1>2, <1>3, <1>4, <1>5, <1>6, <1>7
     DEF Next, Execute, AgentStep, ServerStep, Choose, CreateAssignment,
         SendDispatch, GiveUpSending, MarkRunning, Poll, StopPolling,
         Conclude, Reassign, Register, BeginShutdown, Heartbeat, DetectStale,
         DrainWorker, StreamEnds, MarkOffline, LoseDispatch, ListOrphaned

(* The row gets its final status from an event or, when Execute is done, from *)
(* itself.                                                                    *)
LEMMA RowInvStep == TypeInv /\ PlaceInv /\ ReportInv /\ [Next]_vars => RowInv'
<1> SUFFICES ASSUME TypeInv /\ PlaceInv /\ ReportInv, [Next]_vars PROVE RowInv'
  OBVIOUS
<1> USE DEF TypeInv, RowTypes, ChannelTypes, AgentTypes, PlaceInv, BegunInv, ReportInv, RowInv, VerdictIsOutcome
<1>1. CASE UNCHANGED <<row, outcome, pc, listed, retries>>
  BY <1>1
<1>2. ASSUME NEW t \in Task, Choose(t) PROVE RowInv'
  <2>1. Unsent(t)
    <3> HIDE DEF TypeInv
    <3> QED BY <1>2, BeforeSending
  <2> QED
    BY <2>1 DEF Unsent
<1>3. ASSUME NEW t \in Task, CreateAssignment(t) PROVE RowInv'
  <2>1. Unsent(t)
    <3> HIDE DEF TypeInv
    <3> QED BY <1>3, BeforeSending
  <2> QED
    BY <2>1 DEF Unsent
<1>4. ASSUME NEW t \in Task, SendDispatch(t) PROVE RowInv'
  <2>1. pc[t] = "sending" /\ pc' \in {pc, [pc EXCEPT ![t] = "sent"]}
    BY <1>4 DEF SendDispatch
  <2>2. \A u \in Task : pc'[u] # "done" => pc[u] # "done"
    BY <2>1
  <2>3. UNCHANGED <<row, outcome, listed, retries>>
    BY <1>4 DEF SendDispatch
  <2>4. RowInv
    OBVIOUS
  <2> QED
    BY ONLY <2>2, <2>3, <2>4 DEF RowInv
<1>5. ASSUME NEW t \in Task, GiveUpSending(t) PROVE RowInv'
  BY <1>5 DEF GiveUpSending
<1>6. ASSUME NEW t \in Task, MarkRunning(t) PROVE RowInv'
  <2>1. /\ pc[t] = "sent" /\ pc' = [pc EXCEPT ![t] = "polling"]
        /\ row' \in {row, [row EXCEPT ![t] = "running"]}
        /\ UNCHANGED <<outcome, listed, retries>>
    BY <1>6 DEF MarkRunning, SetRow
  <2>2. \A u \in Task : row'[u] \in {row[u], "running"}
    <3>1. DOMAIN row = Task
      BY DEF TypeInv, RowTypes
    <3> QED
      BY ONLY <2>1, <3>1
  <2>3. \A u \in Task : pc'[u] # "done" => pc[u] # "done"
    <3>1. DOMAIN pc = Task
      BY DEF TypeInv, RowTypes
    <3> QED
      BY ONLY <2>1, <3>1
  <2> QED
    BY ONLY <2>1, <2>2, <2>3, RowInv
<1>7. ASSUME NEW t \in Task, Poll(t) PROVE RowInv'
  BY <1>7 DEF Poll
<1>8. ASSUME NEW t \in Task, StopPolling(t) PROVE RowInv'
  BY <1>8 DEF StopPolling
<1>9. ASSUME NEW t \in Task, Conclude(t) PROVE RowInv'
  <2>1. /\ pc' = [pc EXCEPT ![t] = "done"]
        /\ row' \in {row, [row EXCEPT ![t] = IF verdict[t] = "success" THEN "completed"
                                             ELSE "failed"]}
        /\ UNCHANGED <<outcome, listed, retries>>
    BY <1>9 DEF Conclude, SetRow
  <2>2. /\ pc'[t] = "done" /\ \A u \in Task \ {t} : pc'[u] = pc[u] /\ row'[u] = row[u]
        /\ row'[t] = "completed" => verdict[t] = "success" \/ row[t] = "completed"
    BY <2>1
  <2>3. verdict[t] = "success" => outcome[t] = "success"
    BY DEF VerdictIsOutcome
  <2> QED
    BY ONLY <2>1, <2>2, <2>3, RowInv
<1>10. ASSUME NEW t \in Task, Reassign(t) PROVE RowInv'
  <2>1. /\ t \in listed /\ listed' = listed \ {t} /\ UNCHANGED <<pc, outcome>>
        /\ retries[t] = 0
        /\ \/ UNCHANGED <<row, retries>>
           \/ retries[t] >= MaxRetries
           \/ row' = [row EXCEPT ![t] = "pending"] /\ retries' = [retries EXCEPT ![t] = @ + 1]
    BY <1>10 DEF Reassign
  <2>2. ~(retries[t] >= MaxRetries)
    BY ONLY <2>1, Bounds
  <2>3. \A u \in Task : /\ row'[u] \in {row[u], "pending"}
                        /\ u # t => retries'[u] = retries[u]
    BY <2>1, <2>2
  <2>4. \A u \in Task : /\ u \in listed' => u \in listed /\ u # t
                        /\ outcome'[u] = outcome[u] /\ pc'[u] = pc[u]
    BY <2>1
  <2>5. RowInv
    OBVIOUS
  <2> QED
    BY ONLY <2>3, <2>4, <2>5 DEF RowInv
<1>11. ASSUME NEW w \in Worker, NEW t \in Task, BeginTask(w, t) PROVE RowInv'
  <2>1. outcome[t] = "none"
    BY <1>11 DEF BeginTask, AgentInv
  <2>2. /\ \A u \in Task \ {t} : outcome'[u] = outcome[u]
        /\ UNCHANGED <<row, pc, listed, retries>>
    BY <1>11 DEF BeginTask
  <2> QED
    BY ONLY <2>1, <2>2, RowInv
<1>12. ASSUME NEW w \in Worker, NEW t \in Task, EndTask(w, t) PROVE RowInv'
  <2>1. outcome[t] = "begun"
    BY <1>12 DEF EndTask, AgentInv
  <2>2. \E o \in {"success", "failed"} : outcome' = [outcome EXCEPT ![t] = o]
    BY <1>12 DEF EndTask
  <2>3. UNCHANGED <<row, pc, listed, retries>>
    BY <1>12 DEF EndTask
  <2> QED
    BY <2>1, <2>2, <2>3
<1>13. ASSUME NEW w \in Worker, HandleEvent(w) PROVE RowInv'
  <2> DEFINE e == Head(events[w])
  <2>1. e = events[w][1] /\ 1 \in DOMAIN events[w]
    <3>1. events[w] \in Seq(EventKinds \X Task) /\ events[w] # <<>>
      BY <1>13 DEF HandleEvent, EventTypes
    <3> QED
      BY ONLY <3>1
  <2>2. e[1] \in EventKinds /\ e[2] \in Task
    <3> HIDE DEF TypeInv
    <3> QED BY <2>1, EventsTyped
  <2>3. e[1] \in {"success", "failed"} => outcome[e[2]] = e[1]
    BY ONLY <2>1, EventInv DEF EventInv
  <2>4. row' \in {row, [row EXCEPT ![e[2]] = CASE e[1] = "accepted" -> "running"
                                               [] e[1] = "rejected" -> "pending"
                                               [] e[1] = "success"  -> "completed"
                                               [] e[1] = "failed"   -> "failed"]}
    BY <1>13 DEF HandleEvent, SetRow
  <2>5. UNCHANGED <<pc, outcome, listed, retries>>
    BY <1>13 DEF HandleEvent
  <2> HIDE DEF e
  <2>6. \/ row' = row
        \/ \E r \in {"running", "pending"} : row' = [row EXCEPT ![e[2]] = r]
        \/ e[1] = "success" /\ row' = [row EXCEPT ![e[2]] = "completed"]
        \/ e[1] = "failed" /\ row' = [row EXCEPT ![e[2]] = "failed"]
    BY ONLY <2>2, <2>4 DEF EventKinds
  <2>7. \A u \in Task : \/ row'[u] \in {row[u], "running", "pending"}
                        \/ u = e[2] /\ e[1] = "success" /\ row'[u] = "completed"
                        \/ u = e[2] /\ e[1] = "failed" /\ row'[u] = "failed"
    <3> HIDE DEF ReportInv, PlaceInv
    <3>1. row \in [Task -> {"none", "assigned", "running", "pending", "completed",
                            "failed"}]
      OBVIOUS
    <3> DEFINE f == e[2]
    <3>2. f \in Task
      BY <2>2
    <3> HIDE DEF f
    <3>3. \/ row' = row
          \/ \E r \in {"running", "pending"} : row' = [row EXCEPT ![f] = r]
          \/ e[1] = "success" /\ row' = [row EXCEPT ![f] = "completed"]
          \/ e[1] = "failed" /\ row' = [row EXCEPT ![f] = "failed"]
      BY <2>6 DEF f
    <3>4. \A u \in Task : \/ row'[u] \in {row[u], "running", "pending"}
                          \/ u = f /\ e[1] = "success" /\ row'[u] = "completed"
                          \/ u = f /\ e[1] = "failed" /\ row'[u] = "failed"
      BY ONLY <3>1, <3>2, <3>3
    <3> QED
      BY <3>4 DEF f
  <2> QED
    BY ONLY <2>3, <2>5, <2>7, RowInv
<1>14. CASE ListOrphaned
  BY <1>14 DEF ListOrphaned, Orphaned
<1> QED
  BY ONLY [Next]_vars, <1>1, <1>2, <1>3, <1>4, <1>5, <1>6, <1>7, <1>8, <1>9,
          <1>10, <1>11, <1>12, <1>13, <1>14
     DEF Next, Execute, AgentStep, ServerStep, Register, BeginShutdown,
         EndShutdown, Leave, Crash, Heartbeat, DetectStale, DrainWorker,
         StreamEnds, MarkOffline, Deliver, LoseDispatch

(* The verdict is read from the row while it is polled.                       *)
LEMMA VerdictStep == TypeInv /\ PlaceInv /\ ReportInv /\ [Next]_vars => VerdictIsOutcome'
<1> SUFFICES ASSUME TypeInv /\ PlaceInv /\ ReportInv, [Next]_vars PROVE VerdictIsOutcome'
  OBVIOUS
<1> USE DEF TypeInv, RowTypes, AgentTypes, PlaceInv, AgentInv, ReportInv, RowInv, VerdictIsOutcome
<1>1. CASE UNCHANGED <<verdict, outcome>>
  BY <1>1
<1>2. ASSUME NEW t \in Task, Choose(t) PROVE VerdictIsOutcome'
  <2>1. Unsent(t)
    <3> HIDE DEF TypeInv
    <3> QED BY <1>2, BeforeSending
  <2> QED
    BY <2>1 DEF Unsent
<1>3. ASSUME NEW t \in Task, CreateAssignment(t) PROVE VerdictIsOutcome'
  <2>1. Unsent(t)
    <3> HIDE DEF TypeInv
    <3> QED BY <1>3, BeforeSending
  <2> QED
    BY <2>1 DEF Unsent
<1>4. ASSUME NEW t \in Task, GiveUpSending(t) PROVE VerdictIsOutcome'
  BY <1>4 DEF GiveUpSending
<1>5. ASSUME NEW t \in Task, Poll(t) PROVE VerdictIsOutcome'
  BY <1>5 DEF Poll
<1>6. ASSUME NEW t \in Task, StopPolling(t) PROVE VerdictIsOutcome'
  <2>1. PICK v \in {"timed out", "cancelled"} : verdict' = [verdict EXCEPT ![t] = v]
    BY <1>6 DEF StopPolling
  <2>2. UNCHANGED outcome
    BY <1>6 DEF StopPolling
  <2> QED
    BY <2>1, <2>2
<1>7. ASSUME NEW w \in Worker, NEW t \in Task, BeginTask(w, t) PROVE VerdictIsOutcome'
  BY <1>7 DEF BeginTask
<1>8. ASSUME NEW w \in Worker, NEW t \in Task, EndTask(w, t) PROVE VerdictIsOutcome'
  BY <1>8 DEF EndTask
<1> QED
  BY ONLY [Next]_vars, <1>1, <1>2, <1>3, <1>4, <1>5, <1>6, <1>7, <1>8
     DEF Next, Execute, AgentStep, ServerStep, SendDispatch, MarkRunning,
         Conclude, Reassign, Register, BeginShutdown, EndShutdown, Leave,
         Crash, Heartbeat, DetectStale, DrainWorker, HandleEvent, StreamEnds,
         MarkOffline, Deliver, LoseDispatch, ListOrphaned

LEMMA InvStep == IInv /\ [Next]_vars => IInv'
<1> SUFFICES ASSUME IInv, [Next]_vars PROVE IInv'
  OBVIOUS
<1>1. TypeInv /\ RegistryInv /\ PlaceInv /\ ReportInv
  BY DEF IInv
<1>2. TypeInv'
  BY <1>1, ConnStep, ChannelStep, AgentTypesStep, RowStep DEF TypeInv
<1>3. RegistryInv'
  BY <1>1, RegistryStep
<1>4. PlaceInv'
  BY <1>1, ChannelInvStep, AgentInvStep, BegunStep DEF PlaceInv
<1>5. EventInv' /\ RowInv' /\ VerdictIsOutcome'
  BY <1>1, EventStep, RowInvStep, VerdictStep DEF ReportInv
<1> QED
  BY <1>2, <1>3, <1>4, <1>5 DEF IInv, ReportInv

--------------------------------------------------------------------------------
(* The types, the usable registry, the place of every dispatch and the      *)
(* truth of every report hold in every reachable state.                     *)
THEOREM Invariance == Spec => []IInv
<1>1. Init => IInv
  BY InvInit
<1>2. IInv /\ [Next]_vars => IInv'
  BY InvStep
<1> QED
  BY <1>1, <1>2, PTL DEF Spec

(* Rows, channels and agents have the values of their types; no channel     *)
(* holds, and no agent executes, more than it may (registry.go, agent.go).  *)
THEOREM TypeCorrect == Spec => []TypeOK
<1>1. IInv => TypeOK
  BY DEF IInv, TypeInv, TypeOK, ConnTypes, ChannelTypes, AgentTypes, EventTypes,
         RowTypes, EventKinds
<1> QED
  BY <1>1, Invariance, PTL

(* An entry of the registry has open channels and is of the last session,   *)
(* however heartbeats, broken streams and the stale detector interleave     *)
(* (registry.go 90-252).                                                    *)
THEOREM EntriesOpen == Spec => []RegistryEntriesOpen
<1>1. IInv => RegistryEntriesOpen
  BY DEF IInv, RegistryInv
<1> QED
  BY <1>1, Invariance, PTL

(* Of any number of workers, only the one that a task was sent to executes  *)
(* it, in that session and once, although agents come back under the same   *)
(* name (dispatcher.go 261, grpc_server.go 258).                            *)
THEOREM ExecutedOnce == Spec => []ExecutedAtMostOnce
<1>1. IInv => ExecutedAtMostOnce
  BY DEF IInv, PlaceInv, AgentInv, SentTo, ExecutedAtMostOnce
<1> QED
  BY <1>1, Invariance, PTL

(* The success or failure that the dispatcher reports to the scheduler is   *)
(* what the execution ended in, although every writer of the row overwrites *)
(* it (dispatcher.go 351-360, grpc_server.go 306-342).                      *)
THEOREM VerdictsTrue == Spec => []VerdictIsOutcome
<1>1. IInv => VerdictIsOutcome
  BY DEF IInv, ReportInv
<1> QED
  BY <1>1, Invariance, PTL

--------------------------------------------------------------------------------
(* Nothing is answered before Execute stops waiting, and what was answered as *)
(* not sent is nowhere: neither in a channel, nor with an agent, nor begun.   *)
WaitInv ==
    \A t \in Task : pc[t] \notin {"deciding", "done"} => verdict[t] = "none"

Nowhere(t) ==
    /\ outcome[t] = "none"
    /\ \A w \in Worker : t \notin accepted[w]
    /\ \A c \in Conn : \A i \in DOMAIN taskCh[c] : taskCh[c][i] # t

NotSentInv == \A t \in Task : verdict[t] = "not sent" => Nowhere(t)

AnswerInv == WaitInv /\ NotSentInv

LEMMA WaitStep == TypeInv /\ WaitInv /\ [Next]_vars => WaitInv'
<1> SUFFICES ASSUME TypeInv, WaitInv, [Next]_vars PROVE WaitInv'
  OBVIOUS
<1> USE DEF TypeInv, ChannelTypes, RowTypes, WaitInv
<1>1. CASE UNCHANGED <<pc, verdict>>
  BY <1>1
<1>2. ASSUME NEW t \in Task, Choose(t) PROVE WaitInv'
  BY <1>2 DEF Choose, Fail
<1>3. ASSUME NEW t \in Task, CreateAssignment(t) PROVE WaitInv'
  BY <1>3 DEF CreateAssignment, Fail
<1>4. ASSUME NEW t \in Task, SendDispatch(t) PROVE WaitInv'
  BY <1>4 DEF SendDispatch
<1>5. ASSUME NEW t \in Task, GiveUpSending(t) PROVE WaitInv'
  BY <1>5 DEF GiveUpSending
<1>6. ASSUME NEW t \in Task, MarkRunning(t) PROVE WaitInv'
  BY <1>6 DEF MarkRunning
<1>7. ASSUME NEW t \in Task, Poll(t) PROVE WaitInv'
  BY <1>7 DEF Poll
<1>8. ASSUME NEW t \in Task, StopPolling(t) PROVE WaitInv'
  BY <1>8 DEF StopPolling
<1>9. ASSUME NEW t \in Task, Conclude(t) PROVE WaitInv'
  BY <1>9 DEF Conclude
<1> QED
  BY ONLY [Next]_vars, <1>1, <1>2, <1>3, <1>4, <1>5, <1>6, <1>7, <1>8, <1>9
     DEF Next, Execute, AgentStep, ServerStep, Reassign, BeginTask, EndTask,
         Register, BeginShutdown, EndShutdown, Leave, Crash, Heartbeat,
         DetectStale, DrainWorker, HandleEvent, StreamEnds, MarkOffline, Deliver,
         LoseDispatch, ListOrphaned

(* A task that has not been sent is nowhere.                                  *)
LEMMA UnsentNowhere ==
    ASSUME TypeInv, PlaceInv, NEW t \in Task, pc[t] \in {"idle", "chosen", "sending"}
    PROVE  Nowhere(t)
  BY DEF Nowhere, PlaceInv, BegunInv, AgentInv, ChannelInv, SentTo

(* What is nowhere stays so, as long as it is not sent: a channel gives only  *)
(* what it has, and an agent begins only what it has accepted.                *)
LEMMA NowhereStays ==
    ASSUME TypeInv, PlaceInv, [Next]_vars, NEW t \in Task, Nowhere(t), ~SendDispatch(t)
    PROVE  Nowhere(t)'
<1> USE DEF TypeInv, ChannelTypes, AgentTypes, Nowhere
<1>1. CASE UNCHANGED <<outcome, accepted, taskCh>>
  BY <1>1
<1>2. ASSUME NEW u \in Task, u # t, SendDispatch(u) PROVE Nowhere(t)'
  <2>1. /\ UNCHANGED <<outcome, accepted>>
        /\ taskCh' = taskCh \/ taskCh' = [taskCh EXCEPT ![target[u]] = Append(@, u)]
    BY <1>2 DEF SendDispatch
  <2>2. ASSUME NEW c \in Conn, NEW i \in DOMAIN taskCh'[c] PROVE taskCh'[c][i] # t
    <3>1. taskCh[c] \in Seq(Task) /\ \A j \in DOMAIN taskCh[c] : taskCh[c][j] # t
      OBVIOUS
    <3>2. taskCh'[c] \in {taskCh[c], Append(taskCh[c], u)}
      BY <2>1
    <3>3. \A j \in DOMAIN Append(taskCh[c], u) : Append(taskCh[c], u)[j] # t
      BY ONLY <3>1, <1>2
    <3> QED
      BY <3>1, <3>2, <3>3
  <2> QED
    BY <2>1, <2>2
<1>3. ASSUME NEW c \in Conn, taskCh[c] # <<>>,
             taskCh' = [taskCh EXCEPT ![c] = Tail(@)]
      PROVE  \A d \in Conn : \A i \in DOMAIN taskCh'[d] : taskCh'[d][i] # t
  <2>1. ASSUME NEW d \in Conn, NEW i \in DOMAIN taskCh'[d] PROVE taskCh'[d][i] # t
    <3>1. taskCh[d] \in Seq(Task) /\ \A j \in DOMAIN taskCh[d] : taskCh[d][j] # t
      OBVIOUS
    <3>2. taskCh'[d] = taskCh[d] \/ (taskCh[d] # <<>> /\ taskCh'[d] = Tail(taskCh[d]))
      BY <1>3
    <3>3. taskCh[d] # <<>> => \A j \in DOMAIN Tail(taskCh[d]) : Tail(taskCh[d])[j] # t
      BY ONLY <3>1
    <3> QED
      BY <3>1, <3>2, <3>3
  <2> QED
    BY <2>1
<1>4. ASSUME NEW c \in Conn, Deliver(c) PROVE Nowhere(t)'
  <2>1. Head(taskCh[c]) # t
    <3>1. taskCh[c] # <<>> /\ taskCh[c] \in Seq(Task)
          /\ \A j \in DOMAIN taskCh[c] : taskCh[c][j] # t
      BY <1>4 DEF Deliver
    <3> QED
      BY ONLY <3>1
  <2>2. /\ accepted' \in {accepted, [accepted EXCEPT ![c[1]] = @ \cup {Head(taskCh[c])}]}
        /\ UNCHANGED outcome /\ taskCh[c] # <<>>
        /\ taskCh' = [taskCh EXCEPT ![c] = Tail(@)]
    BY <1>4 DEF Deliver
  <2>3. ASSUME NEW w \in Worker PROVE t \notin accepted'[w]
    <3>1. accepted'[w] \in {accepted[w], accepted[w] \cup {Head(taskCh[c])}}
      BY <2>2
    <3> QED
      BY ONLY <2>1, <3>1, Nowhere(t), w \in Worker DEF Nowhere
  <2> QED
    BY <1>3, <2>2, <2>3
<1>5. ASSUME NEW c \in Conn, LoseDispatch(c) PROVE Nowhere(t)'
  BY <1>3, <1>5 DEF LoseDispatch
<1>6. ASSUME NEW w \in Worker, NEW u \in Task, BeginTask(w, u) PROVE Nowhere(t)'
  BY <1>6 DEF BeginTask
<1>7. ASSUME NEW w \in Worker, NEW u \in Task, EndTask(w, u) PROVE Nowhere(t)'
  <2>1. u # t
    BY <1>7 DEF EndTask, PlaceInv, AgentInv
  <2>2. UNCHANGED <<accepted, taskCh>> /\ outcome'[t] = outcome[t]
    BY <1>7, <2>1 DEF EndTask
  <2> QED
    BY <2>2
<1>8. ASSUME NEW w \in Worker, EndShutdown(w) PROVE Nowhere(t)'
  BY <1>8 DEF EndShutdown, Leave
<1>9. ASSUME NEW w \in Worker, Crash(w) PROVE Nowhere(t)'
  BY <1>9 DEF Crash, Leave
<1> QED
  BY ONLY [Next]_vars, ~SendDispatch(t), <1>1, <1>2, <1>4, <1>5, <1>6, <1>7, <1>8,
          <1>9
     DEF Next, Execute, AgentStep, ServerStep, Reassign, Choose, CreateAssignment,
         GiveUpSending, MarkRunning, Poll, StopPolling, Conclude, Register,
         BeginShutdown, Heartbeat, DetectStale, DrainWorker, HandleEvent,
         StreamEnds, MarkOffline, ListOrphaned

(* How the verdict of a task changes: once, and in three ways.                *)
Refused(t)   == /\ pc[t] \in {"idle", "chosen"}
                /\ verdict' = [verdict EXCEPT ![t] = "not sent"]
Abandoned(t) == /\ pc[t] \in {"sending", "polling"}
                /\ \E v \in {"timed out", "cancelled"} : verdict' = [verdict EXCEPT ![t] = v]
Read(t)      == /\ pc[t] = "polling" /\ row[t] \in {"completed", "failed"}
                /\ verdict' = [verdict EXCEPT ![t] = IF row[t] = "completed"
                                                     THEN "success" ELSE "failed"]

LEMMA VerdictChanges ==
    ASSUME [Next]_vars
    PROVE  \/ UNCHANGED verdict
           \/ /\ UNCHANGED outcome
              /\ \E t \in Task : Refused(t) \/ Abandoned(t) \/ Read(t)
<1> DEFINE Goal == \/ UNCHANGED verdict
                   \/ /\ UNCHANGED outcome
                      /\ \E t \in Task : Refused(t) \/ Abandoned(t) \/ Read(t)
<1>1. ASSUME UNCHANGED verdict PROVE Goal
  BY <1>1
<1>2. ASSUME NEW t \in Task, Choose(t) PROVE Goal
  BY <1>2 DEF Choose, Fail, Refused
<1>3. ASSUME NEW t \in Task, CreateAssignment(t) PROVE Goal
  BY <1>3 DEF CreateAssignment, Fail, Refused
<1>4. ASSUME NEW t \in Task, GiveUpSending(t) PROVE Goal
  BY <1>4 DEF GiveUpSending, Abandoned
<1>5. ASSUME NEW t \in Task, Poll(t) PROVE Goal
  BY <1>5 DEF Poll, Read
<1>6. ASSUME NEW t \in Task, StopPolling(t) PROVE Goal
  BY <1>6 DEF StopPolling, Abandoned
<1> HIDE DEF Goal
<1>7. Goal
  BY ONLY [Next]_vars, <1>1, <1>2, <1>3, <1>4, <1>5, <1>6
     DEF Next, Execute, AgentStep, ServerStep, SendDispatch, MarkRunning,
         Conclude, Reassign, BeginTask, EndTask, Register, BeginShutdown,
         EndShutdown, Leave, Crash, Heartbeat, DetectStale, DrainWorker,
         HandleEvent, StreamEnds, MarkOffline, Deliver, LoseDispatch, ListOrphaned
<1> QED
  BY <1>7 DEF Goal

LEMMA NotSentStep ==
    TypeInv /\ PlaceInv /\ AnswerInv /\ [Next]_vars => NotSentInv'
<1> SUFFICES ASSUME TypeInv, PlaceInv, AnswerInv, [Next]_vars,
                    NEW t \in Task, verdict'[t] = "not sent"
             PROVE  Nowhere(t)'
  BY DEF NotSentInv
<1> USE DEF AnswerInv
<1>1. Nowhere(t)
  <2>1. CASE verdict[t] = "not sent"
    BY <2>1 DEF NotSentInv
  <2>2. CASE verdict[t] # "not sent"
    <3>1. PICK u \in Task : Refused(u) \/ Abandoned(u) \/ Read(u)
      BY <2>2, VerdictChanges
    <3>2. verdict \in [Task -> {"none", "not sent", "success", "failed",
                                "timed out", "cancelled"}]
      BY DEF TypeInv, RowTypes
    <3>3. Refused(t)
      BY <2>2, <3>1, <3>2 DEF Refused, Abandoned, Read
    <3> QED
      BY <3>3, UnsentNowhere DEF Refused
  <2> QED
    BY <2>1, <2>2
<1>2. ~SendDispatch(t)
  BY DEF SendDispatch, WaitInv
<1> QED
  BY <1>1, <1>2, NowhereStays

(* Dispatching to the cluster does nothing that its contract does not allow:  *)
(* a task begins once at most, Execute answers once, with what the execution  *)
(* ended in or without claiming an end, and what it reports as not sent is    *)
(* never executed, whatever crashes, comes back or is retried                 *)
(* (dispatcher.go 86-365, agent.go, reassigner.go).                           *)
THEOREM Dispatches == Spec => ImplementsContract
<1>1. Init => Contract!Init /\ AnswerInv
  BY DEF Init, Contract!Init, AnswerInv, WaitInv, NotSentInv
<1>2. IInv /\ AnswerInv /\ [Next]_vars => AnswerInv'
  BY WaitStep, NotSentStep DEF IInv, AnswerInv
<1>3. IInv /\ AnswerInv /\ [Next]_vars => [Contract!Next]_(Contract!vars)
  <2> SUFFICES ASSUME IInv, AnswerInv, [Next]_vars
               PROVE  Contract!Next \/ UNCHANGED <<outcome, verdict>>
    BY DEF Contract!vars
  <2>0. TypeInv /\ PlaceInv /\ ReportInv
    BY DEF IInv
  <2>1. CASE UNCHANGED <<outcome, verdict>>
    BY <2>1
  <2>2. ASSUME NEW w \in Worker, NEW t \in Task, BeginTask(w, t)
        PROVE  Contract!Begin(t)
    <3>1. outcome[t] = "none" /\ t \in accepted[w]
      BY <2>0, <2>2 DEF BeginTask, PlaceInv, AgentInv
    <3>2. verdict[t] # "not sent"
      BY <3>1 DEF AnswerInv, NotSentInv, Nowhere
    <3> QED
      BY <2>2, <3>1, <3>2 DEF BeginTask, Contract!Begin
  <2>3. ASSUME NEW w \in Worker, NEW t \in Task, EndTask(w, t)
        PROVE  Contract!End(t)
    BY <2>0, <2>3 DEF EndTask, PlaceInv, AgentInv, Contract!End, Contract!Ends
  <2>4. ASSUME UNCHANGED outcome, NEW t \in Task, Refused(t) \/ Abandoned(t) \/ Read(t)
        PROVE  \E v \in Contract!Answers : Contract!Answer(t, v)
    <3>1. verdict[t] = "none"
      BY <2>4 DEF AnswerInv, WaitInv, Refused, Abandoned, Read
    <3> USE DEF Contract!Answers, Contract!Answer, Contract!Ends
    <3>2. CASE Refused(t)
      <4>1. outcome[t] = "none"
        BY <2>0, <3>2, UnsentNowhere DEF Refused, Nowhere
      <4>2. Contract!Answer(t, "not sent")
        BY <2>4, <3>1, <3>2, <4>1 DEF Refused
      <4> QED
        BY <4>2
    <3>3. CASE Abandoned(t)
      <4>1. PICK v \in {"timed out", "cancelled"} : verdict' = [verdict EXCEPT ![t] = v]
        BY <3>3 DEF Abandoned
      <4>2. Contract!Answer(t, v)
        BY <2>4, <3>1, <4>1
      <4> QED
        BY <4>2
    <3>4. CASE Read(t)
      <4> DEFINE v == IF row[t] = "completed" THEN "success" ELSE "failed"
      <4>1. v \in {"success", "failed"} /\ outcome[t] = v
        BY <2>0, <3>4 DEF Read, ReportInv, RowInv
      <4>2. verdict' = [verdict EXCEPT ![t] = v]
        BY <3>4 DEF Read
      <4> HIDE DEF v
      <4>3. Contract!Answer(t, v)
        BY <2>4, <3>1, <4>1, <4>2
      <4> QED
        BY <4>1, <4>3
    <3> QED
      BY <2>4, <3>2, <3>3, <3>4
  <2>5. UNCHANGED outcome \/ \E w \in Worker, t \in Task : BeginTask(w, t) \/ EndTask(w, t)
    BY DEF Next, Execute, AgentStep, ServerStep, Choose, CreateAssignment,
           SendDispatch, GiveUpSending, MarkRunning, Poll, StopPolling, Conclude,
           Reassign, Register, BeginShutdown, EndShutdown, Leave, Crash, Heartbeat,
           DetectStale, DrainWorker, HandleEvent, StreamEnds, MarkOffline, Deliver,
           LoseDispatch, ListOrphaned
  <2> QED
    BY <2>1, <2>2, <2>3, <2>4, <2>5, VerdictChanges DEF Contract!Next
<1> QED
  BY <1>1, <1>2, <1>3, Invariance, PTL DEF Spec, ImplementsContract, Contract!Spec
================================================================================
