---------------------------- MODULE ServerRunProofs ----------------------------
(***************************************************************************)
(* Proofs about ServerRun, for every plan, any number of cancellations,    *)
(* attempts, crashes and shutdowns: its types, that a success is earned,   *)
(* that a cancelled run at rest stays cancelled, and that the counters of  *)
(* an undisturbed run agree with its tasks.                                *)
(***************************************************************************)
EXTENDS ServerRun, FiniteSetTheorems, TLAPS

(* The statuses of a task with which a run may be a success.                *)
Fine == {"none", "success", "skipped"}
Earned == \A t \in DOMAIN result : result[t] \in Fine

(* The part of an attempt before its first task, and up to its verdict.     *)
Before == {"clone", "cloning", "fail", "plan", "announce", "announced"}
During == Before \cup {"run", "complete"}

(* The row says success only when every task's row allows it; while an      *)
(* attempt can still write the database, it does not say success; and no    *)
(* copy of the row that is going to be written does, but for the one taken  *)
(* after a success.                                                         *)
RowEarned ==
    /\ row.status = "success" => Earned
    /\ ctx = "live" /\ pc \in During => row.status # "success"
    /\ pc \in During \cup {"markUpdate"} => snap.status # "success"
    /\ latest.status = "success" => Earned /\ pc \in {"notified", "markNotified"}

(* An attempt that can still write the database has begun without rows of   *)
(* tasks, and each task's row is as far as the scheduler is with the task.  *)
TasksFollowed ==
    /\ pc \in {"idle", "exists", "subscribe", "check", "delete", "reset"} \cup Before =>
           \A t \in Task : stage[t] = "todo"
    /\ ctx = "live" /\ pc \in {"reset"} \cup Before =>
           \A t \in Task : result[t] = "none"
    /\ ctx = "live" /\ pc \in {"reset", "clone"} => result[Clone] = "none"
    /\ ctx = "live" /\ pc \in {"plan", "announce", "announced", "run", "complete"} =>
           result[Clone] \in {"none", "success"}
    /\ \A t \in Task : stage[t] \in {"report", "count", "done"} => out[t] # "none"
    /\ ctx = "live" /\ pc = "run" => \A t \in Task :
           /\ stage[t] = "todo" => result[t] = "none"
           /\ stage[t] \in {"count", "done"} /\ t \notin Failed => result[t] \in Fine
    /\ ctx = "live" /\ pc = "complete" /\ Failed = {} => \A t \in Task : result[t] \in Fine

(* Only a run that has been triggered has a job, and a copy of its row.     *)
Triggered ==
    /\ row.status = "absent" => job = "absent"
    /\ snap.status # "absent" /\ latest.status # "absent" /\ \A c \in Request : asnap[c].status # "absent"

TypeInv == TypeOK /\ Triggered
IInv == TypeInv /\ RowEarned /\ TasksFollowed

USE DEF vars, wvars, avars, jvars, fvars, vtask, InCtx, Goto, Leave, Update,
        StartWithTotal, Complete, IncrementCompleted, IncrementFailed,
        CancelNonTerminalTasks, CancelGoto, Stage, SetStage, NewRow, Terminal, Clone,
        Reload, SaveComment, Commented, Requeued

--------------------------------------------------------------------------------
LEMMA TypeInit == Init => TypeInv
<1> SUFFICES ASSUME Init PROVE TypeInv
  OBVIOUS
<1>1. snap \in RowType /\ latest \in RowType /\ row \in RowType
  BY DEF Init, RowType, Status
<1>2. asnap \in [Request -> RowType]
  BY DEF Init, RowType, Status
<1>3. Triggered
  BY DEF Init, Triggered
<1>4. /\ attempts \in 0 .. MaxAttempts /\ faults \in 0 .. MaxFaults
      /\ result \in [Task \cup {Clone} -> {"none", "running", "success", "failed",
                                           "cancelled", "skipped"}]
  BY ServerRunAssumption DEF Init
<1> QED
  BY <1>1, <1>2, <1>3, <1>4 DEF Init, TypeInv, TypeOK

LEMMA CountedRow ==
    ASSUME NEW r \in RowType
    PROVE  /\ [r EXCEPT !.completed = @ + 1] \in RowType
           /\ [r EXCEPT !.completed = @ + 1, !.failed = @ + 1] \in RowType
<1> DEFINE q == [r EXCEPT !.completed = @ + 1]
<1>1. q \in RowType
  BY DEF RowType
<1>2. \A p \in RowType : [p EXCEPT !.failed = @ + 1] \in RowType
  BY DEF RowType
<1>3. [r EXCEPT !.completed = @ + 1, !.failed = @ + 1] = [q EXCEPT !.failed = @ + 1]
  BY DEF RowType
<1> QED
  BY <1>1, <1>2, <1>3

LEMMA TypeStep == TypeInv /\ [Next]_vars => TypeInv'
<1> SUFFICES ASSUME TypeInv, [Next]_vars PROVE TypeInv'
  OBVIOUS
<1> USE ServerRunAssumption DEF TypeInv, TypeOK, Triggered, RowType, Status
<1>1. CASE TriggerRun
  BY <1>1 DEF TriggerRun
<1>2. CASE SaveSnapshot
  BY <1>2 DEF SaveSnapshot
<1>3. CASE PropagateCancel
  BY <1>3 DEF PropagateCancel
<1>4. CASE Crash
  BY <1>4 DEF Crash, Forget
<1>5. CASE ShutDown
  BY <1>5 DEF ShutDown
<1>6. CASE Deliver
  BY <1>6 DEF Deliver, Begin
<1>6a. CASE Refuse
  BY <1>6a DEF Refuse
<1>7. CASE WatchExists
  BY <1>7 DEF WatchExists
<1>8. CASE WatchSubscribe
  BY <1>8 DEF WatchSubscribe
<1>9. CASE CheckContext
  BY <1>9 DEF CheckContext
<1>10. CASE DeleteTaskResults
  BY <1>10 DEF DeleteTaskResults
<1>11. CASE ResetRun
  <2>1. snap' \in RowType /\ snap'.status # "absent"
    BY <1>11 DEF ResetRun
  <2>2. row' \in RowType /\ (row'.status = "absent" => job = "absent")
    BY <1>11, <2>1 DEF ResetRun
  <2> HIDE DEF RowType
  <2> QED BY <1>11, <2>1, <2>2 DEF ResetRun
<1>12. CASE NoRepository
  BY <1>12 DEF NoRepository
<1>12a. CASE NoWorkDir
  BY <1>12a DEF NoWorkDir
<1>13. CASE StartClone
  BY <1>13 DEF StartClone
<1>14. CASE FailAndRetry
  BY <1>14 DEF FailAndRetry
<1>15. CASE NoTargets
  BY <1>15 DEF NoTargets
<1>16. CASE StartRun
  <2>1. snap' \in RowType /\ snap'.status # "absent"
    BY <1>16 DEF StartRun
  <2>2. row' \in RowType /\ (row'.status = "absent" => job = "absent")
    BY <1>16, <2>1 DEF StartRun
  <2> HIDE DEF RowType
  <2> QED BY <1>16, <2>1, <2>2 DEF StartRun
<1>17. CASE Announce
  BY <1>17 DEF Announce
<1>17a. CASE Announced
  <2>1. latest' \in RowType /\ latest'.status # "absent"
    BY <1>17a DEF Announced
  <2>2. row' \in RowType /\ (row'.status = "absent" => job = "absent")
    BY <1>17a DEF Announced
  <2> HIDE DEF RowType
  <2> QED BY <1>17a, <2>1, <2>2 DEF Announced
<1>18. CASE RunEnds
  BY <1>18 DEF RunEnds
<1>19. CASE RunFails
  BY <1>19 DEF RunFails
<1>20. CASE CompleteRun
  BY <1>20 DEF CompleteRun
<1>21. CASE NotifyEnd
  BY <1>21 DEF NotifyEnd
<1>21a. CASE Notified
  <2>1. latest' \in RowType /\ latest'.status # "absent"
    BY <1>21a DEF Notified
  <2>2. row' \in RowType /\ (row'.status = "absent" => job = "absent")
    BY <1>21a DEF Notified
  <2> HIDE DEF RowType
  <2> QED BY <1>21a, <2>1, <2>2 DEF Notified
<1>22. CASE MarkRead
  BY <1>22 DEF MarkRead
<1>23. CASE MarkUpdate
  BY <1>23 DEF MarkUpdate
<1>24. CASE MarkTasks
  BY <1>24 DEF MarkTasks
<1>25. CASE MarkNotify
  BY <1>25 DEF MarkNotify
<1>25a. CASE MarkNotified
  <2>1. latest' \in RowType /\ latest'.status # "absent"
    BY <1>25a DEF MarkNotified
  <2>2. row' \in RowType /\ (row'.status = "absent" => job = "absent")
    BY <1>25a DEF MarkNotified
  <2> HIDE DEF RowType
  <2> QED BY <1>25a, <2>1, <2>2 DEF MarkNotified
<1>26. CASE Clear
  <2>1. snap' \in RowType /\ snap'.status # "absent"
    BY <1>26 DEF Clear
  <2>2. row' \in RowType /\ (row'.status = "absent" => job = "absent")
    BY <1>26, <2>1 DEF Clear
  <2> HIDE DEF RowType
  <2> QED BY <1>26, <2>1, <2>2 DEF Clear
<1>27. CASE Return
  BY <1>27 DEF Return, Forget
<1>28. ASSUME NEW s \in {"success", "failed"}, CloneEnds(s) PROVE TypeInv'
  BY <1>28 DEF CloneEnds
<1>29. ASSUME NEW t \in Task, StartTask(t) PROVE TypeInv'
  BY <1>29 DEF StartTask
<1>30. ASSUME NEW t \in Task, SkipTask(t) PROVE TypeInv'
  BY <1>30 DEF SkipTask
<1>31. ASSUME NEW t \in Task, EndTask(t) PROVE TypeInv'
  BY <1>31 DEF EndTask
<1>32. ASSUME NEW t \in Task, ReportTask(t) PROVE TypeInv'
  BY <1>32 DEF ReportTask
<1>33. ASSUME NEW t \in Task, CountTask(t) PROVE TypeInv'
  <2>1. /\ row \in RowType
        /\ [row EXCEPT !.completed = @ + 1] \in RowType
        /\ [row EXCEPT !.completed = @ + 1, !.failed = @ + 1] \in RowType
    BY CountedRow
  <2>2. \/ row' = row
        \/ row' = [row EXCEPT !.completed = @ + 1]
        \/ row' = [row EXCEPT !.completed = @ + 1, !.failed = @ + 1]
    BY <1>33 DEF CountTask
  <2>3. row' \in RowType /\ row'.status = row.status
    BY <2>1, <2>2
  <2> HIDE DEF RowType
  <2> QED BY <1>33, <2>3 DEF CountTask
<1>34. ASSUME NEW c \in Request, CancelRead(c) PROVE TypeInv'
  BY <1>34 DEF CancelRead
<1>35. ASSUME NEW c \in Request, CancelUpdate(c) PROVE TypeInv'
  BY <1>35 DEF CancelUpdate
<1>36. ASSUME NEW c \in Request, CancelTasks(c) PROVE TypeInv'
  BY <1>36 DEF CancelTasks
<1>37. ASSUME NEW c \in Request, SignalSet(c) PROVE TypeInv'
  BY <1>37 DEF SignalSet
<1>38. ASSUME NEW c \in Request, SignalPublish(c) PROVE TypeInv'
  BY <1>38 DEF SignalPublish
<1>39. CASE UNCHANGED vars
  BY <1>39
<1> QED
  BY <1>1, <1>2, <1>3, <1>4, <1>5, <1>6, <1>6a, <1>7, <1>8, <1>9, <1>10,
     <1>11, <1>12, <1>12a, <1>13, <1>14, <1>15, <1>16, <1>17, <1>17a, <1>18, <1>19,
     <1>20, <1>21, <1>21a, <1>22, <1>23, <1>24, <1>25, <1>25a, <1>26, <1>27, <1>28, <1>29, <1>30, <1>31,
     <1>32, <1>33, <1>34, <1>35, <1>36, <1>37, <1>38, <1>39
     DEF Next, Prepare, Finish, TaskStep, Cancel

(* The variables of a run have their types whatever happens to it.          *)
THEOREM TypeCorrect == Spec => []TypeOK
<1>1. Init => TypeInv BY TypeInit
<1>2. TypeInv /\ [Next]_vars => TypeInv' BY TypeStep
<1>3. TypeInv => TypeOK BY DEF TypeInv
<1> QED BY <1>1, <1>2, <1>3, PTL DEF Spec

--------------------------------------------------------------------------------
LEMMA EarnedInit == Init => RowEarned /\ TasksFollowed
  BY DEF Init, RowEarned, TasksFollowed, During, Before

LEMMA RowStep == IInv /\ [Next]_vars => RowEarned'
<1> SUFFICES ASSUME IInv, [Next]_vars PROVE RowEarned'
  OBVIOUS
<1> USE DEF IInv, TypeInv, TypeOK, RowType, RowEarned, Earned, Fine, During, Before
<1>1. CASE TriggerRun
  BY <1>1 DEF TriggerRun
<1>2. CASE SaveSnapshot
  BY <1>2 DEF SaveSnapshot
<1>3. CASE PropagateCancel
  BY <1>3 DEF PropagateCancel
<1>4. CASE Crash
  BY <1>4 DEF Crash, Forget
<1>5. CASE ShutDown
  BY <1>5 DEF ShutDown
<1>6. CASE Deliver
  BY <1>6 DEF Deliver, Begin
<1>6a. CASE Refuse
  BY <1>6a DEF Refuse
<1>7. CASE WatchExists
  BY <1>7 DEF WatchExists
<1>8. CASE WatchSubscribe
  BY <1>8 DEF WatchSubscribe
<1>9. CASE CheckContext
  BY <1>9 DEF CheckContext
<1>10. CASE DeleteTaskResults
  BY <1>10 DEF DeleteTaskResults
<1>11. CASE ResetRun
  <2>1. snap'.status = "pending" /\ row' \in {row, snap'}
    BY <1>11 DEF ResetRun
  <2>2. pc' = "clone" /\ UNCHANGED <<result, latest, ctx>> /\ (ctx = "live" => row' = snap')
    BY <1>11 DEF ResetRun
  <2>3. latest.status # "success"
    BY <1>11 DEF ResetRun
  <2> QED BY <2>1, <2>2, <2>3
<1>12. CASE NoRepository
  BY <1>12 DEF NoRepository
<1>12a. CASE NoWorkDir
  BY <1>12a DEF NoWorkDir
<1>13. CASE StartClone
  BY <1>13 DEF StartClone
<1>14. CASE FailAndRetry
  BY <1>14 DEF FailAndRetry
<1>15. CASE NoTargets
  BY <1>15 DEF NoTargets
<1>16. CASE StartRun
  BY <1>16 DEF StartRun
<1>17. CASE Announce
  BY <1>17 DEF Announce
<1>17a. CASE Announced
  BY <1>17a DEF Announced
<1>18. CASE RunEnds
  BY <1>18 DEF RunEnds
<1>19. CASE RunFails
  BY <1>19 DEF RunFails
<1>20. CASE CompleteRun
  <2>1. pc = "complete" /\ pc' \in {"notify", "clear"}
        /\ UNCHANGED <<result, ctx, snap>>
    BY <1>20 DEF CompleteRun
  <2>2. CASE ctx # "live"
    BY <1>20, <2>1, <2>2 DEF CompleteRun
  <2>3. CASE ctx = "live" /\ Failed # {}
    BY <1>20, <2>1, <2>3 DEF CompleteRun
  <2>4. CASE ctx = "live" /\ Failed = {}
    <3>1. \A t \in Task \cup {Clone} : result[t] \in Fine
      BY <2>1, <2>4 DEF TasksFollowed
    <3>2. row'.status \in {"success", "failed", row.status}
          /\ latest' = latest /\ snap' = snap
      BY <1>20 DEF CompleteRun
    <3> QED BY <2>1, <3>1, <3>2
  <2> QED BY <2>2, <2>3, <2>4
<1>21. CASE NotifyEnd
  BY <1>21 DEF NotifyEnd
<1>21a. CASE Notified
  BY <1>21a DEF Notified
<1>22. CASE MarkRead
  BY <1>22 DEF MarkRead
<1>23. CASE MarkUpdate
  BY <1>23 DEF MarkUpdate
<1>24. CASE MarkTasks
  BY <1>24 DEF MarkTasks
<1>25. CASE MarkNotify
  BY <1>25 DEF MarkNotify
<1>25a. CASE MarkNotified
  BY <1>25a DEF MarkNotified
<1>26. CASE Clear
  BY <1>26 DEF Clear
<1>27. CASE Return
  BY <1>27 DEF Return, Forget
<1>28. ASSUME NEW s \in {"success", "failed"}, CloneEnds(s) PROVE RowEarned'
  BY <1>28 DEF CloneEnds
<1>29. ASSUME NEW t \in Task, StartTask(t) PROVE RowEarned'
  BY <1>29 DEF StartTask
<1>30. ASSUME NEW t \in Task, SkipTask(t) PROVE RowEarned'
  BY <1>30 DEF SkipTask
<1>31. ASSUME NEW t \in Task, EndTask(t) PROVE RowEarned'
  BY <1>31 DEF EndTask
<1>32. ASSUME NEW t \in Task, ReportTask(t) PROVE RowEarned'
  BY <1>32 DEF ReportTask
<1>33. ASSUME NEW t \in Task, CountTask(t) PROVE RowEarned'
  BY <1>33 DEF CountTask
<1>34. ASSUME NEW c \in Request, CancelRead(c) PROVE RowEarned'
  BY <1>34 DEF CancelRead
<1>35. ASSUME NEW c \in Request, CancelUpdate(c) PROVE RowEarned'
  BY <1>35 DEF CancelUpdate
<1>36. ASSUME NEW c \in Request, CancelTasks(c) PROVE RowEarned'
  BY <1>36 DEF CancelTasks
<1>37. ASSUME NEW c \in Request, SignalSet(c) PROVE RowEarned'
  BY <1>37 DEF SignalSet
<1>38. ASSUME NEW c \in Request, SignalPublish(c) PROVE RowEarned'
  BY <1>38 DEF SignalPublish
<1>39. CASE UNCHANGED vars
  BY <1>39
<1> QED
  BY <1>1, <1>2, <1>3, <1>4, <1>5, <1>6, <1>6a, <1>7, <1>8, <1>9, <1>10,
     <1>11, <1>12, <1>12a, <1>13, <1>14, <1>15, <1>16, <1>17, <1>17a, <1>18, <1>19,
     <1>20, <1>21, <1>21a, <1>22, <1>23, <1>24, <1>25, <1>25a, <1>26, <1>27, <1>28, <1>29, <1>30, <1>31,
     <1>32, <1>33, <1>34, <1>35, <1>36, <1>37, <1>38, <1>39
     DEF Next, Prepare, Finish, TaskStep, Cancel

LEMMA TasksStep == IInv /\ [Next]_vars => TasksFollowed'
<1> SUFFICES ASSUME IInv, [Next]_vars PROVE TasksFollowed'
  OBVIOUS
<1> USE CloneAssumption DEF IInv, TypeInv, TypeOK, TasksFollowed, Fine, Failed, Cancelled, Before
<1>1. CASE TriggerRun
  BY <1>1 DEF TriggerRun
<1>2. CASE SaveSnapshot
  BY <1>2 DEF SaveSnapshot
<1>3. CASE PropagateCancel
  BY <1>3 DEF PropagateCancel
<1>4. CASE Crash
  BY <1>4 DEF Crash, Forget
<1>5. CASE ShutDown
  BY <1>5 DEF ShutDown
<1>6. CASE Deliver
  BY <1>6 DEF Deliver, Begin
<1>6a. CASE Refuse
  BY <1>6a DEF Refuse
<1>7. CASE WatchExists
  BY <1>7 DEF WatchExists
<1>8. CASE WatchSubscribe
  BY <1>8 DEF WatchSubscribe
<1>9. CASE CheckContext
  BY <1>9 DEF CheckContext
<1>10. CASE DeleteTaskResults
  BY <1>10 DEF DeleteTaskResults
<1>11. CASE ResetRun
  BY <1>11 DEF ResetRun
<1>12. CASE NoRepository
  BY <1>12 DEF NoRepository
<1>12a. CASE NoWorkDir
  BY <1>12a DEF NoWorkDir
<1>13. CASE StartClone
  BY <1>13 DEF StartClone
<1>14. CASE FailAndRetry
  BY <1>14 DEF FailAndRetry
<1>15. CASE NoTargets
  BY <1>15 DEF NoTargets
<1>16. CASE StartRun
  BY <1>16 DEF StartRun
<1>17. CASE Announce
  BY <1>17 DEF Announce
<1>17a. CASE Announced
  BY <1>17a DEF Announced
<1>18. CASE RunEnds
  BY <1>18 DEF RunEnds
<1>19. CASE RunFails
  BY <1>19 DEF RunFails
<1>20. CASE CompleteRun
  BY <1>20 DEF CompleteRun
<1>21. CASE NotifyEnd
  BY <1>21 DEF NotifyEnd
<1>21a. CASE Notified
  BY <1>21a DEF Notified
<1>22. CASE MarkRead
  BY <1>22 DEF MarkRead
<1>23. CASE MarkUpdate
  BY <1>23 DEF MarkUpdate
<1>24. CASE MarkTasks
  BY <1>24 DEF MarkTasks
<1>25. CASE MarkNotify
  BY <1>25 DEF MarkNotify
<1>25a. CASE MarkNotified
  BY <1>25a DEF MarkNotified
<1>26. CASE Clear
  BY <1>26 DEF Clear
<1>27. CASE Return
  BY <1>27 DEF Return, Forget
<1>28. ASSUME NEW s \in {"success", "failed"}, CloneEnds(s) PROVE TasksFollowed'
  BY <1>28 DEF CloneEnds
<1>29. ASSUME NEW t \in Task, StartTask(t) PROVE TasksFollowed'
  BY <1>29 DEF StartTask
<1>30. ASSUME NEW t \in Task, SkipTask(t) PROVE TasksFollowed'
  BY <1>30 DEF SkipTask
<1>31. ASSUME NEW t \in Task, EndTask(t) PROVE TasksFollowed'
  BY <1>31 DEF EndTask
<1>32. ASSUME NEW t \in Task, ReportTask(t) PROVE TasksFollowed'
  BY <1>32 DEF ReportTask
<1>33. ASSUME NEW t \in Task, CountTask(t) PROVE TasksFollowed'
  BY <1>33 DEF CountTask
<1>34. ASSUME NEW c \in Request, CancelRead(c) PROVE TasksFollowed'
  BY <1>34 DEF CancelRead
<1>35. ASSUME NEW c \in Request, CancelUpdate(c) PROVE TasksFollowed'
  BY <1>35 DEF CancelUpdate
<1>36. ASSUME NEW c \in Request, CancelTasks(c) PROVE TasksFollowed'
  BY <1>36 DEF CancelTasks
<1>37. ASSUME NEW c \in Request, SignalSet(c) PROVE TasksFollowed'
  BY <1>37 DEF SignalSet
<1>38. ASSUME NEW c \in Request, SignalPublish(c) PROVE TasksFollowed'
  BY <1>38 DEF SignalPublish
<1>39. CASE UNCHANGED vars
  BY <1>39
<1> QED
  BY <1>1, <1>2, <1>3, <1>4, <1>5, <1>6, <1>6a, <1>7, <1>8, <1>9, <1>10,
     <1>11, <1>12, <1>12a, <1>13, <1>14, <1>15, <1>16, <1>17, <1>17a, <1>18, <1>19,
     <1>20, <1>21, <1>21a, <1>22, <1>23, <1>24, <1>25, <1>25a, <1>26, <1>27, <1>28, <1>29, <1>30, <1>31,
     <1>32, <1>33, <1>34, <1>35, <1>36, <1>37, <1>38, <1>39
     DEF Next, Prepare, Finish, TaskStep, Cancel

(* A job that is done does not leave behind a success with a task that      *)
(* failed, was cancelled or is running, however often it was delivered and  *)
(* whenever it was cancelled or its worker died (execute_run.go 343-365,    *)
(* 888-925).                                                                *)
THEOREM SuccessEarned == Spec => []SuccessIsEarned
<1>1. Init => IInv BY TypeInit, EarnedInit DEF IInv
<1>2. IInv /\ [Next]_vars => IInv' BY TypeStep, RowStep, TasksStep DEF IInv
<1>3. IInv => SuccessIsEarned BY DEF IInv, RowEarned, Earned, Fine, SuccessIsEarned
<1> QED BY <1>1, <1>2, <1>3, PTL DEF Spec

--------------------------------------------------------------------------------
(* No step takes a cancelled run at rest out of its rest.                   *)
LEMMA RestStep == TypeOK /\ AtRest /\ [Next]_vars => AtRest'
<1> SUFFICES ASSUME TypeOK, AtRest, [Next]_vars PROVE AtRest'
  OBVIOUS
<1> USE DEF AtRest, InFlight, TypeOK
<1>1. CASE TriggerRun
  BY <1>1 DEF TriggerRun
<1>2. CASE SaveSnapshot
  BY <1>2 DEF SaveSnapshot
<1>3. CASE PropagateCancel
  BY <1>3 DEF PropagateCancel
<1>4. CASE Crash
  BY <1>4 DEF Crash, Forget
<1>5. CASE ShutDown
  BY <1>5 DEF ShutDown
<1>6. CASE Deliver
  BY <1>6 DEF Deliver, Begin
<1>6a. CASE Refuse
  BY <1>6a DEF Refuse
<1>7. CASE WatchExists
  BY <1>7 DEF WatchExists
<1>8. CASE WatchSubscribe
  BY <1>8 DEF WatchSubscribe
<1>9. CASE CheckContext
  BY <1>9 DEF CheckContext
<1>10. CASE DeleteTaskResults
  BY <1>10 DEF DeleteTaskResults
<1>11. CASE ResetRun
  BY <1>11 DEF ResetRun
<1>12. CASE NoRepository
  BY <1>12 DEF NoRepository
<1>12a. CASE NoWorkDir
  BY <1>12a DEF NoWorkDir
<1>13. CASE StartClone
  BY <1>13 DEF StartClone
<1>14. CASE FailAndRetry
  BY <1>14 DEF FailAndRetry
<1>15. CASE NoTargets
  BY <1>15 DEF NoTargets
<1>16. CASE StartRun
  BY <1>16 DEF StartRun
<1>17. CASE Announce
  BY <1>17 DEF Announce
<1>17a. CASE Announced
  BY <1>17a DEF Announced
<1>18. CASE RunEnds
  BY <1>18 DEF RunEnds
<1>19. CASE RunFails
  BY <1>19 DEF RunFails
<1>20. CASE CompleteRun
  BY <1>20 DEF CompleteRun
<1>21. CASE NotifyEnd
  BY <1>21 DEF NotifyEnd
<1>21a. CASE Notified
  BY <1>21a DEF Notified
<1>22. CASE MarkRead
  BY <1>22 DEF MarkRead
<1>23. CASE MarkUpdate
  BY <1>23 DEF MarkUpdate
<1>24. CASE MarkTasks
  BY <1>24 DEF MarkTasks
<1>25. CASE MarkNotify
  BY <1>25 DEF MarkNotify
<1>25a. CASE MarkNotified
  BY <1>25a DEF MarkNotified
<1>26. CASE Clear
  BY <1>26 DEF Clear
<1>27. CASE Return
  BY <1>27 DEF Return, Forget
<1>28. ASSUME NEW s \in {"success", "failed"}, CloneEnds(s) PROVE AtRest'
  BY <1>28 DEF CloneEnds
<1>29. ASSUME NEW t \in Task, StartTask(t) PROVE AtRest'
  BY <1>29 DEF StartTask
<1>30. ASSUME NEW t \in Task, SkipTask(t) PROVE AtRest'
  BY <1>30 DEF SkipTask
<1>31. ASSUME NEW t \in Task, EndTask(t) PROVE AtRest'
  BY <1>31 DEF EndTask
<1>32. ASSUME NEW t \in Task, ReportTask(t) PROVE AtRest'
  BY <1>32 DEF ReportTask
<1>33. ASSUME NEW t \in Task, CountTask(t) PROVE AtRest'
  BY <1>33 DEF CountTask
<1>34. ASSUME NEW c \in Request, CancelRead(c) PROVE AtRest'
  BY <1>34 DEF CancelRead
<1>35. ASSUME NEW c \in Request, CancelUpdate(c) PROVE AtRest'
  BY <1>35 DEF CancelUpdate
<1>36. ASSUME NEW c \in Request, CancelTasks(c) PROVE AtRest'
  BY <1>36 DEF CancelTasks
<1>37. ASSUME NEW c \in Request, SignalSet(c) PROVE AtRest'
  BY <1>37 DEF SignalSet
<1>38. ASSUME NEW c \in Request, SignalPublish(c) PROVE AtRest'
  BY <1>38 DEF SignalPublish
<1>39. CASE UNCHANGED vars
  BY <1>39
<1> QED
  BY <1>1, <1>2, <1>3, <1>4, <1>5, <1>6, <1>6a, <1>7, <1>8, <1>9, <1>10,
     <1>11, <1>12, <1>12a, <1>13, <1>14, <1>15, <1>16, <1>17, <1>17a, <1>18, <1>19,
     <1>20, <1>21, <1>21a, <1>22, <1>23, <1>24, <1>25, <1>25a, <1>26, <1>27, <1>28, <1>29, <1>30, <1>31,
     <1>32, <1>33, <1>34, <1>35, <1>36, <1>37, <1>38, <1>39
     DEF Next, Prepare, Finish, TaskStep, Cancel

(* A cancelled run that no attempt executes and no call is still cancelling *)
(* stays cancelled, and no attempt starts to execute it (execute_run.go     *)
(* 323-326).                                                                *)
THEOREM NotRevived == Spec => CancelledRunNotRevived
<1>1. TypeOK /\ [Next]_vars => [AtRest => AtRest']_vars BY RestStep
<1> QED BY <1>1, TypeCorrect, PTL DEF Spec, CancelledRunNotRevived

--------------------------------------------------------------------------------
(* A run that nobody disturbed: no attempt hears of a cancellation, so each *)
(* one can write the database until it returns or crashes, and nobody else   *)
(* writes the row.                                                          *)
Untouched ==
    /\ ~key /\ watch # "closed" /\ ctx = "live" /\ row.status # "cancelled"
    /\ pc \notin {"mark", "markUpdate", "markTasks", "markNotify", "markNotified"}
    /\ pc \in {"announced", "notified"} => latest = row

(* The row of a task says what the scheduler knows of it, but for a task    *)
(* that was skipped on a failed one and has none.                           *)
Outcomes == {"success", "failed", "cancelled", "skipped"}
Failing  == {"failed", "cancelled"}
Started  == {"announce", "announced", "run", "complete"}
Reported ==
    pc \in Started => \A t \in Task :
        /\ stage[t] = "todo" => result[t] = "none"
        /\ stage[t] \in {"running", "report"} => result[t] = "running"
        /\ stage[t] \in {"report", "count", "done"} => out[t] \in Outcomes
        /\ stage[t] = "count" => result[t] = out[t]
        /\ stage[t] = "done" => result[t] \in {out[t], "none"}
        /\ pc = "complete" => stage[t] \in {"todo", "done"}

(* The counters begin at zero, in the row and in the copy that overwrites   *)
(* it, and then count the tasks whose goroutine is through.                 *)
Through(S) == {t \in Task : stage[t] = "done" /\ result[t] \in S}
Counters ==
    /\ pc \in {"clone", "cloning", "fail", "plan"} =>
         /\ row.completed = 0 /\ row.failed = 0
         /\ snap.completed = 0 /\ snap.failed = 0 /\ snap.status = "pending"
    /\ pc \in Started =>
         /\ row.completed = Cardinality(Through(Outcomes))
         /\ row.failed = Cardinality(Through(Failing))
         /\ row.total = Cardinality(Task)

(* What an attempt leaves behind when it does not crash.                    *)
Accurate ==
    /\ row.status \in {"success", "failed"}
    /\ row.completed = Counted(Outcomes) /\ row.failed = Counted(Failing)
    /\ row.status = "success" => row.failed = 0 /\ row.total = Cardinality(Task)
    /\ \A t \in DOMAIN result : result[t] # "running"
Left ==
    /\ pc = "complete" => verdict = "nil"
    /\ pc \in {"notify", "notified", "clear", "return"} =>
         \/ verdict = "nil" /\ Accurate
         \/ verdict = "err" /\ (row.status = "failed" \/ faults # 0)
    /\ job = "acked" => Accurate
    /\ job = "archived" /\ faults = 0 => row.status = "failed"

Settling == Undisturbed => Untouched /\ Reported /\ Counters /\ Left

LEMMA SettlingInit == Init => Settling
  BY DEF Init, Settling, Untouched, Reported, Counters, Left, Started

(* Whoever has disturbed a run has done so for good.                        *)
LEMMA Disturbed == TypeOK /\ [Next]_vars /\ Undisturbed' => Undisturbed
<1> SUFFICES ASSUME TypeOK, [Next]_vars, Undisturbed' PROVE Undisturbed
  OBVIOUS
<1>1. ~stopped
  <2>1. (stopped => stopped')
    BY DEF TypeOK, Next, Prepare, Finish, TaskStep, Cancel, TriggerRun, SaveSnapshot,
       PropagateCancel, Crash, ShutDown, Deliver, Refuse, WatchExists, WatchSubscribe,
       CheckContext, DeleteTaskResults, ResetRun, NoRepository, NoWorkDir, StartClone, CloneEnds,
       FailAndRetry, NoTargets, StartRun, Announce, Announced, StartTask, SkipTask, EndTask,
       ReportTask, CountTask, RunEnds, RunFails, CompleteRun, NotifyEnd, Notified, MarkRead,
       MarkUpdate, MarkTasks, MarkNotify, MarkNotified, Clear, Return, CancelRead, CancelUpdate,
       CancelTasks, SignalSet, SignalPublish
  <2> QED
    BY <2>1 DEF Undisturbed
<1>2. ~Requested
  <2>1. ASSUME NEW c \in Request, apc[c] # "idle" PROVE apc'[c] # "idle"
    BY <2>1 DEF TypeOK, Next, Prepare, Finish, TaskStep, Cancel, TriggerRun, SaveSnapshot,
       PropagateCancel, Crash, ShutDown, Deliver, Refuse, WatchExists, WatchSubscribe,
       CheckContext, DeleteTaskResults, ResetRun, NoRepository, NoWorkDir, StartClone, CloneEnds,
       FailAndRetry, NoTargets, StartRun, Announce, Announced, StartTask, SkipTask, EndTask,
       ReportTask, CountTask, RunEnds, RunFails, CompleteRun, NotifyEnd, Notified, MarkRead,
       MarkUpdate, MarkTasks, MarkNotify, MarkNotified, Clear, Return, CancelRead, CancelUpdate,
       CancelTasks, SignalSet, SignalPublish
  <2> QED
    BY <2>1 DEF Undisturbed, Requested
<1> QED
  BY <1>1, <1>2 DEF Undisturbed

(* A set of tasks that are through is finite, and one more is one more.     *)
LEMMA ThroughFinite ==
    ASSUME NEW S
    PROVE  IsFiniteSet(Through(S)) /\ Cardinality(Through(S)) \in Nat
  BY ServerRunAssumption, FS_Subset, FS_CardinalityType DEF Through

LEMMA SettlingStep == IInv /\ Settling /\ [Next]_vars => Settling'
<1> SUFFICES ASSUME IInv, Settling, [Next]_vars, Undisturbed'
             PROVE  (Untouched /\ Reported /\ Counters /\ Left)'
  BY DEF Settling
<1> DEFINE Goal == Untouched' /\ Reported' /\ Counters' /\ Left'
<1>0. Untouched /\ Reported /\ Counters /\ Left /\ Undisturbed
  BY Disturbed DEF Settling, IInv, TypeInv
<1> SUFFICES Goal
  OBVIOUS
(* The rows of the tasks when the attempt has not come to them.             *)
<1>a. ctx = "live" /\ pc \in {"clone", "plan"} =>
          /\ \A t \in Task : result[t] = "none" /\ stage[t] = "todo"
          /\ \A t \in DOMAIN result : result[t] # "running"
          /\ Counted(Outcomes) = 0 /\ Counted(Failing) = 0
          /\ Through(Outcomes) = {} /\ Through(Failing) = {}
  <2> SUFFICES ASSUME ctx = "live", pc \in {"clone", "plan"}
               PROVE  /\ \A t \in Task : result[t] = "none" /\ stage[t] = "todo"
                      /\ \A t \in DOMAIN result : result[t] # "running"
                      /\ Counted(Outcomes) = 0 /\ Counted(Failing) = 0
                      /\ Through(Outcomes) = {} /\ Through(Failing) = {}
    OBVIOUS
  <2>1. \A t \in Task : result[t] = "none" /\ stage[t] = "todo"
    BY DEF IInv, TasksFollowed, Before
  <2>2. result[Clone] \in {"none", "success"} /\ DOMAIN result = Task \cup {Clone}
    BY DEF IInv, TasksFollowed, TypeInv, TypeOK
  <2>3. /\ {t \in Task : result[t] \in Outcomes} = {}
        /\ {t \in Task : result[t] \in Failing} = {}
        /\ Through(Outcomes) = {} /\ Through(Failing) = {}
    BY <2>1 DEF Outcomes, Failing, Through
  <2> QED
    BY <2>1, <2>2, <2>3, FS_EmptySet DEF Counted
<1>1. CASE TriggerRun
  <2>1. job' # "acked" /\ job' # "archived" /\ pc = "idle" /\ pc' = pc
    BY <1>1 DEF TriggerRun, IInv, TypeInv, TypeOK, Triggered
  <2> QED
    BY <1>0, <1>1, <2>1 DEF TriggerRun, Untouched, Reported, Counters, Left, Started
<1>2. CASE SaveSnapshot
  <2>1. job = "active" /\ pc = "plan" /\ pc' = pc /\ job' = job /\ row' = snap
    BY <1>0, <1>2 DEF SaveSnapshot, IInv, TypeInv, TypeOK, Untouched
  <2> QED
    BY <1>0, <1>2, <2>1 DEF SaveSnapshot, Untouched, Reported, Counters, Left, Started
<1>3. CASE PropagateCancel
  BY <1>0, <1>3 DEF PropagateCancel, Untouched
<1>4. CASE Crash
  <2>1. pc' = "idle" /\ job' \in {"queued", "archived"} /\ faults' # 0
        /\ UNCHANGED <<row, result, key>> /\ watch' = "off" /\ ctx' = "live"
    BY <1>4 DEF Crash, Forget, IInv, TypeInv, TypeOK
  <2> QED
    BY <1>0, <2>1 DEF Untouched, Reported, Counters, Left, Started
<1>5. CASE ShutDown
  BY <1>5 DEF ShutDown, Undisturbed
<1>6. CASE Deliver
  <2>1. pc' = "exists" /\ job' = "active" /\ UNCHANGED <<row, result, key, watch, ctx>>
    BY <1>0, <1>6 DEF Deliver, Begin, Untouched
  <2> QED
    BY <1>0, <2>1 DEF Untouched, Reported, Counters, Left, Started
<1>6a. CASE Refuse
  <2>1. /\ pc = "idle" /\ job' \in {"queued", "archived"} /\ faults' # 0
        /\ UNCHANGED <<row, result, key, pc, latest, watch, ctx>>
    BY <1>6a DEF Refuse, IInv, TypeInv, TypeOK
  <2> QED
    BY <1>0, <2>1 DEF Untouched, Reported, Counters, Left, Started
<1>7. CASE WatchExists \/ WatchSubscribe \/ CheckContext \/ DeleteTaskResults
  <2>1. /\ pc \in {"exists", "subscribe", "check", "delete"}
        /\ pc' \in {"subscribe", "check", "delete", "reset"}
        /\ job = "active" /\ UNCHANGED <<row, key, job, ctx>> /\ watch' # "closed"
    BY <1>0, <1>7 DEF WatchExists, WatchSubscribe, CheckContext, DeleteTaskResults,
       Untouched, IInv, TypeInv, TypeOK
  <2> QED
    BY <1>0, <2>1 DEF Untouched, Reported, Counters, Left, Started
<1>11. CASE ResetRun
  <2>1. pc' = "clone" /\ job = "active" /\ UNCHANGED <<key, job, ctx, watch>>
        /\ row' = snap'
    BY <1>0, <1>11 DEF ResetRun, Untouched, IInv, TypeInv, TypeOK
  <2>2. snap'.status = "pending" /\ snap'.completed = 0 /\ snap'.failed = 0
    BY <1>11 DEF ResetRun, IInv, TypeInv, TypeOK, RowType
  <2> QED
    BY <1>0, <2>1, <2>2 DEF Untouched, Reported, Counters, Left, Started
<1>12. CASE NoRepository \/ NoTargets
  <2>1. /\ pc \in {"clone", "plan"} /\ pc' = "clear" /\ verdict' = "nil" /\ job = "active"
        /\ row' = [row EXCEPT !.status = "failed"]
        /\ UNCHANGED <<result, key, job, ctx, watch>>
    BY <1>0, <1>12 DEF NoRepository, NoTargets, Untouched, IInv, TypeInv, TypeOK
  <2>2. row'.status = "failed" /\ row'.completed = row.completed /\ row'.failed = row.failed
    BY <2>1 DEF IInv, TypeInv, TypeOK, RowType
  <2>3. /\ Counted(Outcomes)' = 0 /\ Counted(Failing)' = 0
        /\ \A t \in DOMAIN result' : result'[t] # "running"
    BY <1>0, <1>a, <2>1 DEF Counted, Untouched
  <2>4. row.completed = 0 /\ row.failed = 0
    BY <1>0, <2>1 DEF Counters, Started
  <2>5. Accurate'
    BY <2>2, <2>3, <2>4 DEF Accurate
  <2> QED
    BY <1>0, <2>1, <2>2, <2>5 DEF Untouched, Reported, Counters, Left, Started
<1>12a. CASE NoWorkDir
  <2>1. /\ pc' = "clear" /\ verdict' = "err" /\ faults' # 0 /\ job = "active"
        /\ UNCHANGED <<row, result, key, job, ctx, watch>>
    BY <1>0, <1>12a DEF NoWorkDir, IInv, TypeInv, TypeOK
  <2> QED
    BY <1>0, <2>1 DEF Untouched, Reported, Counters, Left, Started
<1>13. CASE StartClone \/ \E s \in {"success", "failed"} : CloneEnds(s)
  <2>1. /\ pc \in {"clone", "cloning"} /\ pc' \in {"cloning", "plan", "fail"}
        /\ job = "active" /\ UNCHANGED <<row, snap, key, job, ctx, watch>>
    BY <1>0, <1>13 DEF StartClone, CloneEnds, IInv, TypeInv, TypeOK
  <2> QED
    BY <1>0, <2>1 DEF Untouched, Reported, Counters, Left, Started
<1>14. CASE FailAndRetry
  <2>1. /\ pc' = "clear" /\ verdict' = "err" /\ job = "active"
        /\ row' = [row EXCEPT !.status = "failed"]
        /\ UNCHANGED <<key, job, ctx, watch>>
    BY <1>0, <1>14 DEF FailAndRetry, Untouched, IInv, TypeInv, TypeOK
  <2>2. row'.status = "failed"
    BY <2>1 DEF IInv, TypeInv, TypeOK, RowType
  <2> QED
    BY <1>0, <2>1, <2>2 DEF Untouched, Reported, Counters, Left, Started
<1>16. CASE StartRun
  <2>1. /\ pc = "plan" /\ pc' \in {"announce", "run"} /\ job = "active"
        /\ row' = [row EXCEPT !.status = "running", !.total = Cardinality(Task)]
        /\ UNCHANGED <<result, stage, out, key, job, ctx, watch>>
    BY <1>0, <1>16 DEF StartRun, Untouched, IInv, TypeInv, TypeOK
  <2>2. /\ row'.status = "running" /\ row'.total = Cardinality(Task)
        /\ row'.completed = 0 /\ row'.failed = 0
    <3>1. row.completed = 0 /\ row.failed = 0
      BY <1>0, <2>1 DEF Counters, Started
    <3> QED
      BY <2>1, <3>1 DEF IInv, TypeInv, TypeOK, RowType
  <2>3. \A t \in Task : result'[t] = "none" /\ stage'[t] = "todo"
    BY <1>0, <1>a, <2>1 DEF Untouched
  <2>4. Through(Outcomes)' = {} /\ Through(Failing)' = {}
    BY <2>3 DEF Through
  <2>5. Counters'
    BY <2>1, <2>2, <2>4, FS_EmptySet DEF Counters, Started
  <2> QED
    BY <1>0, <2>1, <2>2, <2>3, <2>5 DEF Untouched, Reported, Left, Started
<1>17. CASE Announce \/ Announced
  <2>1. /\ pc \in {"announce", "announced"} /\ pc' \in {"announced", "run"}
        /\ job = "active" /\ UNCHANGED <<result, stage, out, key, job, ctx, watch>>
    BY <1>0, <1>17 DEF Announce, Announced, Untouched, IInv, TypeInv, TypeOK
  <2>2. /\ row'.status = row.status /\ row'.completed = row.completed
        /\ row'.failed = row.failed /\ row'.total = row.total
        /\ pc' = "announced" => latest' = row'
    BY <1>0, <1>17 DEF Announce, Announced, Untouched, IInv, TypeInv, TypeOK, RowType
  <2>3. Through(Outcomes)' = Through(Outcomes) /\ Through(Failing)' = Through(Failing)
    BY <2>1 DEF Through
  <2> QED
    BY <1>0, <2>1, <2>2, <2>3 DEF Untouched, Reported, Counters, Left, Started
<1>21. CASE NotifyEnd \/ Notified
  <2>1. /\ pc \in {"notify", "notified"} /\ pc' \in {"notified", "clear"}
        /\ job = "active"
        /\ UNCHANGED <<result, key, job, ctx, watch, verdict, faults>>
    BY <1>0, <1>21 DEF NotifyEnd, Notified, Untouched, IInv, TypeInv, TypeOK
  <2>2. /\ row'.status = row.status /\ row'.completed = row.completed
        /\ row'.failed = row.failed /\ row'.total = row.total
        /\ pc' = "notified" => latest' = row'
    BY <1>0, <1>21 DEF NotifyEnd, Notified, Untouched, IInv, TypeInv, TypeOK, RowType
  <2>3. Accurate => Accurate'
    BY <2>1, <2>2 DEF Accurate, Counted
  <2> QED
    BY <1>0, <2>1, <2>2, <2>3 DEF Untouched, Reported, Counters, Left, Started
<1>22. CASE MarkRead \/ MarkUpdate \/ MarkTasks \/ MarkNotify \/ MarkNotified
  BY <1>0, <1>22 DEF MarkRead, MarkUpdate, MarkTasks, MarkNotify, MarkNotified, Untouched
<1>18. CASE RunEnds
  <2>1. /\ pc = "run" /\ pc' = "complete" /\ verdict' = "nil" /\ job = "active"
        /\ UNCHANGED <<row, result, stage, out, key, job, ctx, watch>>
        /\ \A t \in Task : stage[t] \in {"todo", "done"}
    BY <1>0, <1>18 DEF RunEnds, Untouched, IInv, TypeInv, TypeOK
  <2> QED
    BY <1>0, <2>1 DEF Untouched, Reported, Counters, Left, Through, Started
<1>19. CASE RunFails
  <2>1. /\ pc' \in {"notify", "clear"} /\ verdict' = "err" /\ job = "active"
        /\ row' = [row EXCEPT !.status = "failed"]
        /\ UNCHANGED <<key, job, ctx, watch>>
    BY <1>0, <1>19 DEF RunFails, Untouched, IInv, TypeInv, TypeOK
  <2>2. row'.status = "failed"
    BY <2>1 DEF IInv, TypeInv, TypeOK, RowType
  <2> QED
    BY <1>0, <2>1, <2>2 DEF Untouched, Reported, Counters, Left, Started
<1>20. CASE CompleteRun
  <2>1. /\ pc = "complete" /\ pc' \in {"notify", "clear"} /\ verdict' = verdict /\ job = "active"
        /\ row' = [row EXCEPT !.status = IF Failed = {} THEN "success" ELSE "failed"]
        /\ UNCHANGED <<result, stage, out, key, job, ctx, watch>>
    BY <1>0, <1>20 DEF CompleteRun, Untouched, IInv, TypeInv, TypeOK
  <2>2. /\ row'.status = IF Failed = {} THEN "success" ELSE "failed"
        /\ row'.completed = row.completed /\ row'.failed = row.failed
        /\ row'.total = row.total
    BY <2>1 DEF IInv, TypeInv, TypeOK, RowType
  <2>3. \A t \in Task :
            /\ result[t] # "running"
            /\ result[t] \in Outcomes => stage[t] = "done" /\ result[t] = out[t]
    BY <1>0, <2>1 DEF Reported, Outcomes, Started
  <2>4. /\ Through(Outcomes) = {t \in Task : result[t] \in Outcomes}
        /\ Through(Failing) = {t \in Task : result[t] \in Failing}
    BY <2>3 DEF Through, Outcomes, Failing
  <2>5. row.completed = Counted(Outcomes) /\ row.failed = Counted(Failing)
        /\ row.total = Cardinality(Task)
    BY <1>0, <2>1, <2>4 DEF Counters, Counted, Started
  <2>6. Failed = {} => row.failed = 0
    <3> SUFFICES ASSUME Failed = {} PROVE row.failed = 0
      OBVIOUS
    <3>1. {t \in Task : result[t] \in Failing} = {}
      BY <2>3 DEF Failed, Outcomes, Failing
    <3> QED
      BY <2>5, <3>1, FS_EmptySet DEF Counted
  <2>7. \A t \in DOMAIN result : result[t] # "running"
    BY <1>0, <2>1, <2>3 DEF Untouched, IInv, TasksFollowed, TypeInv, TypeOK
  <2>8. /\ Counted(Outcomes)' = Counted(Outcomes)
        /\ Counted(Failing)' = Counted(Failing)
        /\ \A t \in DOMAIN result' : result'[t] # "running"
    BY <2>1, <2>7 DEF Counted
  <2>9. Accurate'
    BY <2>2, <2>5, <2>6, <2>8 DEF Accurate
  <2> QED
    BY <1>0, <2>1, <2>2, <2>9 DEF Untouched, Reported, Counters, Left, Started
<1>26. CASE Clear
  <2>1. /\ pc = "clear" /\ pc' = "return" /\ key' = FALSE /\ job = "active"
        /\ UNCHANGED <<row, result, verdict, job, ctx, watch, faults>>
    BY <1>26 DEF Clear, IInv, TypeInv, TypeOK
  <2>2. Accurate => Accurate'
    BY <2>1 DEF Accurate, Counted
  <2> QED
    BY <1>0, <2>1, <2>2 DEF Untouched, Reported, Counters, Left, Started
<1>27. CASE Return
  <2>1. /\ pc = "return" /\ pc' = "idle"
        /\ IF verdict = "nil" THEN job' = "acked" ELSE job' \in {"queued", "archived"}
        /\ UNCHANGED <<row, result, key, faults>> /\ watch' = "off" /\ ctx' = "live"
    BY <1>27 DEF Return, Forget
  <2>2. Accurate => Accurate'
    BY <2>1 DEF Accurate, Counted
  <2> QED
    BY <1>0, <2>1, <2>2 DEF Untouched, Reported, Counters, Left, Started
<1>29. ASSUME NEW t \in Task,
              StartTask(t) \/ SkipTask(t) \/ EndTask(t) \/ ReportTask(t)
       PROVE  Goal
  <2>1. /\ pc = "run" /\ pc' = pc /\ job = "active" /\ stage[t] \notin {"count", "done"}
        /\ UNCHANGED <<row, key, job, ctx, watch, verdict, faults, snap>>
    BY <1>29 DEF StartTask, SkipTask, EndTask, ReportTask, IInv, TypeInv, TypeOK
  <2>2. /\ \A u \in Task : u # t => stage'[u] = stage[u] /\ result'[u] = result[u]
                                    /\ out'[u] = out[u]
        /\ \/ /\ stage[t] = "todo" /\ stage'[t] = "running" /\ result'[t] = "running"
           \/ /\ stage[t] = "todo" /\ stage'[t] = "done" /\ result'[t] = "none"
              /\ out'[t] = "skipped"
           \/ /\ stage[t] = "running" /\ stage'[t] = "report" /\ result'[t] = "running"
              /\ out'[t] \in Outcomes
           \/ /\ stage[t] = "report" /\ stage'[t] = "count" /\ result'[t] = out[t]
              /\ out'[t] = out[t]
    BY <1>0, <1>29, <2>1 DEF StartTask, SkipTask, EndTask, ReportTask, Reported, Outcomes,
       Started, Untouched, IInv, TypeInv, TypeOK
  <2>3. Reported'
    <3> SUFFICES ASSUME NEW u \in Task
                 PROVE  /\ stage'[u] = "todo" => result'[u] = "none"
                        /\ stage'[u] \in {"running", "report"} => result'[u] = "running"
                        /\ stage'[u] \in {"report", "count", "done"} => out'[u] \in Outcomes
                        /\ stage'[u] = "count" => result'[u] = out'[u]
                        /\ stage'[u] = "done" => result'[u] \in {out'[u], "none"}
      BY <2>1 DEF Reported, Started
    <3>1. CASE u = t
      <4>1. stage[t] = "report" => out[t] \in Outcomes
        BY <1>0, <2>1 DEF Reported, Started
      <4> QED
        BY ONLY <2>2, <3>1, <4>1 DEF Outcomes
    <3>2. CASE u # t
      BY <1>0, <2>1, <2>2, <3>2 DEF Reported, Started
    <3> QED
      BY <3>1, <3>2
  <2>4. Through(Outcomes)' = Through(Outcomes) /\ Through(Failing)' = Through(Failing)
    BY <1>0, <2>1, <2>2 DEF Through, Outcomes, Failing
  <2>5. Counters'
    BY <1>0, <2>1, <2>4 DEF Counters, Started
  <2> QED
    BY <1>0, <2>1, <2>3, <2>5 DEF Untouched, Left, Started
<1>33. ASSUME NEW t \in Task, CountTask(t) PROVE Goal
  <2>1. /\ pc = "run" /\ pc' = pc /\ job = "active" /\ stage[t] = "count"
        /\ stage' = [stage EXCEPT ![t] = "done"]
        /\ UNCHANGED <<result, out, key, job, ctx, watch, verdict, faults, snap>>
    BY <1>33 DEF CountTask, IInv, TypeInv, TypeOK
  <2>2. result[t] = out[t] /\ out[t] \in Outcomes
    BY <1>0, <2>1 DEF Reported, Started
  <2>3. Reported'
    BY <1>0, <2>1, <2>2 DEF Reported, IInv, TypeInv, TypeOK
  <2>4. t \in Failed <=> out[t] \in Failing
    BY <2>2 DEF Failed, Outcomes, Failing
  <2>5. /\ row'.completed = row.completed + 1
        /\ row'.failed = IF out[t] \in Failing THEN row.failed + 1 ELSE row.failed
        /\ row'.total = row.total /\ row'.status = row.status
    BY <1>0, <1>33, <2>4 DEF CountTask, Untouched, IInv, TypeInv, TypeOK, RowType
  <2>6. ASSUME NEW S
        PROVE  /\ result[t] \in S => Cardinality(Through(S)') = Cardinality(Through(S)) + 1
               /\ result[t] \notin S => Through(S)' = Through(S)
    <3>1. t \notin Through(S)
      BY <2>1 DEF Through
    <3>2. stage'[t] = "done" /\ \A u \in Task : u # t => stage'[u] = stage[u]
      BY <2>1 DEF IInv, TypeInv, TypeOK
    <3>3. ASSUME result[t] \in S
          PROVE  Cardinality(Through(S)') = Cardinality(Through(S)) + 1
      <4>1. Through(S)' = Through(S) \cup {t}
        BY <2>1, <3>2, <3>3 DEF Through
      <4>2. Cardinality(Through(S) \cup {t}) = Cardinality(Through(S)) + 1
        BY <3>1, ThroughFinite, FS_AddElement
      <4> QED
        BY ONLY <4>1, <4>2
    <3>4. ASSUME result[t] \notin S PROVE Through(S)' = Through(S)
      BY <2>1, <3>2, <3>4 DEF Through
    <3> QED
      BY ONLY <3>3, <3>4
  <2>7. /\ Cardinality(Through(Outcomes)') = Cardinality(Through(Outcomes)) + 1
        /\ Cardinality(Through(Failing)') =
             IF out[t] \in Failing THEN Cardinality(Through(Failing)) + 1
                                  ELSE Cardinality(Through(Failing))
    BY ONLY <2>2, <2>6
  <2>8. Counters'
    BY <1>0, <2>1, <2>5, <2>7 DEF Counters, Started
  <2> QED
    BY <1>0, <2>1, <2>3, <2>5, <2>8 DEF Untouched, Left, Started
<1>34. ASSUME NEW c \in Request, Cancel(c) PROVE FALSE
  <2>1. apc'[c] # "idle"
    BY <1>34 DEF Cancel, CancelRead, CancelUpdate, CancelTasks, SignalSet, SignalPublish,
       IInv, TypeInv, TypeOK
  <2> QED
    BY <2>1 DEF Undisturbed, Requested
<1>39. CASE UNCHANGED vars
  BY <1>0, <1>39 DEF Untouched, Reported, Counters, Left, Started, Accurate, Counted, Through
<1> QED
  BY <1>1, <1>2, <1>3, <1>4, <1>5, <1>6, <1>6a, <1>7, <1>11, <1>12, <1>12a, <1>13,
     <1>14, <1>16, <1>17, <1>18, <1>19, <1>20, <1>21, <1>22, <1>26, <1>27, <1>29, <1>33, <1>34, <1>39
     DEF Next, Prepare, Finish, TaskStep

(* A run that nobody cancelled, whose job is done, has ended with counters  *)
(* that agree with the rows of its tasks, however many attempts crashed on  *)
(* the way: each begins by deleting those rows and resetting the counters   *)
(* (execute_run.go 349-365), and counts a task once its row is written.     *)
THEOREM SettledAccurate == Spec => []SettledRunIsAccurate
<1>1. Init => IInv /\ Settling
  BY TypeInit, EarnedInit, SettlingInit DEF IInv
<1>2. IInv /\ Settling /\ [Next]_vars => IInv' /\ Settling'
  BY TypeStep, RowStep, TasksStep, SettlingStep DEF IInv
<1>3. Settling => SettledRunIsAccurate
  BY DEF Settling, Left, Accurate, Outcomes, Failing, SettledRunIsAccurate
<1> QED
  BY <1>1, <1>2, <1>3, PTL DEF Spec
================================================================================
