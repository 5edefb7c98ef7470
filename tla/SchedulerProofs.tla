---------------------------- MODULE SchedulerProofs ----------------------------
(***************************************************************************)
(* Theorems about Scheduler for every workflow, plan and set of options:   *)
(* type correctness, no task runs before or against its dependencies, a    *)
(* failure is contained, the slots are respected, what Run reports is      *)
(* right, Scheduler implements DagRun, and nobody is stuck on the way.     *)
(***************************************************************************)
EXTENDS Scheduler, FiniteSetTheorems, TLAPS

InChannel(t) == \E i \in 1 .. Len(channel) : channel[i] = t

(* Outside of a level no goroutine runs and no result is under way.         *)
PhaseInv ==
    /\ main # "collecting" =>
           channel = <<>> /\ \A t \in Task : pc[t] \in {"idle", "done"}
    /\ main = "collecting" => level >= 1

(* The goroutines are those of the levels started; of all levels but the    *)
(* last one every result is recorded.                                       *)
LevelInv ==
    /\ \A t \in Task : pc[t] # "idle" => \E i \in 1 .. level : t \in plan[i]
    /\ \A i \in 1 .. level : \A t \in plan[i] : pc[t] # "idle"
    /\ \A i \in 1 .. (level - 1) : \A t \in plan[i] :
           pc[t] = "done" /\ recorded[t] \in Outcome

(* A result is produced once, travels through the channel and is recorded   *)
(* as it was produced; only a cancelled run has goroutines without one.     *)
ResultInv ==
    \A t \in Task :
        /\ pc[t] \in {"settled", "sent"} => outcome[t] # "none"
        /\ outcome[t] # "none" => pc[t] \in {"settled", "sent", "done"}
        /\ pc[t] = "done" /\ outcome[t] = "none" => Cancelled
        /\ recorded[t] # "none" => recorded[t] = outcome[t]
        /\ pc[t] \in {"sent", "done"} /\ outcome[t] # "none" =>
               InChannel(t) \/ recorded[t] = outcome[t]
        /\ InChannel(t) => outcome[t] # "none"

(* A task that was let past its dependencies found all of them recorded and *)
(* none of them blocking.                                                   *)
NeedsInv ==
    \A t \in Task :
        pc[t] \in {"started", "executing"} \/ outcome[t] \notin {"none", "skipped"} =>
            \A d \in Needs[t] : recorded[d] \in Outcome /\ ~Blocks(recorded[d])

(* The semaphore counts the goroutines that hold a slot.                    *)
SlotInv ==
    /\ IsFiniteSet(HasSlot)
    /\ sem = Cardinality(HasSlot)
    /\ sem <= opts.parallelism

(* The types of everything but the semaphore, whose bound needs SlotInv.    *)
TypeInv ==
    /\ plan \in Plans
    /\ opts \in Options
    /\ main \in {"starting", "between", "collecting", "ending", "returned",
                 "error", "exited"}
    /\ level \in 0 .. Len(plan)
    /\ pc \in [Task -> {"idle", "acquiring", "checking", "started", "executing",
                        "settled", "sent", "done"}]
    /\ outcome \in [Task -> Outcome \cup {"none"}]
    /\ channel \in Seq(Task)
    /\ recorded \in [Task -> Outcome \cup {"none"}]
    /\ cacheHits \in Nat
    /\ failures \in Nat
    /\ cancelledBy \in {"nobody", "caller", "failure"}
    /\ started \in SUBSET Task
    /\ completed \in SUBSET Task
    /\ store \in SUBSET Task
    /\ saving \in SUBSET Task
    /\ hook \in {"none", "success", "failure"}

IInv == TypeInv /\ PhaseInv /\ LevelInv /\ ResultInv /\ NeedsInv /\ SlotInv

USE DEF conf, summary, calls, cacheSt

--------------------------------------------------------------------------------
(* Sequences of tasks, as the channel uses them.                            *)
LEMMA AppendMembers ==
    ASSUME NEW s \in Seq(Task), NEW t \in Task, NEW u
    PROVE  /\ Append(s, t) \in Seq(Task)
           /\ (\E i \in 1 .. Len(Append(s, t)) : Append(s, t)[i] = u)
                  <=> (u = t \/ \E i \in 1 .. Len(s) : s[i] = u)
<1>1. /\ Append(s, t) \in Seq(Task)
      /\ Len(Append(s, t)) = Len(s) + 1
      /\ \A i \in 1 .. Len(s) : Append(s, t)[i] = s[i]
      /\ Append(s, t)[Len(s) + 1] = t
      /\ Len(s) \in Nat
  OBVIOUS
<1> QED BY <1>1

LEMMA TailMembers ==
    ASSUME NEW s \in Seq(Task), s # <<>>, NEW u
    PROVE  /\ Head(s) \in Task
           /\ Tail(s) \in Seq(Task)
           /\ (\E i \in 1 .. Len(s) : s[i] = u)
                  <=> (u = Head(s) \/ \E i \in 1 .. Len(Tail(s)) : Tail(s)[i] = u)
<1>1. /\ Len(s) \in Nat \ {0}
      /\ Head(s) = s[1]
      /\ s[1] \in Task
      /\ Tail(s) \in Seq(Task)
      /\ Len(Tail(s)) = Len(s) - 1
      /\ \A i \in 1 .. (Len(s) - 1) : Tail(s)[i] = s[i + 1]
  OBVIOUS
<1>2. ASSUME NEW i \in 1 .. Len(s), s[i] = u, u # Head(s)
      PROVE  \E j \in 1 .. Len(Tail(s)) : Tail(s)[j] = u
  <2>1. i - 1 \in 1 .. (Len(s) - 1) BY <1>1, <1>2
  <2> QED BY <2>1, <1>1, <1>2
<1>3. ASSUME NEW j \in 1 .. Len(Tail(s)), Tail(s)[j] = u
      PROVE  \E i \in 1 .. Len(s) : s[i] = u
  <2>1. j + 1 \in 1 .. Len(s) BY <1>1
  <2> QED BY <2>1, <1>1, <1>3
<1> QED BY <1>1, <1>2, <1>3

--------------------------------------------------------------------------------
LEMMA TypeInit == Init => TypeInv
  BY OptionsAssumption, PlansAssumption DEF Init, TypeInv

LEMMA TypeStep == TypeInv /\ [Next]_vars => TypeInv'
<1> SUFFICES ASSUME TypeInv, [Next]_vars PROVE TypeInv'
  OBVIOUS
<1>1. plan \in Seq(SUBSET Task) /\ Len(plan) \in Nat
  BY PlansAssumption DEF TypeInv
<1>2. CASE BeginRun BY <1>2 DEF BeginRun, TypeInv
<1>3. CASE StartLevel BY <1>3, <1>1 DEF StartLevel, TypeInv
<1>4. CASE Collect
  <2>1. Head(channel) \in Task /\ Tail(channel) \in Seq(Task)
    BY <1>4, TailMembers DEF Collect, TypeInv
  <2> QED BY <1>4, <2>1 DEF Collect, TypeInv
<1>5. CASE CloseLevel BY <1>5 DEF CloseLevel, TypeInv
<1>6. CASE EndLevels BY <1>6 DEF EndLevels, TypeInv
<1>7. CASE DispatchEndHook BY <1>7 DEF DispatchEndHook, TypeInv
<1>8. CASE WaitCacheSaves BY <1>8 DEF WaitCacheSaves, TypeInv
<1>9. ASSUME NEW t \in Task, TaskStep(t) PROVE TypeInv'
  <2>1. CASE Acquire(t) BY <2>1 DEF Acquire, TypeInv
  <2>2. CASE Abandon(t) BY <2>2 DEF Abandon, TypeInv
  <2>3. CASE SkipOnNeed(t) BY <2>3 DEF SkipOnNeed, TypeInv, Outcome
  <2>4. CASE SkipOnCondition(t) BY <2>4 DEF SkipOnCondition, TypeInv, Outcome
  <2>5. CASE Start(t) BY <2>5 DEF Start, TypeInv
  <2>6. CASE RestoreFromCache(t) BY <2>6 DEF RestoreFromCache, TypeInv, Outcome
  <2>7. CASE MissCache(t) BY <2>7 DEF MissCache, TypeInv
  <2>8. CASE Execute(t)
    <3>1. PICK o \in ExecutionOutcomes(t) :
              /\ outcome' = [outcome EXCEPT ![t] = o]
              /\ saving' = IF SavesTo(t, o) THEN saving \cup {t} ELSE saving
      BY <2>8 DEF Execute
    <3>2. o \in Outcome
      BY DEF ExecutionOutcomes
    <3> QED BY <2>8, <3>1, <3>2 DEF Execute, TypeInv
  <2>9. CASE Send(t) BY <2>9, AppendMembers DEF Send, TypeInv
  <2>10. CASE Leave(t) BY <2>10 DEF Leave, TypeInv
  <2> QED BY <1>9, <2>1, <2>2, <2>3, <2>4, <2>5, <2>6, <2>7, <2>8, <2>9, <2>10
          DEF TaskStep
<1>10. ASSUME NEW t \in Task, FinishSave(t) PROVE TypeInv'
  BY <1>10 DEF FinishSave, TypeInv
<1>11. CASE CancelByCaller BY <1>11 DEF CancelByCaller, TypeInv
<1>12. CASE UNCHANGED vars BY <1>12 DEF vars, TypeInv
<1> QED BY <1>2, <1>3, <1>4, <1>5, <1>6, <1>7, <1>8, <1>9, <1>10, <1>11, <1>12
        DEF Next, MainStep

--------------------------------------------------------------------------------
LEMMA PlanShape ==
    ASSUME TypeInv
    PROVE  /\ plan \in Seq(SUBSET Task)
           /\ Len(plan) \in Nat
           /\ DOMAIN plan = 1 .. Len(plan)
           /\ \A i \in 1 .. Len(plan) : plan[i] \subseteq Task
           /\ \A i, j \in 1 .. Len(plan) : i # j => plan[i] \cap plan[j] = {}
           /\ \A i \in 1 .. Len(plan) : \A t \in plan[i] : \A d \in Needs[t] :
                  \E j \in 1 .. (i - 1) : d \in plan[j]
<1>1. plan \in Seq(SUBSET Task) /\ DOMAIN plan = 1 .. Len(plan) /\ Len(plan) \in Nat
  BY PlansAssumption DEF TypeInv
<1>2. \A i \in 1 .. Len(plan) : plan[i] \subseteq Task
  BY <1>1
<1> QED BY <1>1, <1>2, PlansAssumption DEF TypeInv

(* What a step of a goroutine leaves alone.                                 *)
LEMMA TaskStepFrame ==
    ASSUME NEW t \in Task, TaskStep(t), TypeInv
    PROVE  /\ UNCHANGED <<plan, opts, main, level, recorded, cacheHits, failures, hook>>
           /\ pc[t] \notin {"idle", "done"}
           /\ \A u \in Task \ {t} : pc'[u] = pc[u] /\ outcome'[u] = outcome[u]
           /\ pc'[t] # "idle"
  BY DEF TaskStep, TypeInv, Acquire, Abandon, SkipOnNeed, SkipOnCondition, Start,
         RestoreFromCache, MissCache, Execute, Send, Leave

LEMMA PhaseStep == IInv /\ [Next]_vars => PhaseInv'
<1> SUFFICES ASSUME IInv, [Next]_vars PROVE PhaseInv'
  OBVIOUS
<1> USE DEF IInv
<1>1. CASE BeginRun BY <1>1 DEF BeginRun, PhaseInv
<1>2. CASE StartLevel BY <1>2, PlanShape DEF StartLevel, PhaseInv, TypeInv
<1>3. CASE Collect BY <1>3 DEF Collect, PhaseInv
<1>4. CASE CloseLevel
  <2>1. \A t \in Task : pc[t] \in {"idle", "done"}
    <3> SUFFICES ASSUME NEW t \in Task, pc[t] # "idle" PROVE pc[t] = "done"
      OBVIOUS
    <3>1. PICK i \in 1 .. level : t \in plan[i]
      BY DEF LevelInv
    <3>2. CASE i = level BY <1>4, <3>1, <3>2 DEF CloseLevel
    <3>3. CASE i # level
      <4>1. i \in 1 .. (level - 1) BY <3>1, <3>3 DEF TypeInv
      <4> QED BY <4>1, <3>1 DEF LevelInv
    <3> QED BY <3>2, <3>3
  <2> QED BY <1>4, <2>1 DEF CloseLevel, PhaseInv
<1>5. CASE EndLevels BY <1>5 DEF EndLevels, PhaseInv
<1>6. CASE DispatchEndHook BY <1>6 DEF DispatchEndHook, PhaseInv
<1>7. CASE WaitCacheSaves BY <1>7 DEF WaitCacheSaves, PhaseInv
<1>8. ASSUME NEW t \in Task, TaskStep(t) PROVE PhaseInv'
  <2>1. main = "collecting" BY <1>8, TaskStepFrame DEF PhaseInv
  <2> QED BY <1>8, <2>1, TaskStepFrame DEF PhaseInv
<1>9. ASSUME NEW t \in Task, FinishSave(t) PROVE PhaseInv'
  BY <1>9 DEF FinishSave, PhaseInv
<1>10. CASE CancelByCaller BY <1>10 DEF CancelByCaller, PhaseInv
<1>11. CASE UNCHANGED vars BY <1>11 DEF vars, PhaseInv
<1> QED BY <1>1, <1>2, <1>3, <1>4, <1>5, <1>6, <1>7, <1>8, <1>9, <1>10, <1>11
        DEF Next, MainStep

(* A recorded result never changes.                                         *)
LEMMA RecordedStays ==
    ASSUME IInv, [Next]_vars, NEW t \in Task, recorded[t] # "none"
    PROVE  recorded'[t] = recorded[t]
<1>1. CASE Collect
  <2>1. Head(channel) \in Task BY <1>1, TailMembers DEF Collect, IInv, TypeInv
  <2> QED BY <1>1, <2>1 DEF Collect, IInv, TypeInv, ResultInv
<1>2. ASSUME NEW u \in Task, TaskStep(u) PROVE recorded' = recorded
  BY <1>2, TaskStepFrame DEF IInv
<1> QED BY <1>1, <1>2 DEF Next, MainStep, BeginRun, StartLevel, CloseLevel,
        EndLevels, DispatchEndHook, WaitCacheSaves, FinishSave, CancelByCaller, vars

LEMMA LevelStep == IInv /\ [Next]_vars => LevelInv'
<1> SUFFICES ASSUME IInv, [Next]_vars PROVE LevelInv'
  OBVIOUS
<1> USE DEF IInv
<1>s. /\ level \in Nat /\ level <= Len(plan) /\ Len(plan) \in Nat
      /\ \A i \in 1 .. level : plan[i] \subseteq Task
  BY PlanShape DEF TypeInv
<1>r. \A t \in Task : recorded[t] \in Outcome => recorded'[t] \in Outcome
  BY RecordedStays DEF Outcome
<1>u. ASSUME UNCHANGED <<plan, level, pc>> PROVE LevelInv'
  BY <1>u, <1>s, <1>r DEF LevelInv
<1>1. CASE StartLevel
  <2>1. /\ level' = level + 1 /\ plan' = plan /\ level + 1 \in 1 .. Len(plan)
        /\ recorded' = recorded
    BY <1>1, <1>s DEF StartLevel
  <2>2. ASSUME NEW i \in 1 .. level, NEW t \in plan[i]
        PROVE  pc[t] = "done" /\ recorded[t] \in Outcome
    <3>1. t \in Task /\ pc[t] = "done"
      BY <1>1, <1>s, <2>2 DEF StartLevel, LevelInv, PhaseInv
    <3>2. outcome[t] # "none"
      BY <1>1, <3>1 DEF StartLevel, ResultInv
    <3>3. ~InChannel(t)
      BY <1>1 DEF StartLevel, PhaseInv, InChannel
    <3> QED BY <3>1, <3>2, <3>3 DEF ResultInv, TypeInv
  <2>3. \A t \in Task : pc'[t] = IF t \in plan[level + 1] THEN "acquiring" ELSE pc[t]
    BY <1>1 DEF StartLevel
  <2>4. \A i \in 1 .. level : \A t \in plan[i] : t \in Task /\ t \notin plan[level + 1]
    BY <2>1, <1>s, PlanShape
  <2>5. \A t \in plan[level + 1] : t \in Task
    BY <2>1, PlanShape
  <2>6. \A t \in Task : pc'[t] # "idle" => \E i \in 1 .. level' : t \in plan'[i]
    <3> SUFFICES ASSUME NEW t \in Task, pc'[t] # "idle"
                 PROVE  \E i \in 1 .. (level + 1) : t \in plan[i]
      BY <2>1
    <3>1. CASE t \in plan[level + 1] BY <3>1, <1>s
    <3>2. CASE t \notin plan[level + 1]
      <4>1. PICK i \in 1 .. level : t \in plan[i] BY <3>2, <2>3 DEF LevelInv
      <4> QED BY <4>1, <1>s
    <3> QED BY <3>1, <3>2
  <2>7. \A i \in 1 .. level' : \A t \in plan'[i] : pc'[t] # "idle"
    <3> SUFFICES ASSUME NEW i \in 1 .. (level + 1), NEW t \in plan[i]
                 PROVE  pc'[t] # "idle"
      BY <2>1
    <3>1. CASE i = level + 1 BY <3>1, <2>3, <2>5
    <3>2. CASE i \in 1 .. level BY <3>2, <2>2, <2>3, <2>4
    <3> QED BY <3>1, <3>2, <1>s
  <2>8. \A i \in 1 .. (level' - 1) : \A t \in plan'[i] :
            pc'[t] = "done" /\ recorded'[t] \in Outcome
    BY <2>1, <2>2, <2>3, <2>4, <1>s
  <2> QED BY <2>6, <2>7, <2>8 DEF LevelInv
<1>2. ASSUME NEW u \in Task, TaskStep(u) PROVE LevelInv'
  <2>1. /\ UNCHANGED <<plan, level, recorded>>
        /\ pc[u] \notin {"idle", "done"} /\ pc'[u] # "idle"
        /\ \A t \in Task \ {u} : pc'[t] = pc[t]
    BY <1>2, TaskStepFrame
  <2>2. \A t \in Task : pc'[t] # "idle" => pc[t] # "idle" BY <2>1
  <2>3. \A t \in Task : pc[t] # "idle" => pc'[t] # "idle" BY <2>1
  <2>4. \A t \in Task : pc[t] = "done" => pc'[t] = "done" BY <2>1
  <2>5. \A i \in 1 .. (level - 1) : i \in 1 .. level BY <1>s
  <2> QED BY <2>1, <2>2, <2>3, <2>4, <2>5, <1>s DEF LevelInv
<1>3. CASE Next /\ ~StartLevel /\ ~(\E u \in Task : TaskStep(u))
  BY <1>3, <1>u DEF Next, MainStep, BeginRun, Collect, CloseLevel, EndLevels,
     DispatchEndHook, WaitCacheSaves, FinishSave, CancelByCaller
<1>4. CASE UNCHANGED vars BY <1>4, <1>u DEF vars
<1> QED BY <1>1, <1>2, <1>3, <1>4

LEMMA ResultStep == IInv /\ [Next]_vars => ResultInv'
<1> SUFFICES ASSUME IInv, [Next]_vars PROVE ResultInv'
  OBVIOUS
<1> USE DEF IInv
<1>1. CASE StartLevel
  <2>1. \A t \in Task : pc'[t] \in {"settled", "sent", "done"} => pc'[t] = pc[t]
    BY <1>1 DEF StartLevel, TypeInv
  <2>2. \A t \in Task : outcome[t] # "none" => pc'[t] = pc[t]
    <3> SUFFICES ASSUME NEW t \in Task, outcome[t] # "none", t \in plan[level + 1]
                 PROVE  FALSE
      BY <1>1 DEF StartLevel, TypeInv
    <3>1. pc[t] # "idle" BY DEF ResultInv
    <3>2. PICK i \in 1 .. level : t \in plan[i] BY <3>1 DEF LevelInv
    <3>3. i # level + 1 /\ i \in 1 .. Len(plan) /\ level + 1 \in 1 .. Len(plan)
      BY <1>1, PlanShape DEF StartLevel, TypeInv
    <3> QED BY <3>2, <3>3, PlanShape
  <2> QED BY <1>1, <2>1, <2>2 DEF StartLevel, ResultInv, InChannel, Cancelled
<1>2. CASE Collect
  <2>0. channel \in Seq(Task) /\ channel # <<>> /\ channel' = Tail(channel)
    BY <1>2 DEF Collect, TypeInv
  <2>1. /\ Head(channel) \in Task
        /\ \A t : InChannel(t) <=> t = Head(channel) \/ InChannel(t)'
    <3>1. Head(channel) \in Task BY <2>0, TailMembers
    <3> SUFFICES ASSUME NEW t
                 PROVE  InChannel(t) <=> t = Head(channel) \/ InChannel(t)'
      BY <3>1
    <3>2. (\E i \in 1 .. Len(channel) : channel[i] = t)
              <=> \/ t = Head(channel)
                  \/ \E i \in 1 .. Len(Tail(channel)) : Tail(channel)[i] = t
      BY <2>0, TailMembers
    <3> QED BY <2>0, <3>2 DEF InChannel
  <2>2. /\ UNCHANGED <<pc, outcome, cancelledBy>>
        /\ recorded' = [recorded EXCEPT ![Head(channel)] = outcome[Head(channel)]]
    BY <1>2 DEF Collect
  <2> QED BY <2>1, <2>2 DEF ResultInv, TypeInv, Cancelled
<1>3. ASSUME NEW u \in Task, TaskStep(u) PROVE ResultInv'
  <2>1. /\ recorded' = recorded
        /\ \A t \in Task \ {u} : pc'[t] = pc[t] /\ outcome'[t] = outcome[t]
    BY <1>3, TaskStepFrame
  <2>2. CASE Send(u)
    <3>1. \A t : InChannel(t)' <=> t = u \/ InChannel(t)
      <4>1. channel \in Seq(Task) /\ channel' = Append(channel, u)
        BY <2>2 DEF Send, TypeInv
      <4> SUFFICES ASSUME NEW t PROVE InChannel(t)' <=> t = u \/ InChannel(t)
        OBVIOUS
      <4>2. (\E i \in 1 .. Len(Append(channel, u)) : Append(channel, u)[i] = t)
                <=> t = u \/ \E i \in 1 .. Len(channel) : channel[i] = t
        BY <4>1, AppendMembers
      <4> QED BY <4>1, <4>2 DEF InChannel
    <3> QED BY <2>1, <2>2, <3>1 DEF Send, ResultInv, TypeInv, Cancelled
  <2>3. CASE ~Send(u)
    <3>1. channel' = channel
      BY <1>3, <2>3 DEF TaskStep, Acquire, Abandon, SkipOnNeed, SkipOnCondition,
         Start, RestoreFromCache, MissCache, Execute, Leave
    <3>2. \A t : InChannel(t)' <=> InChannel(t) BY <3>1 DEF InChannel
    <3>3. Cancelled => Cancelled'
      BY <1>3 DEF TaskStep, Acquire, Abandon, SkipOnNeed, SkipOnCondition, Start,
         RestoreFromCache, MissCache, Execute, Send, Leave, Cancelled
    <3>4. ASSUME pc[u] \in {"acquiring", "checking", "started", "executing"}
          PROVE  outcome[u] = "none" /\ recorded[u] = "none" /\ ~InChannel(u)
      BY <3>4 DEF ResultInv, TypeInv
    <3>5. CASE Acquire(u) \/ Start(u) \/ MissCache(u)
      BY <2>1, <3>2, <3>3, <3>4, <3>5
         DEF Acquire, Start, MissCache, ResultInv, TypeInv
    <3>6. CASE Abandon(u)
      BY <2>1, <3>2, <3>3, <3>4, <3>6 DEF Abandon, ResultInv, TypeInv
    <3>7. CASE SkipOnNeed(u) \/ SkipOnCondition(u) \/ RestoreFromCache(u)
      BY <2>1, <3>2, <3>3, <3>4, <3>7
         DEF SkipOnNeed, SkipOnCondition, RestoreFromCache, ResultInv, TypeInv
    <3>8. CASE Execute(u)
      <4>1. outcome'[u] # "none" /\ pc'[u] = "settled"
        BY <3>8 DEF Execute, ExecutionOutcomes, Outcome, TypeInv
      <4>2. pc[u] = "executing" BY <3>8 DEF Execute
      <4> QED BY <2>1, <3>2, <3>3, <3>4, <4>1, <4>2 DEF ResultInv, TypeInv
    <3>9. CASE Leave(u)
      BY <2>1, <3>2, <3>3, <3>9 DEF Leave, ResultInv, TypeInv
    <3> QED BY <1>3, <2>3, <3>5, <3>6, <3>7, <3>8, <3>9 DEF TaskStep
  <2> QED BY <2>2, <2>3
<1>4. CASE Next /\ ~StartLevel /\ ~Collect /\ ~(\E u \in Task : TaskStep(u))
  <2>1. UNCHANGED <<pc, outcome, channel, recorded>> /\ (Cancelled => Cancelled')
    BY <1>4 DEF Next, MainStep, BeginRun, CloseLevel, EndLevels, DispatchEndHook,
       WaitCacheSaves, FinishSave, CancelByCaller, Cancelled
  <2> QED BY <2>1 DEF ResultInv, InChannel
<1>5. CASE UNCHANGED vars BY <1>5 DEF vars, ResultInv, InChannel, Cancelled
<1> QED BY <1>1, <1>2, <1>3, <1>4, <1>5

(* A goroutine that is through with acquiring belongs to the level being    *)
(* run, so the results of its dependencies are recorded.                    *)
LEMMA NeedsRecorded ==
    ASSUME IInv, NEW t \in Task, pc[t] # "idle", NEW d \in Needs[t]
    PROVE  d \in Task /\ recorded[d] \in Outcome
<1>1. PICK i \in 1 .. level : t \in plan[i] BY DEF IInv, LevelInv
<1>2. level <= Len(plan) /\ level \in Nat /\ Len(plan) \in Nat
  BY PlanShape DEF IInv, TypeInv
<1>3. PICK j \in 1 .. (i - 1) : d \in plan[j]
  BY <1>1, <1>2, PlanShape DEF IInv
<1>4. j \in 1 .. (level - 1) BY <1>2, <1>3
<1>5. d \in Task BY NeedsAssumption
<1> QED BY <1>3, <1>4, <1>5 DEF IInv, LevelInv

LEMMA NeedsStep == IInv /\ [Next]_vars => NeedsInv'
<1> SUFFICES ASSUME IInv, [Next]_vars,
                    NEW t \in Task, NEW d \in Needs[t],
                    \/ pc'[t] \in {"started", "executing"}
                    \/ outcome'[t] \notin {"none", "skipped"}
             PROVE  recorded'[d] \in Outcome /\ ~Blocks(recorded'[d])
  BY DEF NeedsInv
<1>1. d \in Task BY NeedsAssumption
<1>2. ASSUME recorded[d] \in Outcome, ~Blocks(recorded[d])
      PROVE  recorded'[d] \in Outcome /\ ~Blocks(recorded'[d])
  <2>1. recorded'[d] = recorded[d] BY <1>1, <1>2, RecordedStays DEF Outcome
  <2> QED BY <1>2, <2>1 DEF Blocks
<1>3. ASSUME pc[t] \in {"started", "executing"} \/ outcome[t] \notin {"none", "skipped"}
      PROVE  recorded[d] \in Outcome /\ ~Blocks(recorded[d])
  BY <1>3 DEF IInv, NeedsInv
<1>4. ASSUME pc[t] = "checking", ~NeedsBlocked(t)
      PROVE  recorded[d] \in Outcome /\ ~Blocks(recorded[d])
  BY <1>4, NeedsRecorded DEF NeedsBlocked
<1>5. ASSUME NEW u \in Task, TaskStep(u)
      PROVE  recorded[d] \in Outcome /\ ~Blocks(recorded[d])
  <2>1. CASE u # t BY <1>5, <1>3, <2>1, TaskStepFrame DEF IInv
  <2>2. CASE u = t
    <3>1. CASE SkipOnNeed(t)
      BY <3>1 DEF SkipOnNeed, IInv, TypeInv
    <3>2. CASE SkipOnCondition(t) \/ Start(t)
      BY <3>2, <1>4 DEF SkipOnCondition, Start
    <3>3. CASE RestoreFromCache(t) \/ MissCache(t) \/ Execute(t)
      BY <3>3, <1>3 DEF RestoreFromCache, MissCache, Execute
    <3>4. CASE Acquire(t) \/ Abandon(t) \/ Send(t) \/ Leave(t)
      BY <3>4, <1>3 DEF Acquire, Abandon, Send, Leave, IInv, TypeInv
    <3> QED BY <1>5, <2>2, <3>1, <3>2, <3>3, <3>4 DEF TaskStep
  <2> QED BY <2>1, <2>2
<1>6. CASE StartLevel
  BY <1>6, <1>2, <1>3 DEF StartLevel, IInv, TypeInv
<1>7. CASE ~StartLevel /\ ~(\E u \in Task : TaskStep(u))
  <2>1. UNCHANGED <<pc, outcome>>
    BY <1>7 DEF Next, MainStep, BeginRun, Collect, CloseLevel, EndLevels,
       DispatchEndHook, WaitCacheSaves, FinishSave, CancelByCaller, vars
  <2> QED BY <2>1, <1>2, <1>3
<1> QED BY <1>2, <1>5, <1>6, <1>7

LEMMA SlotStep == IInv /\ [Next]_vars => SlotInv'
<1> SUFFICES ASSUME IInv, [Next]_vars PROVE SlotInv'
  OBVIOUS
<1> USE DEF IInv
<1>0. /\ Cardinality(HasSlot) \in Nat
      /\ opts.parallelism \in Nat
      /\ pc \in [Task -> {"idle", "acquiring", "checking", "started", "executing",
                          "settled", "sent", "done"}]
  BY FS_CardinalityType, OptionsAssumption DEF SlotInv, TypeInv
<1>s. ASSUME HasSlot' = HasSlot, sem' = sem, opts' = opts PROVE SlotInv'
  BY <1>s DEF SlotInv
<1>1. CASE StartLevel
  <2>1. HasSlot' = {} /\ HasSlot = {}
    BY <1>1, <1>0 DEF StartLevel, PhaseInv, HasSlot
  <2> QED BY <1>1, <2>1, <1>s DEF StartLevel
<1>2. ASSUME NEW t \in Task, TaskStep(t) PROVE SlotInv'
  <2>1. CASE Acquire(t)
    <3>1. t \notin HasSlot /\ HasSlot' = HasSlot \cup {t}
      BY <2>1, <1>0 DEF Acquire, HasSlot
    <3>2. IsFiniteSet(HasSlot') /\ Cardinality(HasSlot') = Cardinality(HasSlot) + 1
      BY <3>1, FS_AddElement DEF SlotInv
    <3> QED BY <2>1, <3>2, <1>0 DEF Acquire, SlotInv
  <2>2. CASE Leave(t)
    <3>1. t \in HasSlot /\ HasSlot' = HasSlot \ {t}
      BY <2>2, <1>0 DEF Leave, HasSlot
    <3>2. IsFiniteSet(HasSlot') /\ Cardinality(HasSlot') = Cardinality(HasSlot) - 1
      BY <3>1, FS_RemoveElement DEF SlotInv
    <3> QED BY <2>2, <3>2, <1>0 DEF Leave, SlotInv
  <2>3. CASE ~Acquire(t) /\ ~Leave(t)
    <3>1. HasSlot' = HasSlot /\ sem' = sem /\ opts' = opts
      BY <1>2, <2>3, <1>0 DEF TaskStep, Abandon, SkipOnNeed, SkipOnCondition,
         Start, RestoreFromCache, MissCache, Execute, Send, HasSlot
    <3> QED BY <3>1, <1>s
  <2> QED BY <2>1, <2>2, <2>3
<1>3. CASE ~StartLevel /\ ~(\E t \in Task : TaskStep(t))
  <2>1. UNCHANGED <<pc, sem, opts>>
    BY <1>3 DEF Next, MainStep, BeginRun, Collect, CloseLevel, EndLevels,
       DispatchEndHook, WaitCacheSaves, FinishSave, CancelByCaller, vars
  <2> QED BY <2>1, <1>s DEF HasSlot
<1> QED BY <1>1, <1>2, <1>3

LEMMA InitInv == Init => IInv
<1> SUFFICES ASSUME Init PROVE IInv
  OBVIOUS
<1>1. TypeInv BY TypeInit
<1>2. Len(<<>>) = 0 OBVIOUS
<1>3. SlotInv
  <2>1. HasSlot = {} BY DEF Init, HasSlot
  <2>2. opts.parallelism \in Nat BY OptionsAssumption DEF Init
  <2> QED BY <2>1, <2>2, FS_EmptySet DEF Init, SlotInv
<1> QED BY <1>1, <1>2, <1>3 DEF Init, IInv, PhaseInv, LevelInv, ResultInv,
           NeedsInv, InChannel, Cancelled

THEOREM Invariance == Spec => []IInv
<1>1. IInv /\ [Next]_vars => IInv'
  BY TypeStep, PhaseStep, LevelStep, ResultStep, NeedsStep, SlotStep DEF IInv
<1> QED BY InitInv, <1>1, PTL DEF Spec

(* No task is started, executed or restored before every dependency has a  *)
(* recorded result that lets it (scheduler.go:398-419).                     *)
THEOREM DependenciesFirst == Spec => []RunsAfterNeeds
<1>1. IInv => RunsAfterNeeds
  BY DEF IInv, NeedsInv, RunsAfterNeeds, IsSuccess
<1> QED BY Invariance, <1>1, PTL

(* What depends on a failure, directly or not, does not run: it is skipped *)
(* or has no result.                                                        *)
THEOREM FailuresContained == Spec => []FailureIsContained
<1>1. IInv => FailureIsContained
  BY DEF IInv, NeedsInv, FailureIsContained
<1> QED BY Invariance, <1>1, PTL

(* Every variable keeps its type; the semaphore never exceeds its capacity. *)
THEOREM TypeCorrect == Spec => []TypeOK
<1>1. IInv => TypeOK
  <2> SUFFICES ASSUME IInv PROVE TypeOK
    OBVIOUS
  <2>1. sem \in Nat /\ opts.parallelism \in Nat
    BY FS_CardinalityType, OptionsAssumption DEF IInv, SlotInv, TypeInv
  <2> QED BY <2>1 DEF IInv, TypeInv, SlotInv, TypeOK
<1> QED BY Invariance, <1>1, PTL

(* At any time the tasks holding a slot are those the semaphore counts, and *)
(* no more of them execute than the options allow (scheduler.go:298-315).   *)
THEOREM ParallelismRespected == Spec => []SlotsBounded
<1>1. IInv => SlotsBounded
  <2> SUFFICES ASSUME IInv PROVE SlotsBounded
    OBVIOUS
  <2> DEFINE Executing == {t \in Task : pc[t] = "executing"}
  <2>1. Executing \subseteq HasSlot BY DEF HasSlot
  <2>2. /\ Cardinality(Executing) \in Nat /\ Cardinality(HasSlot) \in Nat
        /\ Cardinality(Executing) <= Cardinality(HasSlot)
    BY <2>1, FS_Subset, FS_CardinalityType DEF IInv, SlotInv
  <2>3. opts.parallelism \in Nat
    BY OptionsAssumption DEF IInv, TypeInv
  <2> QED BY <2>2, <2>3 DEF IInv, SlotInv, SlotsBounded
<1> QED BY Invariance, <1>1, PTL

--------------------------------------------------------------------------------
(* What Run hands to its caller: an accurate summary, paired callbacks, no  *)
(* task dropped without a reason, silence after the return; and that        *)
(* Scheduler implements DagRun.  They rest on the invariant above.          *)

(* A result is in the channel at most once, and not yet recorded.           *)
ChannelInv ==
    /\ \A i, j \in 1 .. Len(channel) : channel[i] = channel[j] => i = j
    /\ \A t \in Task : InChannel(t) => recorded[t] = "none"
    /\ \A t \in Task : InChannel(t) \/ recorded[t] # "none" => pc[t] \in {"sent", "done"}

Failed == {t \in Task : IsFailure(recorded[t])}
Hits   == {t \in Task : recorded[t] = "cached"}

SummaryInv ==
    /\ IsFiniteSet(Failed) /\ failures = Cardinality(Failed)
    /\ IsFiniteSet(Hits) /\ cacheHits = Cardinality(Hits)

(* Levels are left out only by a cancellation, and who cancelled has a      *)
(* reason.                                                                  *)
EndInv ==
    /\ main = "starting" => level = 0
    /\ main \in {"ending", "returned"} => Cancelled \/ level = Len(plan)
    /\ cancelledBy = "failure" =>
           opts.failFast /\ \E t \in Task : pc[t] = "done" /\ IsFailure(outcome[t])

(* The callbacks are those of the results: a task is completed with its     *)
(* result, and was started unless a dependency blocked it.                  *)
CallInv ==
    /\ completed = {t \in Task : outcome[t] # "none"}
    /\ \A t \in started : pc[t] \in {"started", "executing"} \/ outcome[t] # "none"
    /\ \A t \in Task :
           pc[t] \in {"started", "executing"} \/ outcome[t] \notin {"none", "skipped"}
               => t \in started
    /\ \A t \in started : \A d \in Needs[t] : recorded[d] \in Outcome /\ ~Blocks(recorded[d])
    /\ \A t \in Task : outcome[t] = "skipped" /\ t \notin started => NeedsBlocked(t)

(* The success hook is that of a complete run without failure.              *)
HookInv ==
    /\ hook # "none" => main \in {"returned", "exited"}
    /\ hook = "success" => ~Cancelled /\ level = Len(plan) /\ failures = 0

RInv == ChannelInv /\ SummaryInv /\ EndInv /\ CallInv /\ HookInv

--------------------------------------------------------------------------------
LEMMA InitRInv == Init => RInv
<1> SUFFICES ASSUME Init PROVE RInv
  OBVIOUS
<1>1. channel = <<>> /\ Len(channel) = 0 /\ \A t \in Task : recorded[t] = "none" /\ outcome[t] = "none"
  BY DEF Init
<1>2. Failed = {} /\ Hits = {}
  BY <1>1 DEF Failed, Hits, IsFailure, Outcome
<1>3. SummaryInv
  BY <1>2, FS_EmptySet DEF Init, SummaryInv
<1> QED
  BY <1>1, <1>3 DEF Init, RInv, ChannelInv, InChannel, EndInv, CallInv, HookInv, Cancelled

(* Everything but a task's step, a new level and the collector leaves       *)
(* goroutines, results and channel alone.                                   *)
LEMMA OtherFrame ==
    ASSUME IInv, [Next]_vars, ~StartLevel, ~Collect, ~(\E t \in Task : TaskStep(t))
    PROVE  UNCHANGED <<plan, opts, level, pc, outcome, channel, recorded, cacheHits, failures,
                       started, completed>>
BY DEF Next, MainStep, BeginRun, CloseLevel, EndLevels, DispatchEndHook, WaitCacheSaves,
       FinishSave, CancelByCaller, vars

(* The collector takes a result that was not recorded.                      *)
LEMMA Collected ==
    ASSUME IInv, ChannelInv, Collect
    PROVE  \E h \in Task :
               /\ recorded[h] = "none" /\ outcome[h] \in Outcome /\ pc[h] \in {"sent", "done"}
               /\ recorded' = [recorded EXCEPT ![h] = outcome[h]]
               /\ cacheHits' = cacheHits + (IF outcome[h] = "cached" THEN 1 ELSE 0)
               /\ failures' = failures + (IF IsFailure(outcome[h]) THEN 1 ELSE 0)
               /\ channel \in Seq(Task) /\ channel # <<>> /\ h = Head(channel)
               /\ channel' = Tail(channel)
               /\ UNCHANGED <<plan, opts, main, level, pc, outcome, cancelledBy, started,
                              completed, hook>>
<1>1. channel \in Seq(Task) /\ channel # <<>>
  BY DEF Collect, IInv, TypeInv
<1>2. Head(channel) \in Task /\ 1 \in 1 .. Len(channel) /\ Head(channel) = channel[1]
  BY ONLY <1>1
<1>3. InChannel(Head(channel))
  BY <1>2 DEF InChannel
<1>4. outcome[Head(channel)] \in Outcome
  BY <1>2, <1>3 DEF IInv, TypeInv, ResultInv
<1> QED
  BY <1>1, <1>2, <1>3, <1>4 DEF Collect, ChannelInv

LEMMA ChannelStep == IInv /\ ChannelInv /\ [Next]_vars => ChannelInv'
<1> SUFFICES ASSUME IInv, ChannelInv, [Next]_vars PROVE ChannelInv'
  OBVIOUS
<1>0. channel \in Seq(Task) /\ Len(channel) \in Nat
  BY DEF IInv, TypeInv
<1>1. CASE StartLevel
  <2>1. channel = <<>> /\ channel' = <<>> /\ recorded' = recorded
    BY <1>1 DEF StartLevel, IInv, PhaseInv
  <2>2. Len(channel') = 0
    BY <2>1
  <2>3. ASSUME NEW t \in Task, recorded[t] # "none" PROVE pc'[t] = pc[t]
    <3>1. pc[t] = "done"
      BY <1>1, <2>3 DEF StartLevel, IInv, PhaseInv, ChannelInv
    <3>2. t \notin plan[level + 1]
      <4>1. PICK i \in 1 .. level : t \in plan[i]
        BY <3>1 DEF IInv, LevelInv
      <4>2. i # level + 1 /\ i \in 1 .. Len(plan) /\ level + 1 \in 1 .. Len(plan)
        BY <1>1, PlanShape DEF StartLevel, IInv, TypeInv
      <4> QED
        BY <4>1, <4>2, PlanShape DEF IInv
    <3> QED
      BY <1>1, <3>2 DEF StartLevel
  <2> QED
    BY <2>1, <2>2, <2>3 DEF ChannelInv, InChannel
<1>2. CASE Collect
  <2>1. PICK h \in Task :
            /\ recorded[h] = "none" /\ pc[h] \in {"sent", "done"}
            /\ recorded' = [recorded EXCEPT ![h] = outcome[h]]
            /\ channel \in Seq(Task) /\ channel # <<>> /\ h = Head(channel)
            /\ channel' = Tail(channel) /\ pc' = pc
    BY <1>2, Collected
  <2>2. /\ Len(channel') = Len(channel) - 1 /\ h = channel[1] /\ Len(channel) >= 1
        /\ \A i \in 1 .. (Len(channel) - 1) : channel'[i] = channel[i + 1]
    BY ONLY <2>1
  <2>3. \A i \in 1 .. (Len(channel) - 1) : i + 1 \in 1 .. Len(channel) /\ i + 1 # 1
    BY <1>0
  <2>4. ASSUME NEW i \in 1 .. (Len(channel) - 1), NEW j \in 1 .. (Len(channel) - 1),
               channel'[i] = channel'[j]
        PROVE  i = j
    <3>1. channel[i + 1] = channel[j + 1]
      BY <2>2, <2>4
    <3>2. i + 1 = j + 1
      BY <2>3, <3>1 DEF ChannelInv
    <3> QED
      BY <3>2
  <2>5. ASSUME NEW t \in Task, InChannel(t)' PROVE InChannel(t) /\ t # h
    <3>1. PICK i \in 1 .. (Len(channel) - 1) : channel[i + 1] = t
      BY <2>2, <2>5 DEF InChannel
    <3>2. channel[i + 1] # channel[1] /\ 1 \in 1 .. Len(channel)
      BY <1>0, <2>2, <2>3 DEF ChannelInv
    <3> QED
      BY <2>2, <2>3, <3>1, <3>2 DEF InChannel
  <2>6. \A t \in Task : recorded'[t] = IF t = h THEN outcome[h] ELSE recorded[t]
    BY <2>1 DEF IInv, TypeInv
  <2> QED
    BY <2>1, <2>2, <2>4, <2>5, <2>6 DEF ChannelInv
<1>3. ASSUME NEW u \in Task, TaskStep(u) PROVE ChannelInv'
  <2>1. /\ recorded' = recorded /\ pc[u] \notin {"idle", "done"}
        /\ \A t \in Task \ {u} : pc'[t] = pc[t]
    BY <1>3, TaskStepFrame DEF IInv
  <2>2. CASE Send(u)
    <3>1. pc[u] = "settled" /\ channel' = Append(channel, u) /\ pc'[u] = "sent"
      BY <2>2 DEF Send, IInv, TypeInv
    <3>2. ~InChannel(u) /\ recorded[u] = "none"
      BY <3>1 DEF ChannelInv
    <3>3. /\ Len(channel') = Len(channel) + 1 /\ channel'[Len(channel) + 1] = u
          /\ \A i \in 1 .. Len(channel) : channel'[i] = channel[i]
      BY ONLY <1>0, <3>1
    <3>4. \A i \in 1 .. (Len(channel) + 1) : i = Len(channel) + 1 \/ i \in 1 .. Len(channel)
      BY <1>0
    <3>5. \A i \in 1 .. Len(channel) : channel[i] # u
      BY <3>2 DEF InChannel
    <3>6. \A i, j \in 1 .. (Len(channel) + 1) : channel'[i] = channel'[j] => i = j
      BY <3>3, <3>4, <3>5 DEF ChannelInv
    <3>7. \A t \in Task : InChannel(t)' => t = u \/ InChannel(t)
      BY <3>3, <3>4 DEF InChannel
    <3> QED
      BY <2>1, <3>1, <3>2, <3>3, <3>6, <3>7 DEF ChannelInv
  <2>3. CASE ~Send(u)
    <3>1. channel' = channel /\ (pc[u] = "sent" => pc'[u] = "done")
      BY <1>3, <2>3 DEF TaskStep, Acquire, Abandon, SkipOnNeed, SkipOnCondition,
         Start, RestoreFromCache, MissCache, Execute, Leave, IInv, TypeInv
    <3> QED
      BY <2>1, <3>1 DEF ChannelInv, InChannel
  <2> QED
    BY <2>2, <2>3
<1>4. CASE ~StartLevel /\ ~Collect /\ ~(\E t \in Task : TaskStep(t))
  BY <1>4, OtherFrame DEF ChannelInv, InChannel
<1> QED
  BY <1>1, <1>2, <1>3, <1>4

LEMMA SummaryStep == IInv /\ ChannelInv /\ SummaryInv /\ [Next]_vars => SummaryInv'
<1> SUFFICES ASSUME IInv, ChannelInv, SummaryInv, [Next]_vars PROVE SummaryInv'
  OBVIOUS
<1>1. CASE Collect
  <2>1. PICK h \in Task :
            /\ recorded[h] = "none" /\ outcome[h] \in Outcome
            /\ recorded' = [recorded EXCEPT ![h] = outcome[h]]
            /\ cacheHits' = cacheHits + (IF outcome[h] = "cached" THEN 1 ELSE 0)
            /\ failures' = failures + (IF IsFailure(outcome[h]) THEN 1 ELSE 0)
    BY <1>1, Collected
  <2>2. \A t \in Task : recorded'[t] = IF t = h THEN outcome[h] ELSE recorded[t]
    BY <2>1 DEF IInv, TypeInv
  <2>3. h \notin Failed /\ h \notin Hits
    BY <2>1 DEF Failed, Hits, IsFailure, Outcome
  <2>4. Failed' = IF IsFailure(outcome[h]) THEN Failed \cup {h} ELSE Failed
    BY <2>1, <2>2 DEF Failed, IsFailure, Outcome
  <2>5. Hits' = IF outcome[h] = "cached" THEN Hits \cup {h} ELSE Hits
    BY <2>1, <2>2 DEF Hits
  <2>6. IsFiniteSet(Failed') /\ failures' = Cardinality(Failed')
    <3>1. failures \in Nat
      BY FS_CardinalityType DEF SummaryInv
    <3> QED
      <4>1. CASE IsFailure(outcome[h])
        BY <2>1, <2>3, <2>4, <3>1, <4>1, FS_AddElement DEF SummaryInv
      <4>2. CASE ~IsFailure(outcome[h])
        BY <2>1, <2>4, <3>1, <4>2 DEF SummaryInv
      <4> QED
        BY <4>1, <4>2
  <2>7. IsFiniteSet(Hits') /\ cacheHits' = Cardinality(Hits')
    <3>1. cacheHits \in Nat
      BY FS_CardinalityType DEF SummaryInv
    <3> QED
      BY <2>1, <2>3, <2>5, <3>1, FS_AddElement DEF SummaryInv
  <2> QED
    BY <2>6, <2>7 DEF SummaryInv
<1>2. CASE UNCHANGED <<recorded, cacheHits, failures>>
  BY <1>2 DEF SummaryInv, Failed, Hits
<1>3. ~Collect => UNCHANGED <<recorded, cacheHits, failures>>
  BY OtherFrame, TaskStepFrame DEF StartLevel, IInv
<1> QED
  BY <1>1, <1>2, <1>3

LEMMA EndStep == IInv /\ EndInv /\ [Next]_vars => EndInv'
<1> SUFFICES ASSUME IInv, EndInv, [Next]_vars PROVE EndInv'
  OBVIOUS
<1>1. CASE StartLevel
  BY <1>1 DEF StartLevel, EndInv, IInv, TypeInv, Cancelled
<1>2. CASE Collect
  BY <1>2 DEF Collect, EndInv, IInv, TypeInv, Cancelled
<1>3. ASSUME NEW u \in Task, TaskStep(u) PROVE EndInv'
  <2>1. /\ UNCHANGED <<plan, opts, main, level>> /\ pc[u] \notin {"idle", "done"}
        /\ \A t \in Task \ {u} : pc'[t] = pc[t] /\ outcome'[t] = outcome[t]
        /\ main = "collecting"
    BY <1>3, TaskStepFrame DEF IInv, PhaseInv
  <2>2. CASE Leave(u)
    <3>1. /\ pc'[u] = "done" /\ outcome' = outcome
          /\ cancelledBy' = IF opts.failFast /\ IsFailure(outcome[u]) /\ ~Cancelled
                            THEN "failure" ELSE cancelledBy
      BY <2>2 DEF Leave, IInv, TypeInv
    <3>2. \A t \in Task : pc[t] = "done" => pc'[t] = "done"
      BY <2>1, <3>1
    <3> QED
      BY <2>1, <3>1, <3>2 DEF EndInv, Cancelled
  <2>3. CASE ~Leave(u)
    <3>1. cancelledBy' = cancelledBy
      BY <1>3, <2>3 DEF TaskStep, Acquire, Abandon, SkipOnNeed, SkipOnCondition,
         Start, RestoreFromCache, MissCache, Execute, Send
    <3>2. \A t \in Task : pc[t] = "done" => pc'[t] = "done" /\ outcome'[t] = outcome[t]
      BY <2>1
    <3> QED
      BY <2>1, <3>1, <3>2 DEF EndInv, Cancelled
  <2> QED
    BY <2>2, <2>3
<1>4. CASE ~StartLevel /\ ~Collect /\ ~(\E t \in Task : TaskStep(t))
  <2>1. UNCHANGED <<plan, opts, level, pc, outcome>>
    BY <1>4, OtherFrame
  <2>2. CASE BeginRun
    <3>1. plan = <<>> => Len(plan) = 0 /\ level = 0
      BY DEF IInv, TypeInv
    <3> QED
      BY <2>1, <2>2, <3>1 DEF BeginRun, EndInv, Cancelled
  <2>3. CASE EndLevels
    BY <2>1, <2>3 DEF EndLevels, EndInv, Cancelled
  <2>4. CASE ~BeginRun /\ ~EndLevels
    BY <1>4, <2>1, <2>4 DEF Next, MainStep, CloseLevel, DispatchEndHook, WaitCacheSaves,
       FinishSave, CancelByCaller, vars, EndInv, Cancelled
  <2> QED
    BY <2>2, <2>3, <2>4
<1> QED
  BY <1>1, <1>2, <1>3, <1>4

(* Whether a dependency blocks a task does not change once it is known.     *)
LEMMA VerdictOnNeedsStays ==
    ASSUME IInv, [Next]_vars, NEW t \in Task
    PROVE  /\ NeedsBlocked(t) => NeedsBlocked(t)'
           /\ (\A d \in Needs[t] : recorded[d] \in Outcome /\ ~Blocks(recorded[d]))
                  => \A d \in Needs[t] : recorded'[d] \in Outcome /\ ~Blocks(recorded'[d])
<1>1. \A d \in Needs[t] : d \in Task
  BY NeedsAssumption
<1>2. \A d \in Needs[t] : recorded[d] \in Outcome => recorded'[d] = recorded[d]
  BY <1>1, RecordedStays DEF Outcome
<1> QED
  BY <1>2 DEF NeedsBlocked, Blocks

LEMMA CallStep == IInv /\ CallInv /\ [Next]_vars => CallInv'
<1> SUFFICES ASSUME IInv, CallInv, [Next]_vars PROVE CallInv'
  OBVIOUS
<1>0. /\ pc \in [Task -> {"idle", "acquiring", "checking", "started", "executing",
                          "settled", "sent", "done"}]
      /\ outcome \in [Task -> Outcome \cup {"none"}]
      /\ started \subseteq Task
  BY DEF IInv, TypeInv
<1>n. /\ \A t \in Task : NeedsBlocked(t) => NeedsBlocked(t)'
      /\ \A t \in started : \A d \in Needs[t] : recorded'[d] \in Outcome /\ ~Blocks(recorded'[d])
  BY <1>0, VerdictOnNeedsStays DEF CallInv
<1>1. CASE UNCHANGED <<pc, outcome, started, completed>>
  BY <1>n, <1>1 DEF CallInv
<1>2. CASE StartLevel
  <2>1. UNCHANGED <<outcome, started, completed>>
    BY <1>2 DEF StartLevel
  <2>2. \A t \in Task : (pc'[t] \in {"started", "executing"}) <=> (pc[t] \in {"started", "executing"})
    BY <1>0, <1>2 DEF StartLevel, IInv, PhaseInv
  <2> QED
    BY <1>0, <1>n, <2>1, <2>2 DEF CallInv
<1>3. ASSUME NEW u \in Task, TaskStep(u) PROVE CallInv'
  <2>1. /\ recorded' = recorded /\ pc[u] \notin {"idle", "done"}
        /\ \A t \in Task \ {u} : pc'[t] = pc[t] /\ outcome'[t] = outcome[t]
    BY <1>3, TaskStepFrame DEF IInv
  <2>2. pc[u] \in {"acquiring", "checking", "started", "executing"} => outcome[u] = "none"
    BY <1>0 DEF IInv, ResultInv
  <2>3. pc[u] \in {"acquiring", "checking"} => u \notin started
    BY <1>0, <2>2 DEF CallInv
  <2>4. pc[u] = "checking" /\ ~NeedsBlocked(u)
            => \A d \in Needs[u] : recorded[d] \in Outcome /\ ~Blocks(recorded[d])
    BY NeedsRecorded DEF NeedsBlocked
  <2>5. CASE Acquire(u) \/ Abandon(u)
    <3>1. /\ UNCHANGED <<outcome, started, completed>> /\ pc[u] = "acquiring"
          /\ pc'[u] \in {"checking", "done"}
      BY <1>0, <2>5 DEF Acquire, Abandon
    <3> QED
      BY <1>0, <1>n, <2>1, <2>2, <2>3, <3>1 DEF CallInv
  <2>6. CASE SkipOnNeed(u)
    <3>1. /\ pc[u] = "checking" /\ pc'[u] = "settled" /\ outcome'[u] = "skipped"
          /\ started' = started /\ completed' = completed \cup {u} /\ NeedsBlocked(u)
      BY <1>0, <2>6 DEF SkipOnNeed
    <3> QED
      BY <1>0, <1>n, <2>1, <2>2, <2>3, <3>1 DEF CallInv
  <2>7. CASE SkipOnCondition(u)
    <3>1. /\ pc[u] = "checking" /\ pc'[u] = "settled" /\ outcome'[u] = "waived"
          /\ started' = started \cup {u} /\ completed' = completed \cup {u} /\ ~NeedsBlocked(u)
      BY <1>0, <2>7 DEF SkipOnCondition
    <3> QED
      BY <1>0, <1>n, <2>1, <2>2, <2>3, <2>4, <3>1 DEF CallInv
  <2>8. CASE Start(u)
    <3>1. /\ pc[u] = "checking" /\ pc'[u] = "started" /\ outcome' = outcome
          /\ started' = started \cup {u} /\ completed' = completed /\ ~NeedsBlocked(u)
      BY <1>0, <2>8 DEF Start
    <3> QED
      BY <1>0, <1>n, <2>1, <2>2, <2>3, <2>4, <3>1 DEF CallInv
  <2>9. CASE RestoreFromCache(u) \/ Execute(u)
    <3>1. /\ pc[u] \in {"started", "executing"} /\ pc'[u] = "settled"
          /\ outcome'[u] \in Outcome /\ outcome'[u] # "none"
          /\ started' = started /\ completed' = completed \cup {u}
      BY <1>0, <2>9 DEF RestoreFromCache, Execute, ExecutionOutcomes, Outcome
    <3>2. u \in started
      BY <3>1 DEF CallInv
    <3> QED
      BY <1>0, <1>n, <2>1, <2>2, <3>1, <3>2 DEF CallInv
  <2>10. CASE MissCache(u) \/ Send(u) \/ Leave(u)
    <3>1. /\ UNCHANGED <<outcome, started, completed>>
          /\ (pc'[u] \in {"started", "executing"}) <=> (pc[u] \in {"started", "executing"})
      BY <1>0, <2>10 DEF MissCache, Send, Leave
    <3> QED
      BY <1>0, <1>n, <2>1, <3>1 DEF CallInv
  <2> QED
    BY <1>3, <2>5, <2>6, <2>7, <2>8, <2>9, <2>10 DEF TaskStep
<1>4. CASE Collect
  BY <1>1, <1>4 DEF Collect
<1>5. CASE ~StartLevel /\ ~Collect /\ ~(\E t \in Task : TaskStep(t))
  BY <1>1, <1>5, OtherFrame
<1> QED
  BY <1>2, <1>3, <1>4, <1>5

LEMMA HookStep == IInv /\ HookInv /\ SummaryInv /\ EndInv /\ [Next]_vars => HookInv'
<1> SUFFICES ASSUME IInv, HookInv, SummaryInv, EndInv, [Next]_vars PROVE HookInv'
  OBVIOUS
<1>1. CASE StartLevel \/ Collect
  BY <1>1 DEF StartLevel, Collect, HookInv
<1>2. ASSUME NEW u \in Task, TaskStep(u) PROVE HookInv'
  <2>1. hook = "none" /\ hook' = hook
    BY <1>2, TaskStepFrame DEF IInv, PhaseInv, HookInv
  <2> QED
    BY <2>1 DEF HookInv
<1>3. CASE ~StartLevel /\ ~Collect /\ ~(\E t \in Task : TaskStep(t))
  <2>1. UNCHANGED <<plan, level, failures>>
    BY <1>3, OtherFrame
  <2>2. CASE DispatchEndHook
    <3>1. /\ main = "ending" /\ main' = "returned" /\ cancelledBy' = cancelledBy
          /\ hook' = IF Cancelled \/ opts.dryRun THEN "none"
                     ELSE IF failures > 0 THEN "failure" ELSE "success"
      BY <2>2 DEF DispatchEndHook
    <3>2. failures \in Nat
      BY FS_CardinalityType DEF SummaryInv
    <3> QED
      BY <2>1, <3>1, <3>2 DEF HookInv, EndInv, Cancelled
  <2>3. CASE ~DispatchEndHook
    BY <1>3, <2>1, <2>3 DEF Next, MainStep, BeginRun, CloseLevel, EndLevels, WaitCacheSaves,
       FinishSave, CancelByCaller, vars, HookInv, Cancelled
  <2> QED
    BY <2>2, <2>3
<1> QED
  BY <1>1, <1>2, <1>3

--------------------------------------------------------------------------------
(* The reports of a run are consistent in every reachable state.            *)
THEOREM ReportsInvariant == Spec => [](IInv /\ RInv)
<1>1. Init => IInv /\ RInv
  BY InitInv, InitRInv
<1>2. IInv /\ RInv /\ [Next]_vars => (IInv /\ RInv)'
  BY TypeStep, PhaseStep, LevelStep, ResultStep, NeedsStep, SlotStep, ChannelStep, SummaryStep,
     EndStep, CallStep, HookStep DEF IInv, RInv
<1> QED
  BY <1>1, <1>2, PTL DEF Spec

(* Outside of a level what has a result has it recorded.                    *)
LEMMA RecordedAtRest ==
    ASSUME IInv, main # "collecting", NEW t \in Task
    PROVE  recorded[t] = outcome[t]
<1>1. ~InChannel(t) /\ pc[t] \in {"idle", "done"}
  BY DEF IInv, PhaseInv, InChannel
<1> QED
  BY <1>1 DEF IInv, ResultInv

(* After the last level of a run that was not cancelled, every task has a   *)
(* result.                                                                  *)
LEMMA AllRecorded ==
    ASSUME IInv, main # "collecting", level = Len(plan), ~Cancelled, NEW t \in PlanTasks
    PROVE  t \in Task /\ recorded[t] \in Outcome
<1>1. PICK i \in 1 .. Len(plan) : t \in plan[i]
  BY PlanShape DEF IInv, PlanTasks
<1>2. t \in Task
  BY <1>1, PlanShape DEF IInv
<1>3. pc[t] = "done"
  BY <1>1, <1>2 DEF IInv, LevelInv, PhaseInv
<1>4. outcome[t] # "none"
  BY <1>2, <1>3 DEF IInv, ResultInv
<1> QED
  BY <1>2, <1>4, RecordedAtRest DEF IInv, TypeInv

(* The counters of the summary are those of its results, whatever the order *)
(* in which they are collected (scheduler.go 322-340).                      *)
THEOREM SummaryCorrect == Spec => []SummaryAgrees
<1>1. RInv => SummaryAgrees
  BY DEF RInv, SummaryInv, SummaryAgrees, Failed, Hits
<1> QED
  BY <1>1, ReportsInvariant, PTL

(* When Run is over, a planned task without a result is explained by the    *)
(* caller's cancellation or by a counted failure (scheduler.go 278-352).    *)
THEOREM NothingDropped == Spec => []NoTaskDropped
<1>1. ASSUME IInv, RInv PROVE NoTaskDropped
  <2> SUFFICES ASSUME main \in {"ending", "returned"}, cancelledBy # "caller"
               PROVE  \/ \A t \in PlanTasks : recorded[t] # "none"
                      \/ opts.failFast /\ failures > 0
    BY DEF NoTaskDropped
  <2>1. CASE ~Cancelled
    BY <1>1, <2>1, AllRecorded DEF RInv, EndInv, Outcome
  <2>2. CASE Cancelled
    <3>1. cancelledBy = "failure"
      BY <1>1, <2>2 DEF IInv, TypeInv, Cancelled
    <3>2. PICK t \in Task : opts.failFast /\ pc[t] = "done" /\ IsFailure(outcome[t])
      BY <1>1, <3>1 DEF RInv, EndInv
    <3>3. t \in Failed
      BY <1>1, <3>2, RecordedAtRest DEF Failed
    <3>4. failures \in Nat /\ failures # 0
      BY <1>1, <3>3, FS_CardinalityType, FS_EmptySet DEF RInv, SummaryInv
    <3> QED
      BY <3>2, <3>4
  <2> QED
    BY <2>1, <2>2
<1> QED
  BY <1>1, ReportsInvariant, PTL

(* At the return every started task was reported as completed, exactly the  *)
(* tasks with a result were, and those not started are the ones skipped on  *)
(* a dependency (scheduler.go 398-560).                                     *)
THEOREM CallbacksInPairs == Spec => []CallbacksPaired
<1>1. ASSUME IInv, RInv PROVE CallbacksPaired
  <2> SUFFICES ASSUME main \in {"ending", "returned", "exited"}
               PROVE  /\ started \subseteq completed
                      /\ completed = {t \in Task : recorded[t] # "none"}
                      /\ completed \ started =
                             {t \in Task : recorded[t] = "skipped" /\ NeedsBlocked(t)}
    BY DEF CallbacksPaired
  <2>1. \A t \in Task : recorded[t] = outcome[t] /\ pc[t] \in {"idle", "done"}
    BY <1>1, RecordedAtRest DEF IInv, PhaseInv
  <2>2. CallInv /\ started \subseteq Task
    BY <1>1 DEF RInv, IInv, TypeInv
  <2>3. \A t \in started : ~NeedsBlocked(t)
    BY <2>2 DEF CallInv, NeedsBlocked
  <2> QED
    BY <2>1, <2>2, <2>3 DEF CallInv
<1> QED
  BY <1>1, ReportsInvariant, PTL

(* The success hook means that every planned task has a result and none is  *)
(* a failure (scheduler.go 342-352).                                        *)
THEOREM SuccessHookCorrect == Spec => []SuccessHookSound
<1>1. ASSUME IInv, RInv PROVE SuccessHookSound
  <2> SUFFICES ASSUME hook = "success", NEW t \in PlanTasks
               PROVE  recorded[t] \in Outcome /\ ~IsFailure(recorded[t])
    BY DEF SuccessHookSound
  <2>1. main # "collecting" /\ level = Len(plan) /\ ~Cancelled /\ failures = 0
    BY <1>1 DEF RInv, HookInv
  <2>2. t \in Task /\ recorded[t] \in Outcome
    BY <1>1, <2>1, AllRecorded
  <2>3. Failed = {}
    BY <1>1, <2>1, FS_EmptySet DEF RInv, SummaryInv
  <2> QED
    BY <2>2, <2>3 DEF Failed
<1> QED
  BY <1>1, ReportsInvariant, PTL

(* After Run has returned no callback, no result and no new save: only the  *)
(* saves under way end, so the caller's wait covers them all                *)
(* (scheduler.go 350-371).                                                  *)
THEOREM QuietInTheEnd == Spec => QuietAfterReturn
<1>1. ASSUME IInv, [Next]_vars, main \in {"returned", "error", "exited"}
      PROVE  UNCHANGED <<started, completed, recorded, pc>> /\ saving' \subseteq saving
  <2>1. ~StartLevel /\ ~Collect /\ ~(\E t \in Task : TaskStep(t))
    BY <1>1, TaskStepFrame DEF StartLevel, Collect, IInv, PhaseInv
  <2>2. saving' \subseteq saving
    BY <1>1, <2>1 DEF Next, MainStep, BeginRun, CloseLevel, EndLevels, DispatchEndHook,
       WaitCacheSaves, FinishSave, CancelByCaller, vars
  <2> QED
    BY <1>1, <2>1, <2>2, OtherFrame
<1> QED
  BY <1>1, Invariance, PTL DEF Spec, QuietAfterReturn

--------------------------------------------------------------------------------
(* The refinement.  A settled dependency that does not block has passed.    *)
LEMMA StatusSettled ==
    ASSUME IInv, NEW t \in Task
    PROVE  /\ outcome[t] = "none" /\ pc[t] \notin {"started", "executing"} => StatusOf(t) = "idle"
           /\ pc[t] \in {"started", "executing"} <=> StatusOf(t) = "active"
           /\ outcome[t] \in Outcome /\ ~Blocks(outcome[t]) =>
                  StatusOf(t) \in {"passed", "waived"}
           /\ Blocks(outcome[t]) => StatusOf(t) \in {"failed", "blocked"}
           /\ outcome[t] \in Outcome => StatusOf(t) \in {"passed", "waived", "failed", "blocked"}
<1>1. outcome[t] \in Outcome \cup {"none"} /\ (outcome[t] # "none" => pc[t] \notin {"started", "executing"})
  BY DEF IInv, TypeInv, ResultInv
<1> QED
  BY <1>1 DEF StatusOf, Blocks, IsSuccess, IsFailure, Outcome

(* A step that leaves goroutines and results alone leaves every status.     *)
LEMMA StatusStays ==
    ASSUME NEW t \in Task, outcome'[t] = outcome[t],
           (pc'[t] \in {"started", "executing"}) <=> (pc[t] \in {"started", "executing"})
    PROVE  StatusOf(t)' = StatusOf(t)
BY DEF StatusOf

LEMMA RunInit == Init => Run!Init
<1> SUFFICES ASSUME Init PROVE Run!Init
  OBVIOUS
<1>1. \A t \in Task : StatusOf(t) = "idle"
  BY DEF Init, StatusOf, IsFailure, Outcome
<1>2. PlanTasks \in SUBSET Task
  BY PlansAssumption DEF Init, PlanTasks
<1> QED
  BY <1>1, <1>2 DEF Init, Run!Init, Cancelled

(* A task's step begins, waives, blocks or ends the task, stops the run, or *)
(* does not show.                                                           *)
LEMMA RunTaskStep ==
    ASSUME IInv, NEW u \in Task, TaskStep(u)
    PROVE  Run!Next \/ UNCHANGED Run!vars
<1> DEFINE status == [t \in Task |-> StatusOf(t)]
<1> DEFINE over == main \in {"returned", "error", "exited"}
<1>1. /\ recorded' = recorded /\ PlanTasks' = PlanTasks /\ main' = main /\ main = "collecting"
      /\ \A t \in Task \ {u} : pc'[t] = pc[t] /\ outcome'[t] = outcome[t]
  BY TaskStepFrame DEF IInv, PhaseInv, PlanTasks
<1>2. ~over /\ over' = over
  BY <1>1
<1>3. \A t \in Task \ {u} : StatusOf(t)' = StatusOf(t)
  BY <1>1, StatusStays
<1>4. status' = [status EXCEPT ![u] = StatusOf(u)']
  BY <1>3
<1>5. u \in PlanTasks
  <2>1. pc[u] # "idle"
    BY TaskStepFrame DEF IInv
  <2>2. PICK i \in 1 .. level : u \in plan[i]
    BY <2>1 DEF IInv, LevelInv
  <2>3. i \in DOMAIN plan
    BY <2>2, PlanShape DEF IInv, TypeInv
  <2> QED
    BY <2>2, <2>3 DEF PlanTasks
<1>6. \A d \in Needs[u] : d \in Task
  BY NeedsAssumption
<1>7. \A d \in Task : recorded[d] # "none" => recorded[d] = outcome[d]
  BY DEF IInv, ResultInv
<1>8. /\ pc \in [Task -> {"idle", "acquiring", "checking", "started", "executing",
                          "settled", "sent", "done"}]
      /\ outcome \in [Task -> Outcome \cup {"none"}]
      /\ pc[u] \in {"acquiring", "checking", "started", "executing"} => outcome[u] = "none"
  BY DEF IInv, TypeInv, ResultInv
<1>9. pc[u] = "checking" => status[u] = "idle"
  BY <1>8, StatusSettled
<1>10. ASSUME pc[u] = "checking", ~NeedsBlocked(u)
       PROVE  \A d \in Needs[u] : status[d] \in {"passed", "waived"}
  <2> SUFFICES ASSUME NEW d \in Needs[u] PROVE StatusOf(d) \in {"passed", "waived"}
    BY <1>6
  <2>1. recorded[d] \in Outcome /\ ~Blocks(recorded[d])
    BY <1>10, NeedsRecorded DEF NeedsBlocked
  <2> QED
    BY <1>6, <1>7, <2>1, StatusSettled DEF Outcome
<1>11. CASE Acquire(u) \/ Abandon(u) \/ MissCache(u) \/ Send(u)
  <2>1. /\ outcome' = outcome /\ cancelledBy' = cancelledBy
        /\ (pc'[u] \in {"started", "executing"}) <=> (pc[u] \in {"started", "executing"})
    BY <1>8, <1>11 DEF Acquire, Abandon, MissCache, Send
  <2>2. StatusOf(u)' = StatusOf(u) /\ Cancelled' = Cancelled
    BY <2>1, StatusStays DEF Cancelled
  <2>3. status' = status
    BY <1>3, <2>2
  <2> QED
    BY <1>1, <1>2, <2>2, <2>3 DEF Run!vars
<1>12. CASE Leave(u)
  <2>1. /\ outcome' = outcome
        /\ (pc'[u] \in {"started", "executing"}) <=> (pc[u] \in {"started", "executing"})
        /\ cancelledBy' # cancelledBy => ~Cancelled /\ cancelledBy' = "failure"
    BY <1>8, <1>12 DEF Leave
  <2>2. status' = status
    BY <1>3, <2>1, StatusStays
  <2>3. CASE cancelledBy' = cancelledBy
    BY <1>1, <1>2, <2>2, <2>3 DEF Run!vars, Cancelled
  <2>4. CASE cancelledBy' # cancelledBy
    <3>1. ~Cancelled /\ Cancelled'
      BY <2>1, <2>4 DEF Cancelled
    <3>2. Run!Stop
      BY <1>1, <1>2, <2>2, <3>1 DEF Run!Stop
    <3> QED
      BY <3>2 DEF Run!Next
  <2> QED
    BY <2>3, <2>4
<1>13. CASE SkipOnNeed(u)
  <2>1. /\ pc[u] = "checking" /\ NeedsBlocked(u) /\ cancelledBy' = cancelledBy
        /\ pc'[u] = "settled" /\ outcome'[u] = "skipped"
    BY <1>8, <1>13 DEF SkipOnNeed
  <2>2. StatusOf(u)' = "blocked"
    BY <2>1 DEF StatusOf, IsFailure, IsSuccess, Outcome
  <2>3. PICK d \in Needs[u] : Blocks(recorded[d])
    BY <2>1 DEF NeedsBlocked
  <2>4. status[d] \in {"failed", "blocked"}
    BY <1>6, <1>7, <2>3, StatusSettled DEF Blocks, Outcome
  <2>5. Run!Block(u)
    BY <1>1, <1>2, <1>4, <1>5, <1>9, <2>1, <2>2, <2>4 DEF Run!Block, Run!Settle, Cancelled
  <2> QED
    BY <2>5 DEF Run!Next
<1>14. CASE SkipOnCondition(u)
  <2>1. /\ pc[u] = "checking" /\ ~NeedsBlocked(u) /\ cancelledBy' = cancelledBy
        /\ pc'[u] = "settled" /\ outcome'[u] = "waived"
    BY <1>8, <1>14 DEF SkipOnCondition
  <2>2. StatusOf(u)' = "waived"
    BY <2>1 DEF StatusOf, IsFailure, IsSuccess, Outcome
  <2>3. Run!Waive(u)
    BY <1>1, <1>2, <1>4, <1>5, <1>9, <1>10, <2>1, <2>2
       DEF Run!Waive, Run!Settle, Run!Passes, Cancelled
  <2> QED
    BY <2>3 DEF Run!Next
<1>15. CASE Start(u)
  <2>1. /\ pc[u] = "checking" /\ ~NeedsBlocked(u) /\ cancelledBy' = cancelledBy
        /\ pc'[u] = "started" /\ outcome'[u] = "none"
    BY <1>8, <1>15 DEF Start
  <2>2. StatusOf(u)' = "active"
    BY <2>1 DEF StatusOf, IsFailure, IsSuccess, Outcome
  <2>3. Run!Begin(u)
    BY <1>1, <1>2, <1>4, <1>5, <1>9, <1>10, <2>1, <2>2
       DEF Run!Begin, Run!Settle, Run!Passes, Cancelled
  <2> QED
    BY <2>3 DEF Run!Next
<1>16. CASE RestoreFromCache(u) \/ Execute(u)
  <2>1. /\ pc[u] \in {"started", "executing"} /\ pc'[u] = "settled" /\ cancelledBy' = cancelledBy
        /\ outcome'[u] \in Outcome \ {"waived"}
    BY <1>8, <1>16 DEF RestoreFromCache, Execute, ExecutionOutcomes, Outcome
  <2>2. StatusOf(u)' \in {"passed", "failed", "blocked"}
    BY <2>1 DEF StatusOf, IsFailure, IsSuccess, Outcome
  <2>3. status[u] = "active"
    BY <2>1, StatusSettled
  <2>4. Run!End(u)
    BY <1>1, <1>2, <1>4, <2>1, <2>2, <2>3 DEF Run!End, Run!Settle, Cancelled
  <2> QED
    BY <2>4 DEF Run!Next
<1> QED
  BY <1>11, <1>12, <1>13, <1>14, <1>15, <1>16 DEF TaskStep

(* The other steps finish the run, stop it, or do not show.                 *)
LEMMA RunMainStep ==
    ASSUME IInv, RInv, [Next]_vars, ~(\E t \in Task : TaskStep(t))
    PROVE  Run!Next \/ UNCHANGED Run!vars
<1> DEFINE status == [t \in Task |-> StatusOf(t)]
<1>1. plan' = plan /\ outcome' = outcome
  BY DEF Next, MainStep, BeginRun, StartLevel, Collect, CloseLevel, EndLevels, DispatchEndHook,
     WaitCacheSaves, FinishSave, CancelByCaller, vars
<1>2. PlanTasks' = PlanTasks
  BY <1>1 DEF PlanTasks
<1>3. \A t \in Task : (pc'[t] \in {"started", "executing"}) <=> (pc[t] \in {"started", "executing"})
  BY DEF Next, MainStep, BeginRun, StartLevel, Collect, CloseLevel, EndLevels, DispatchEndHook,
     WaitCacheSaves, FinishSave, CancelByCaller, vars, IInv, TypeInv, PhaseInv
<1>4. status' = status
  <2>1. \A t \in Task : StatusOf(t)' = StatusOf(t)
    BY <1>1, <1>3, StatusStays
  <2> QED
    BY <2>1
<1>5. CASE CancelByCaller
  <2>1. main' = main /\ main \notin {"returned", "error", "exited"} /\ ~Cancelled /\ Cancelled'
    BY <1>5 DEF CancelByCaller, Cancelled
  <2>2. Run!Stop
    BY <1>2, <1>4, <2>1 DEF Run!Stop
  <2> QED
    BY <2>2 DEF Run!Next
<1>6. CASE BeginRun /\ main' # "between"
  <2>1. main = "starting" /\ main' \in {"returned", "error"} /\ cancelledBy' = cancelledBy
    BY <1>6 DEF BeginRun
  <2>2. \A t \in Task : status[t] = "idle"
    <3> SUFFICES ASSUME NEW t \in Task PROVE StatusOf(t) = "idle"
      OBVIOUS
    <3>1. level = 0
      BY <2>1 DEF RInv, EndInv
    <3>2. pc[t] = "idle"
      BY <3>1 DEF IInv, LevelInv
    <3>3. outcome[t] = "none"
      BY <3>2 DEF IInv, ResultInv
    <3> QED
      BY <3>2, <3>3, StatusSettled
  <2>3. PlanTasks \subseteq Task
    BY PlanShape DEF IInv, PlanTasks
  <2>4. Run!Finish
    BY <1>2, <1>4, <2>1, <2>2, <2>3 DEF Run!Finish, Cancelled
  <2> QED
    BY <2>4 DEF Run!Next
<1>7. CASE DispatchEndHook
  <2>1. main = "ending" /\ main' = "returned" /\ cancelledBy' = cancelledBy
    BY <1>7 DEF DispatchEndHook
  <2>2. PlanTasks \subseteq Task
    BY PlanShape DEF IInv, PlanTasks
  <2>3. CASE Cancelled
    <3>1. \A t \in Task : status[t] # "active"
      BY <2>1, StatusSettled DEF IInv, PhaseInv
    <3>2. Run!Finish
      BY <1>2, <1>4, <2>1, <2>2, <2>3, <3>1 DEF Run!Finish, Cancelled
    <3> QED
      BY <3>2 DEF Run!Next
  <2>4. CASE ~Cancelled
    <3>1. level = Len(plan)
      BY <2>1, <2>4 DEF RInv, EndInv
    <3>2. ASSUME NEW t \in PlanTasks PROVE status[t] \in {"passed", "failed", "blocked", "waived"}
      <4>1. t \in Task /\ outcome[t] \in Outcome
        BY <2>1, <2>4, <3>1, AllRecorded, RecordedAtRest
      <4> QED
        BY <4>1, StatusSettled
    <3>3. Run!Finish
      BY <1>2, <1>4, <2>1, <3>2 DEF Run!Finish, Run!Settled, Cancelled
    <3> QED
      BY <3>3 DEF Run!Next
  <2> QED
    BY <2>3, <2>4
<1>8. CASE ~CancelByCaller /\ ~DispatchEndHook /\ ~(BeginRun /\ main' # "between")
  <2>1. /\ cancelledBy' = cancelledBy
        /\ (main' \in {"returned", "error", "exited"}) <=> (main \in {"returned", "error", "exited"})
    BY <1>8 DEF Next, MainStep, BeginRun, StartLevel, Collect, CloseLevel, EndLevels,
       WaitCacheSaves, FinishSave, vars
  <2> QED
    BY <1>2, <1>4, <2>1 DEF Run!vars, Cancelled
<1> QED
  BY <1>5, <1>6, <1>7, <1>8

(* The scheduler implements the abstract run: with levels, slots, channel,  *)
(* cache and collector it does nothing that DagRun does not allow.          *)
THEOREM Refinement == Spec => ImplementsDagRun
<1>1. IInv /\ RInv /\ [Next]_vars => [Run!Next]_Run!vars
  BY RunTaskStep, RunMainStep
<1> QED
  BY <1>1, RunInit, ReportsInvariant, PTL DEF Spec, ImplementsDagRun, Run!Spec

--------------------------------------------------------------------------------
(* The guards of a task's goroutine and of its save, and those of Run.      *)
CanStep(t) ==
    \/ pc[t] = "acquiring" /\ (sem < opts.parallelism \/ Cancelled)
    \/ pc[t] \in {"checking", "started", "settled", "sent"}
    \/ pc[t] = "executing" /\ ExecutionOutcomes(t) # {}
    \/ t \in saving
MainCanStep ==
    \/ main \in {"starting", "ending"}
    \/ main = "between" /\ (Cancelled \/ level < Len(plan) \/ level = Len(plan))
    \/ main = "collecting" /\ (channel # <<>> \/ \A t \in plan[level] : pc[t] = "done")
    \/ main \in {"returned", "error"} /\ saving = {}

(* Whatever happened, somebody can go on until the caller exits; and whoever*)
(* waits for a slot finds one, or somebody who has one and waits for nobody.*)
NeverStuck ==
    /\ main # "exited" => MainCanStep \/ \E t \in Task : CanStep(t)
    /\ \A t \in Task : pc[t] = "acquiring" =>
           CanStep(t) \/ \E u \in HasSlot : CanStep(u)

(* How far a goroutine is, and how far Run is within a level.               *)
Stage(p) ==
    CASE p = "idle" -> 0 [] p = "acquiring" -> 1 [] p = "checking" -> 2
      [] p = "started" -> 3 [] p = "executing" -> 4 [] p = "settled" -> 5
      [] p = "sent" -> 6 [] OTHER -> 7
MainStage(m) ==
    CASE m = "starting" -> 0 [] m = "collecting" -> 1 [] m = "between" -> 2
      [] m = "ending" -> 3 [] m \in {"returned", "error"} -> 4 [] OTHER -> 5

(* What a step uses up, in this order: the levels, the stages of the        *)
(* goroutines, the results in the channel, the stages of Run in a level, the*)
(* saves, the one cancellation.                                             *)
RunGoesOn ==
    \/ level < level'
    \/ /\ UNCHANGED level
       /\ \E t \in Task : /\ Stage(pc[t]) < Stage(pc'[t])
                          /\ \A u \in Task \ {t} : pc'[u] = pc[u]
    \/ UNCHANGED <<level, pc>> /\ Len(channel') < Len(channel)
    \/ UNCHANGED <<level, pc, channel>> /\ MainStage(main) < MainStage(main')
    \/ /\ UNCHANGED <<level, pc, channel, main>>
       /\ saving' \subseteq saving /\ saving' # saving
    \/ UNCHANGED <<level, pc, channel, main, saving>> /\ ~Cancelled /\ Cancelled'

(* An execution has some result, whatever the options and the context.      *)
LEMMA ExecutionEnds ==
    ASSUME NEW t \in Task
    PROVE  ExecutionOutcomes(t) # {}
<1>1. CASE Kind[t] = "remote" \/ ~opts.dryRun
  <2>1. "success" \in ExecutionOutcomes(t)
    BY <1>1 DEF ExecutionOutcomes, Outcome
  <2> QED
    BY <2>1
<1>2. CASE ~(Kind[t] = "remote" \/ ~opts.dryRun)
  <2>1. "skipped" \in ExecutionOutcomes(t)
    BY <1>2 DEF ExecutionOutcomes, Outcome
  <2> QED
    BY <2>1
<1> QED
  BY <1>1, <1>2

(* Run never hangs, for every workflow, valid plan and options: neither on  *)
(* the semaphore, nor on a level whose goroutines were cancelled, nor on the*)
(* collector (scheduler.go 282-338).                                        *)
THEOREM Unstuck == Spec => []NeverStuck
<1>1. IInv => NeverStuck
  <2> SUFFICES ASSUME IInv PROVE NeverStuck
    OBVIOUS
  <2>0. /\ \A t \in HasSlot : t \in Task /\ CanStep(t)
        /\ opts.parallelism \in Nat \ {0}
    BY ExecutionEnds, OptionsAssumption DEF HasSlot, CanStep, IInv, TypeInv
  <2>1. ASSUME NEW t \in Task, pc[t] = "acquiring"
        PROVE  CanStep(t) \/ \E u \in HasSlot : CanStep(u)
    <3>1. CASE HasSlot = {}
      <4>1. sem = 0
        BY <3>1, FS_EmptySet DEF IInv, SlotInv
      <4> QED
        BY <2>0, <2>1, <4>1 DEF CanStep
    <3> QED
      BY <2>0, <3>1
  <2>2. ASSUME main # "exited" PROVE MainCanStep \/ \E t \in Task : CanStep(t)
    <3>1. CASE main \in {"starting", "between", "ending"}
      <4>1. level \in 0 .. Len(plan) /\ Len(plan) \in Nat
        BY PlansAssumption DEF IInv, TypeInv
      <4>2. level < Len(plan) \/ level = Len(plan)
        BY <4>1
      <4> QED
        BY <3>1, <4>2 DEF MainCanStep
    <3>2. CASE main \in {"returned", "error"}
      BY <3>2 DEF MainCanStep, CanStep, IInv, TypeInv
    <3>3. CASE main = "collecting"
      <4>1. level \in DOMAIN plan /\ plan[level] \subseteq Task
        <5>1. level >= 1 /\ level \in 0 .. Len(plan) /\ plan \in Seq(SUBSET Task)
          BY <3>3, PlansAssumption DEF IInv, TypeInv, PhaseInv
        <5> QED
          BY <5>1
      <4>2. CASE \A t \in plan[level] : pc[t] = "done"
        BY <3>3, <4>2 DEF MainCanStep
      <4>3. CASE \E t \in plan[level] : pc[t] # "done"
        <5>1. PICK t \in plan[level] : pc[t] # "done"
          BY <4>3
        <5>2. t \in Task /\ pc[t] # "idle"
          <6>1. level \in 1 .. level
            BY <3>3 DEF IInv, TypeInv, PhaseInv
          <6> QED
            BY <4>1, <5>1, <6>1 DEF IInv, LevelInv
        <5>3. pc[t] = "acquiring" \/ t \in HasSlot
          BY <5>1, <5>2 DEF HasSlot, IInv, TypeInv
        <5> QED
          BY <2>0, <2>1, <5>2, <5>3
      <4> QED
        BY <4>2, <4>3
    <3> QED
      BY <2>2, <3>1, <3>2, <3>3 DEF IInv, TypeInv
  <2> QED
    BY <2>1, <2>2 DEF NeverStuck
<1> QED
  BY <1>1, Invariance, PTL

(* Every step of a run brings its end nearer, in the order of RunGoesOn: no *)
(* goroutine goes back, no result comes twice, no level begins again, no    *)
(* save is started twice (scheduler.go 282-338).                            *)
THEOREM RunAdvances == Spec => [][RunGoesOn]_vars
<1>1. IInv /\ [Next]_vars => [RunGoesOn]_vars
  <2> SUFFICES ASSUME IInv, Next PROVE RunGoesOn
    OBVIOUS
  <2>0. /\ pc \in [Task -> {"idle", "acquiring", "checking", "started", "executing",
                            "settled", "sent", "done"}]
        /\ channel \in Seq(Task) /\ level \in Nat
    BY DEF IInv, TypeInv
  <2>1. ASSUME NEW t \in Task, TaskStep(t) PROVE RunGoesOn
    <3>1. level' = level
      BY <2>1 DEF TaskStep, Acquire, Abandon, SkipOnNeed, SkipOnCondition, Start,
                  RestoreFromCache, MissCache, Execute, Send, Leave
    <3>2. \E s \in {"checking", "started", "executing", "settled", "sent", "done"} :
              pc' = [pc EXCEPT ![t] = s] /\ Stage(pc[t]) < Stage(s)
      BY <2>1 DEF TaskStep, Acquire, Abandon, SkipOnNeed, SkipOnCondition, Start,
                  RestoreFromCache, MissCache, Execute, Send, Leave, Stage
    <3> QED
      BY <2>0, <3>1, <3>2 DEF RunGoesOn
  <2>2. CASE StartLevel
    BY <2>0, <2>2 DEF StartLevel, RunGoesOn
  <2>3. CASE Collect
    <3>1. channel' = Tail(channel) /\ channel # <<>> /\ UNCHANGED <<level, pc>>
      BY <2>3 DEF Collect
    <3>2. Len(channel') < Len(channel)
      BY ONLY <2>0, <3>1
    <3> QED
      BY <3>1, <3>2 DEF RunGoesOn
  <2>4. CASE BeginRun \/ CloseLevel \/ EndLevels \/ DispatchEndHook \/ WaitCacheSaves
    BY <2>4 DEF BeginRun, CloseLevel, EndLevels, DispatchEndHook, WaitCacheSaves, MainStage,
                RunGoesOn
  <2>5. ASSUME NEW t \in Task, FinishSave(t) PROVE RunGoesOn
    BY <2>5 DEF FinishSave, RunGoesOn
  <2>6. CASE CancelByCaller
    BY <2>6 DEF CancelByCaller, Cancelled, RunGoesOn
  <2> QED
    BY <2>1, <2>2, <2>3, <2>4, <2>5, <2>6 DEF Next, MainStep
<1> QED
  BY <1>1, Invariance, PTL DEF Spec

--------------------------------------------------------------------------------
(* When the failure hook runs.  A failure whose goroutine is done has         *)
(* cancelled a fail-fast run; nothing has failed before the levels; and the    *)
(* hook of a failed run is the failure hook if the context may still be used. *)
FailFastInv ==
    opts.failFast =>
        \A t \in Task : pc[t] = "done" /\ IsFailure(outcome[t]) => Cancelled

DecidedInv ==
    /\ main \in {"starting", "error"} => failures = 0
    /\ main \in {"returned", "exited"} /\ failures > 0 =>
           (~Cancelled /\ ~opts.dryRun => hook = "failure")
    /\ hook = "failure" => failures > 0 /\ ~Cancelled /\ ~opts.dryRun

(* In fail-fast mode and in a dry run the failure hook never runs; otherwise  *)
(* it runs after every failed run that nobody has cancelled, and after no     *)
(* other (scheduler.go 264-266, 311-313, 350-352).                            *)
FailureHookExact ==
    main \in {"returned", "exited"} =>
        ((hook = "failure") <=> (/\ failures > 0 /\ ~opts.failFast /\ ~opts.dryRun
                                 /\ cancelledBy # "caller"))

LEMMA FailFastStep == IInv /\ FailFastInv /\ [Next]_vars => FailFastInv'
<1> SUFFICES ASSUME IInv, FailFastInv, [Next]_vars PROVE FailFastInv'
  OBVIOUS
<1>1. ASSUME NEW u \in Task, TaskStep(u) PROVE FailFastInv'
  <2>1. /\ UNCHANGED opts /\ pc[u] \notin {"idle", "done"}
        /\ \A t \in Task \ {u} : pc'[t] = pc[t] /\ outcome'[t] = outcome[t]
    BY <1>1, TaskStepFrame DEF IInv
  <2>2. CASE Leave(u)
    <3>1. /\ outcome' = outcome
          /\ cancelledBy' = IF opts.failFast /\ IsFailure(outcome[u]) /\ ~Cancelled
                            THEN "failure" ELSE cancelledBy
      BY <2>2 DEF Leave
    <3> QED
      BY <2>1, <3>1 DEF FailFastInv, Cancelled
  <2>3. CASE ~Leave(u)
    <3>1. /\ cancelledBy' = cancelledBy
          /\ pc'[u] = "done" => outcome'[u] \in {"none", "skipped"}
      BY <1>1, <2>3 DEF TaskStep, Acquire, Abandon, SkipOnNeed, SkipOnCondition,
         Start, RestoreFromCache, MissCache, Execute, Send, IInv, TypeInv, ResultInv
    <3>2. ~IsFailure("none") /\ ~IsFailure("skipped")
      BY DEF IsFailure, Outcome
    <3> QED
      BY <2>1, <3>1, <3>2 DEF FailFastInv, Cancelled
  <2> QED
    BY <2>2, <2>3
<1>2. CASE StartLevel \/ Collect
  BY <1>2 DEF StartLevel, Collect, FailFastInv, Cancelled, IInv, TypeInv
<1>3. CASE ~StartLevel /\ ~Collect /\ ~(\E t \in Task : TaskStep(t))
  <2>1. UNCHANGED <<opts, pc, outcome>>
    BY <1>3, OtherFrame
  <2>2. Cancelled => Cancelled'
    BY <1>3 DEF Next, MainStep, BeginRun, CloseLevel, EndLevels, DispatchEndHook,
       WaitCacheSaves, FinishSave, CancelByCaller, vars, Cancelled
  <2> QED
    BY <2>1, <2>2 DEF FailFastInv
<1> QED
  BY <1>1, <1>2, <1>3

LEMMA DecidedStep ==
    IInv /\ RInv /\ DecidedInv /\ [Next]_vars => DecidedInv'
<1> SUFFICES ASSUME IInv, RInv, DecidedInv, [Next]_vars PROVE DecidedInv'
  OBVIOUS
<1>0. HookInv /\ failures \in Nat
  BY FS_CardinalityType DEF RInv, SummaryInv
<1>1. CASE StartLevel \/ Collect
  BY <1>0, <1>1 DEF StartLevel, Collect, DecidedInv, HookInv
<1>2. ASSUME NEW u \in Task, TaskStep(u) PROVE DecidedInv'
  <2>1. /\ UNCHANGED <<opts, main, failures, hook>> /\ main = "collecting"
    BY <1>2, TaskStepFrame DEF IInv, PhaseInv
  <2> QED
    BY <1>0, <2>1 DEF DecidedInv, HookInv
<1>3. CASE ~StartLevel /\ ~Collect /\ ~(\E t \in Task : TaskStep(t))
  <2>1. UNCHANGED <<opts, failures>>
    BY <1>3, OtherFrame
  <2>2. CASE DispatchEndHook
    BY <1>0, <2>1, <2>2 DEF DispatchEndHook, DecidedInv, Cancelled
  <2>3. CASE ~DispatchEndHook
    BY <1>0, <1>3, <2>1, <2>3 DEF Next, MainStep, BeginRun, CloseLevel, EndLevels,
       WaitCacheSaves, FinishSave, CancelByCaller, vars, DecidedInv, HookInv, Cancelled
  <2> QED
    BY <2>2, <2>3
<1> QED
  BY <1>1, <1>2, <1>3

(* The failure hook does not always run (FailureHookRuns): never in fail-fast *)
(* mode, where the failure has cancelled the context, nor in a dry run, and   *)
(* always otherwise, unless the caller cancelled (scheduler.go 264-266,       *)
(* 311-313, 350-352).                                                         *)
THEOREM FailureHookDecided == Spec => []FailureHookExact
<1>1. Init => FailFastInv /\ DecidedInv
  BY DEF Init, FailFastInv, DecidedInv
<1>2. IInv /\ RInv /\ FailFastInv /\ DecidedInv /\ [Next]_vars
          => FailFastInv' /\ DecidedInv'
  BY FailFastStep, DecidedStep
<1>3. IInv /\ RInv /\ FailFastInv /\ DecidedInv => FailureHookExact
  <2> SUFFICES ASSUME IInv, RInv, FailFastInv, DecidedInv, main \in {"returned", "exited"}
               PROVE  (hook = "failure")
                          <=> (/\ failures > 0 /\ ~opts.failFast /\ ~opts.dryRun
                               /\ cancelledBy # "caller")
    BY DEF FailureHookExact
  <2>1. failures > 0 /\ opts.failFast => Cancelled
    <3> SUFFICES ASSUME failures > 0, opts.failFast PROVE Cancelled
      OBVIOUS
    <3>1. Failed # {}
      BY FS_EmptySet DEF RInv, SummaryInv
    <3>2. PICK t \in Task : IsFailure(recorded[t])
      BY <3>1 DEF Failed
    <3>3. recorded[t] = outcome[t] /\ pc[t] = "done"
      <4>1. recorded[t] = outcome[t]
        BY RecordedAtRest
      <4>2. outcome[t] # "none"
        BY <3>2, <4>1 DEF IsFailure, Outcome
      <4>3. pc[t] \in {"idle", "done"} /\ pc[t] \in {"settled", "sent", "done"}
        BY <4>2 DEF IInv, PhaseInv, ResultInv
      <4> QED
        BY <4>1, <4>3
    <3> QED
      BY <3>2, <3>3 DEF FailFastInv
  <2>2. cancelledBy = "failure" => opts.failFast
    BY DEF RInv, EndInv
  <2>3. cancelledBy \in {"nobody", "caller", "failure"}
    BY DEF IInv, TypeInv
  <2> QED
    BY <2>1, <2>2, <2>3 DEF DecidedInv, Cancelled
<1> QED
  BY <1>1, <1>2, <1>3, ReportsInvariant, PTL DEF Spec
================================================================================
