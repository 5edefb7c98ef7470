----------------------------- MODULE CompositeSetup ----------------------------
(***************************************************************************)
(* runCompositeSetup and runCachedCompositeCleanups of the scheduler: the  *)
(* tasks of a run that use the same composite plugin with the same inputs  *)
(* share one set-up through a map of finished set-ups and a singleflight   *)
(* group, their commands run with the environments, and the set-ups are    *)
(* cleaned up when the run has collected its levels.                       *)
(*                                                                         *)
(* singleflight.Group is a library: Do lets the first caller of a key run  *)
(* the function while later callers wait for its result, and forgets the   *)
(* key when the function has returned.  The environment of a set-up is     *)
(* abstracted to its identity.                                             *)
(***************************************************************************)
EXTENDS Naturals, FiniteSets, Sequences

CONSTANTS
    Task,       \* the tasks of the run
    Key,        \* compositeSetupKey: plugin and inputs
    Uses        \* Uses[t]: the keys t sets up, in the order of t.Uses

ASSUME UsesAssumption == Uses \in [Task -> Seq(Key)]

VARIABLES
    at,         \* where task t's goroutine is in the loop over its plugins
    todo,       \* the keys task t has still to set up
    env,        \* the set-ups whose environment t has merged
    entries,    \* setupCache.entries: the stored set-up of a key, 0 if none
    flight,     \* the callers of Do for a key; its leader is in set-up
    count,      \* how many set-ups were executed for a key
    made,       \* executed set-ups that have something to clean up
    cleaned,    \* set-ups whose cleanup has run
    main,       \* where Run is in its loop over the levels
    wg          \* the WaitGroup of the level

vars == <<at, todo, env, entries, flight, count, made, cleaned, main, wg>>

Init ==
    /\ at = [t \in Task |-> "waiting"]
    /\ todo = Uses
    /\ env = [t \in Task |-> {}]
    /\ entries = [k \in Key |-> 0]
    /\ flight = [k \in Key |-> {}]
    /\ count = [k \in Key |-> 0]
    /\ made = {}
    /\ cleaned = {}
    /\ main = "between"
    /\ wg = 0

(* Run starts the goroutine of a task of the level, and counts it.          *)
StartTask(t) ==
    /\ main \in {"between", "starting"} /\ at[t] = "waiting"
    /\ at' = [at EXCEPT ![t] = "started"]
    /\ wg' = wg + 1
    /\ main' = "starting"
    /\ UNCHANGED <<todo, env, entries, flight, count, made, cleaned>>

(* The goroutines of the level are started: Run collects their results.     *)
AllStarted ==
    /\ main = "starting"
    /\ main' = "collect"
    /\ UNCHANGED <<at, todo, env, entries, flight, count, made, cleaned, wg>>

(* Faulty: the first result ends the collecting.                            *)
Collected_First ==
    /\ main = "collect" /\ \E t \in Task : at[t] = "left"
    /\ main' = "between"
    /\ UNCHANGED <<at, todo, env, entries, flight, count, made, cleaned, wg>>

(* The channel of results is closed when the WaitGroup is at zero, and ends *)
(* the level.                                                               *)
Collected ==
    /\ main = "collect" /\ wg = 0
    /\ main' = "between"
    /\ UNCHANGED <<at, todo, env, entries, flight, count, made, cleaned, wg>>

(* The task is to be executed: it enters the loop over its plugins.         *)
Arrive(t) ==
    /\ at[t] = "started"
    /\ at' = [at EXCEPT ![t] = IF Uses[t] = <<>> THEN "run" ELSE "look"]
    /\ UNCHANGED <<todo, env, entries, flight, count, made, cleaned, main, wg>>

(* The goroutine is through: the command has ended, or the task did not     *)
(* come to its set-up at all (skipped, cached, no slot before the           *)
(* cancellation).                                                           *)
Leave(t) ==
    /\ at[t] \in {"started", "run"}
    /\ at' = [at EXCEPT ![t] = "left"]
    /\ wg' = wg - 1
    /\ UNCHANGED <<todo, env, entries, flight, count, made, cleaned, main>>

(* Task t has a set-up for its current key: the loop goes on, or ends and   *)
(* the command runs with the environments.                                  *)
Advance(t, n, atWith) ==
    /\ env' = [env EXCEPT ![t] = @ \cup {<<Head(todo[t]), n>>}]
    /\ todo' = [todo EXCEPT ![t] = Tail(@)]
    /\ at' = [atWith EXCEPT ![t] = IF Tail(todo[t]) = <<>> THEN "run" ELSE "look"]

(* The map is read under its mutex: a stored set-up is reused.              *)
Look(t) ==
    /\ at[t] = "look"
    /\ LET n == entries[Head(todo[t])]
       IN  IF n # 0
           THEN Advance(t, n, at)
           ELSE /\ at' = [at EXCEPT ![t] = "call"]
                /\ UNCHANGED <<todo, env>>
    /\ UNCHANGED <<entries, flight, count, made, cleaned, main, wg>>

(* Faulty: the function is called without the group.                        *)
CallDo_Directly(t) ==
    /\ at[t] = "call"
    /\ at' = [at EXCEPT ![t] = "lead"]
    /\ flight' = [flight EXCEPT ![Head(todo[t])] = @ \cup {t}]
    /\ UNCHANGED <<todo, env, entries, count, made, cleaned, main, wg>>

(* group.Do: the first caller leads, the others join and wait.              *)
CallDo(t) ==
    /\ at[t] = "call"
    /\ LET k == Head(todo[t])
       IN  /\ at' = [at EXCEPT ![t] = IF flight[k] = {} THEN "lead" ELSE "join"]
           /\ flight' = [flight EXCEPT ![k] = @ \cup {t}]
    /\ UNCHANGED <<todo, env, entries, count, made, cleaned, main, wg>>

(* The leader executes the steps of the set-up.  It may fail before its    *)
(* first step, and then leaves nothing to clean up.                         *)
ExecuteSetup(t) ==
    /\ at[t] = "lead"
    /\ LET k == Head(todo[t])
       IN  /\ count' = [count EXCEPT ![k] = @ + 1]
           /\ made' \in {made, made \cup {<<k, count'[k]>>}}
    /\ at' = [at EXCEPT ![t] = "store"]
    /\ UNCHANGED <<todo, env, entries, flight, cleaned, main, wg>>

(* It stores the entry under the mutex, failed or not.                      *)
StoreEntry(t) ==
    /\ at[t] = "store"
    /\ LET k == Head(todo[t]) IN entries' = [entries EXCEPT ![k] = count[k]]
    /\ at' = [at EXCEPT ![t] = "return"]
    /\ UNCHANGED <<todo, env, flight, count, made, cleaned, main, wg>>

(* Faulty: only the leader is given the result.                             *)
ReturnDo_LeaderOnly(t) ==
    /\ at[t] = "return"
    /\ LET k == Head(todo[t])
       IN  /\ Advance(t, count[k], at)
           /\ flight' = [flight EXCEPT ![k] = {}]
    /\ UNCHANGED <<entries, count, made, cleaned, main, wg>>

(* Do returns: the key is forgotten, everyone waiting shares the result.    *)
ReturnDo(t) ==
    /\ at[t] = "return"
    /\ LET k == Head(todo[t])
           n == count[k]
           sharing == flight[k]
       IN  /\ env' = [u \in Task |-> IF u \in sharing THEN env[u] \cup {<<k, n>>}
                                     ELSE env[u]]
           /\ todo' = [u \in Task |-> IF u \in sharing THEN Tail(todo[u])
                                      ELSE todo[u]]
           /\ at' = [u \in Task |-> IF u \notin sharing THEN at[u]
                                    ELSE IF todo'[u] = <<>> THEN "run" ELSE "look"]
           /\ flight' = [flight EXCEPT ![k] = {}]
    /\ UNCHANGED <<entries, count, made, cleaned, main, wg>>

(* Faulty: a set-up that left nothing to clean up is cleaned up as well.    *)
RunCleanups_AllStored ==
    /\ main = "between"
    /\ cleaned' = {<<k, entries[k]>> : k \in {j \in Key : entries[j] # 0}}
    /\ main' = "ended"
    /\ UNCHANGED <<at, todo, env, entries, flight, count, made, wg>>

(* After its last level, or with its context cancelled before a level, Run  *)
(* cleans up every stored set-up; tasks not started stay out.               *)
RunCleanups ==
    /\ main = "between"
    /\ cleaned' = {e \in made : entries[e[1]] = e[2]}
    /\ main' = "ended"
    /\ UNCHANGED <<at, todo, env, entries, flight, count, made, wg>>

TaskStep(t) ==
    \/ Look(t) \/ CallDo(t) \/ ExecuteSetup(t) \/ StoreEntry(t) \/ ReturnDo(t)

Next ==
    \/ \E t \in Task : StartTask(t) \/ Arrive(t) \/ TaskStep(t) \/ Leave(t)
    \/ AllStarted \/ Collected \/ RunCleanups

(* Set-up commands end; a running task goroutine is scheduled.              *)
Spec == Init /\ [][Next]_vars /\ \A t \in Task : WF_vars(TaskStep(t))

--------------------------------------------------------------------------------
TypeOK ==
    /\ at \in [Task -> {"waiting", "started", "look", "call", "lead", "join",
                        "store", "return", "run", "left"}]
    /\ todo \in [Task -> Seq(Key)]
    /\ env \in [Task -> SUBSET (Key \X Nat)]
    /\ entries \in [Key -> Nat]
    /\ flight \in [Key -> SUBSET Task]
    /\ count \in [Key -> Nat]
    /\ made \subseteq Key \X Nat
    /\ cleaned \subseteq made
    /\ main \in {"between", "starting", "collect", "ended"}
    /\ wg \in Nat

Leading(k) == {t \in flight[k] : at[t] \in {"lead", "store", "return"}}

(* Two set-ups of the same plugin and inputs never overlap: parallel        *)
(* downloads and extractions cannot corrupt each other (scheduler.go:946).  *)
SetupsDoNotOverlap ==
    \A k \in Key : /\ Cardinality(Leading(k)) <= 1
                   /\ flight[k] # {} => Leading(k) # {}

(* The command of a task runs with the environment of an executed set-up   *)
(* for every plugin the task uses, and no set-up is cleaned up while a      *)
(* goroutine of the run is still setting up or running its command: the     *)
(* cleanups come after the WaitGroup of every level (scheduler.go:283-341). *)
EnvFromSetup ==
    \A t \in Task :
        /\ at[t] = "run" => {e[1] : e \in env[t]} = {Uses[t][i] : i \in DOMAIN Uses[t]}
        /\ \A e \in env[t] : e[2] \in 1 .. count[e[1]]
        /\ at[t] \notin {"waiting", "left"} => cleaned = {}

(* A task that waits for somebody else's set-up gets it, and its command    *)
(* runs.                                                                    *)
JoinersServed ==
    \A t \in Task : at[t] = "join" ~> at[t] = "run"

(* scheduler.go:981: "Use singleflight to ensure setup runs exactly once    *)
(* per (plugin, inputs)."                                                   *)
SetupRunsOnce == \A k \in Key : count[k] <= 1
================================================================================
