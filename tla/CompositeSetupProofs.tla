------------------------- MODULE CompositeSetupProofs --------------------------
(***************************************************************************)
(* Proofs about CompositeSetup, for any tasks and any plugins they use:    *)
(* its types, that set-ups of one plugin do not overlap, that a task gets  *)
(* an environment that exists, that every step makes progress, and how     *)
(* often a set-up can run.                                                 *)
(***************************************************************************)
EXTENDS CompositeSetup, FiniteSetTheorems, TLAPS

InFlight == {"lead", "join", "store", "return"}
Leaders  == {"lead", "store", "return"}
InLoop   == InFlight \cup {"look", "call"}
Keys(s)  == {s[i] : i \in DOMAIN s}
Places   == InLoop \cup {"waiting", "started", "run", "left"}

(* The goroutines that the WaitGroup counts.                                *)
Inside == {t \in Task : at[t] \notin {"waiting", "left"}}

(* A task in the loop has a plugin to set up, one that runs has none.       *)
TypeInv ==
    /\ TypeOK
    /\ \A t \in Task :
           /\ at[t] \in {"waiting", "started"} => todo[t] = Uses[t]
           /\ at[t] \in InLoop => todo[t] # <<>>
           /\ at[t] = "run" => todo[t] = <<>>

(* The callers of Do for a key are the tasks that are in it for that key,   *)
(* and exactly one of them leads.                                           *)
CallersOf(k) ==
    \A t \in Task : (t \in flight[k]) <=> (at[t] \in InFlight /\ Head(todo[t]) = k)
OneLeads(k) ==
    flight[k] # {} =>
        \E l \in flight[k] : \A t \in flight[k] : (at[t] \in Leaders) <=> (t = l)
FlightInv == \A k \in Key : CallersOf(k) /\ OneLeads(k)

(* What is stored or returned was executed.                                 *)
CountInv ==
    /\ \A k \in Key : entries[k] <= count[k]
    /\ \A t \in Task : at[t] \in {"store", "return"} => count[Head(todo[t])] >= 1

(* Between them, what a task has and what it has still to do are the        *)
(* plugins it uses, and what it has was executed.                           *)
EnvInv ==
    \A t \in Task :
        /\ {e[1] : e \in env[t]} \cup Keys(todo[t]) = Keys(Uses[t])
        /\ \A e \in env[t] : e[2] \in 1 .. count[e[1]]

(* The WaitGroup counts the goroutines of the level, and there are none     *)
(* between the levels: cleaning up waits for them.                          *)
EndInv ==
    /\ IsFiniteSet(Inside) /\ wg = Cardinality(Inside)
    /\ main \in {"between", "ended"} => Inside = {}
    /\ cleaned # {} => main = "ended"

IInv == TypeInv /\ FlightInv /\ CountInv /\ EnvInv /\ EndInv

USE DEF vars, Places, InLoop, InFlight

--------------------------------------------------------------------------------
(* A list that is not empty holds its head and what is in its tail.         *)
LEMMA KeysOfTail ==
    ASSUME NEW s \in Seq(Key), s # <<>>
    PROVE  /\ Head(s) \in Key /\ Tail(s) \in Seq(Key)
           /\ Keys(s) = {Head(s)} \cup Keys(Tail(s))
<1>1. Head(s) = s[1] /\ 1 \in DOMAIN s /\ s[1] \in Key
  OBVIOUS
<1>2. \A i \in DOMAIN s : i = 1 \/ (i - 1 \in DOMAIN Tail(s) /\ Tail(s)[i - 1] = s[i])
  OBVIOUS
<1>3. \A i \in DOMAIN Tail(s) : i + 1 \in DOMAIN s /\ Tail(s)[i] = s[i + 1]
  OBVIOUS
<1>4. Keys(s) \subseteq {Head(s)} \cup Keys(Tail(s))
  BY <1>1, <1>2 DEF Keys
<1>5. {Head(s)} \cup Keys(Tail(s)) \subseteq Keys(s)
  BY <1>1, <1>3 DEF Keys
<1> QED
  BY <1>1, <1>4, <1>5

(* The current key of a task in the loop.                                   *)
LEMMA Current ==
    ASSUME TypeInv, NEW t \in Task, at[t] \in InLoop
    PROVE  /\ todo[t] \in Seq(Key) /\ todo[t] # <<>>
           /\ Head(todo[t]) \in Key /\ Tail(todo[t]) \in Seq(Key)
           /\ Keys(todo[t]) = {Head(todo[t])} \cup Keys(Tail(todo[t]))
<1>1. todo[t] \in Seq(Key) /\ todo[t] # <<>>
  BY DEF TypeInv, TypeOK
<1> QED
  BY <1>1, KeysOfTail

(* What the return of Do for key k does to every task.                      *)
Returned(t, k) ==
    /\ at[t] = "return" /\ k = Head(todo[t])
    /\ env' = [u \in Task |-> IF u \in flight[k] THEN env[u] \cup {<<k, count[k]>>}
                              ELSE env[u]]
    /\ todo' = [u \in Task |-> IF u \in flight[k] THEN Tail(todo[u]) ELSE todo[u]]
    /\ at' = [u \in Task |-> IF u \notin flight[k] THEN at[u]
                             ELSE IF Tail(todo[u]) = <<>> THEN "run" ELSE "look"]
    /\ flight' = [flight EXCEPT ![k] = {}]
    /\ UNCHANGED <<entries, count, made, cleaned, main, wg>>

LEMMA ReturnEffect ==
    ASSUME IInv, NEW t \in Task, ReturnDo(t)
    PROVE  \E k \in Key :
               /\ Returned(t, k)
               /\ \A u \in flight[k] :
                      /\ u \in Task /\ at[u] \in InFlight /\ Head(todo[u]) = k
                      /\ todo[u] # <<>> /\ Tail(todo[u]) \in Seq(Key)
                      /\ Keys(todo[u]) = {k} \cup Keys(Tail(todo[u]))
<1> DEFINE k == Head(todo[t])
<1>1. at[t] = "return" /\ k \in Key
  BY Current DEF ReturnDo, IInv
<1>2. flight[k] \subseteq Task
  BY <1>1 DEF IInv, TypeInv, TypeOK
<1>3. \A u \in Task : u \in flight[k] => todo'[u] = Tail(todo[u])
  BY <1>1 DEF ReturnDo
<1>4. at' = [u \in Task |-> IF u \notin flight[k] THEN at[u]
                           ELSE IF Tail(todo[u]) = <<>> THEN "run" ELSE "look"]
  BY <1>3 DEF ReturnDo
<1>5. Returned(t, k)
  BY <1>1, <1>4 DEF ReturnDo, Returned
<1>6. ASSUME NEW u \in flight[k]
      PROVE  /\ u \in Task /\ at[u] \in InFlight /\ Head(todo[u]) = k
             /\ todo[u] # <<>> /\ Tail(todo[u]) \in Seq(Key)
             /\ Keys(todo[u]) = {k} \cup Keys(Tail(todo[u]))
  <2>1. u \in Task /\ at[u] \in InFlight /\ Head(todo[u]) = k
    BY <1>1, <1>2 DEF IInv, FlightInv, CallersOf
  <2>2. at[u] \in InLoop
    BY <2>1 DEF InLoop
  <2> QED
    BY <2>1, <2>2, Current DEF IInv
<1> QED
  BY <1>1, <1>5, <1>6

LEMMA InvInit == Init => IInv
<1> SUFFICES ASSUME Init PROVE IInv
  OBVIOUS
<1>1. TypeInv
  BY UsesAssumption DEF Init, TypeInv, TypeOK
<1>2. FlightInv /\ CountInv
  BY DEF Init, FlightInv, CallersOf, OneLeads, CountInv
<1>4. EndInv
  <2>1. Inside = {}
    BY DEF Init, Inside
  <2> QED
    BY <2>1, FS_EmptySet DEF Init, EndInv
<1>3. EnvInv
  BY DEF Init, EnvInv
<1> QED
  BY <1>1, <1>2, <1>3, <1>4 DEF IInv

LEMMA TypeStep == IInv /\ [Next]_vars => TypeInv'
<1> SUFFICES ASSUME IInv, [Next]_vars PROVE TypeInv'
  OBVIOUS
<1> USE DEF IInv, TypeInv, TypeOK
<1>0. wg' \in Nat /\ main' \in {"between", "starting", "collect", "ended"}
  <2>1. ASSUME NEW t \in Task, Leave(t) PROVE wg' \in Nat
    <3>1. t \in Inside /\ IsFiniteSet(Inside) /\ wg = Cardinality(Inside)
      BY <2>1 DEF Leave, EndInv, Inside
    <3>2. wg # 0
      BY <3>1, FS_EmptySet
    <3> QED
      BY <2>1, <3>2 DEF Leave
  <2>2. (\E t \in Task : Leave(t)) \/ wg' \in {wg, wg + 1}
    BY DEF Next, TaskStep, StartTask, AllStarted, Collected, Arrive, Look, CallDo,
           ExecuteSetup, StoreEntry, ReturnDo, RunCleanups
  <2>3. main' \in {main, "between", "starting", "collect", "ended"}
    BY DEF Next, TaskStep, StartTask, AllStarted, Collected, Arrive, Leave, Look, CallDo,
           ExecuteSetup, StoreEntry, ReturnDo, RunCleanups
  <2> QED
    BY <2>1, <2>2, <2>3
<1>1. ASSUME NEW t \in Task, StartTask(t) \/ Arrive(t) \/ Leave(t) PROVE TypeInv'
  BY <1>0, <1>1, UsesAssumption DEF StartTask, Arrive, Leave, InLoop, InFlight, Places
<1>2. ASSUME NEW t \in Task, Look(t) PROVE TypeInv'
  <2> DEFINE k == Head(todo[t])
  <2>1. k \in Key /\ Tail(todo[t]) \in Seq(Key) /\ todo[t] # <<>> /\ at[t] = "look"
    BY <1>2, Current DEF Look
  <2>2. CASE entries[k] # 0
    <3>1. /\ todo' = [todo EXCEPT ![t] = Tail(@)]
          /\ at' = [at EXCEPT ![t] = IF Tail(todo[t]) = <<>> THEN "run" ELSE "look"]
          /\ env' = [env EXCEPT ![t] = @ \cup {<<k, entries[k]>>}]
          /\ UNCHANGED <<entries, flight, count, made, cleaned, main, wg>>
      BY <1>2, <2>2 DEF Look, Advance
    <3>2. <<k, entries[k]>> \in Key \X Nat
      BY <2>1
    <3>3. env' \in [Task -> SUBSET (Key \X Nat)]
      BY <3>1, <3>2
    <3>4. todo' \in [Task -> Seq(Key)]
      BY <2>1, <3>1
    <3>5. \A u \in Task : /\ at'[u] \in {"waiting", "started"} => todo'[u] = Uses[u]
                          /\ at'[u] \in InLoop => todo'[u] # <<>>
                          /\ at'[u] = "run" => todo'[u] = <<>>
      BY <2>1, <3>1 DEF InLoop, InFlight
    <3>6. at' \in [Task -> Places]
      BY <3>1
    <3> QED
      BY <3>1, <3>3, <3>4, <3>5, <3>6
  <2>3. CASE entries[k] = 0
    BY <1>2, <2>1, <2>3 DEF Look
  <2> QED
    BY <2>2, <2>3
<1>3. ASSUME NEW t \in Task, CallDo(t) PROVE TypeInv'
  BY <1>3, Current DEF CallDo
<1>4. ASSUME NEW t \in Task, ExecuteSetup(t) PROVE TypeInv'
  <2> DEFINE k == Head(todo[t])
  <2>1. k \in Key /\ todo[t] # <<>>
    BY <1>4, Current DEF ExecuteSetup
  <2>2. count' = [count EXCEPT ![k] = @ + 1] /\ made' \in {made, made \cup {<<k, count'[k]>>}}
    BY <1>4 DEF ExecuteSetup
  <2>3. count' \in [Key -> Nat] /\ count'[k] \in Nat
    BY <2>1, <2>2
  <2>4. <<k, count'[k]>> \in Key \X Nat
    BY <2>1, <2>3
  <2>5. made \subseteq made' /\ made' \subseteq Key \X Nat
    BY <2>2, <2>4
  <2>6. /\ at' = [at EXCEPT ![t] = "store"] /\ at[t] = "lead"
        /\ UNCHANGED <<todo, env, entries, flight, cleaned, main, wg>>
    BY <1>4 DEF ExecuteSetup
  <2> QED
    BY <2>1, <2>3, <2>5, <2>6
<1>5. ASSUME NEW t \in Task, StoreEntry(t) PROVE TypeInv'
  BY <1>5, Current DEF StoreEntry
<1>6. ASSUME NEW t \in Task, ReturnDo(t) PROVE TypeInv'
  <2>1. PICK k \in Key :
            /\ Returned(t, k)
            /\ \A u \in flight[k] : at[u] \in InFlight /\ Tail(todo[u]) \in Seq(Key)
    BY <1>6, ReturnEffect
  <2>2. <<k, count[k]>> \in Key \X Nat
    OBVIOUS
  <2>3. env' \in [Task -> SUBSET (Key \X Nat)]
    BY <2>1, <2>2 DEF Returned
  <2>4. \A u \in Task : /\ todo'[u] \in Seq(Key)
                        /\ at'[u] \in {"waiting", "started"} => todo'[u] = Uses[u]
                        /\ at'[u] \in InLoop => todo'[u] # <<>>
                        /\ at'[u] = "run" => todo'[u] = <<>>
    BY <2>1 DEF Returned, InFlight, InLoop
  <2>5. /\ todo' \in [Task -> Seq(Key)]
        /\ at' \in [Task -> Places]
    BY <2>1, <2>4 DEF Returned
  <2>6. flight' \in [Key -> SUBSET Task] /\ UNCHANGED <<entries, count, made, cleaned, main, wg>>
    BY <2>1 DEF Returned
  <2> QED
    BY <2>3, <2>4, <2>5, <2>6
<1>7. CASE AllStarted \/ Collected \/ RunCleanups
  BY <1>0, <1>7 DEF AllStarted, Collected, RunCleanups
<1>8. CASE UNCHANGED vars
  BY <1>8
<1> QED
  BY ONLY [Next]_vars, <1>1, <1>2, <1>3, <1>4, <1>5, <1>6, <1>7, <1>8 DEF Next, TaskStep

(* A task that is in no call, before and after, does not change the calls.  *)
LEMMA FlightFrame ==
    ASSUME FlightInv, NEW t \in Task, at[t] \notin InFlight, at'[t] \notin InFlight,
           \A u \in Task \ {t} : at'[u] = at[u] /\ todo'[u] = todo[u],
           UNCHANGED flight, \A k \in Key : flight[k] \subseteq Task
    PROVE  FlightInv'
<1> SUFFICES ASSUME NEW k \in Key PROVE CallersOf(k)' /\ OneLeads(k)'
  BY DEF FlightInv
<1>1. CallersOf(k) /\ OneLeads(k) /\ flight'[k] = flight[k]
  BY DEF FlightInv
<1>2. CallersOf(k)'
  BY <1>1 DEF CallersOf
<1>3. t \notin flight[k]
  BY <1>1 DEF CallersOf
<1> QED
  BY <1>1, <1>2, <1>3 DEF OneLeads

(* The leader goes on leading the same call.                                *)
LEMMA FlightLeads ==
    ASSUME FlightInv, NEW t \in Task, at[t] \in Leaders, at'[t] \in Leaders,
           \A u \in Task \ {t} : at'[u] = at[u],
           UNCHANGED <<flight, todo>>, \A k \in Key : flight[k] \subseteq Task
    PROVE  FlightInv'
<1> SUFFICES ASSUME NEW k \in Key PROVE CallersOf(k)' /\ OneLeads(k)'
  BY DEF FlightInv
<1>1. CallersOf(k) /\ OneLeads(k) /\ flight'[k] = flight[k] /\ todo' = todo
  BY DEF FlightInv
<1>2. \A u \in Task : /\ (at'[u] \in InFlight) <=> (at[u] \in InFlight)
                      /\ (at'[u] \in Leaders) <=> (at[u] \in Leaders)
  BY DEF InFlight, Leaders
<1>3. CallersOf(k)'
  BY <1>1, <1>2 DEF CallersOf
<1> QED
  BY <1>1, <1>2, <1>3 DEF OneLeads

LEMMA FlightStep == IInv /\ [Next]_vars => FlightInv'
<1> SUFFICES ASSUME IInv, [Next]_vars PROVE FlightInv'
  OBVIOUS
<1>0. /\ FlightInv /\ TypeInv
      /\ at \in [Task -> Places]
      /\ flight \in [Key -> SUBSET Task] /\ todo \in [Task -> Seq(Key)]
      /\ \A k \in Key : flight[k] \subseteq Task
  BY DEF IInv, TypeInv, TypeOK
<1>1. ASSUME NEW t \in Task, StartTask(t) \/ Arrive(t) \/ Leave(t) PROVE FlightInv'
  <2>1. at[t] \notin InFlight /\ at'[t] \notin InFlight /\ UNCHANGED <<flight, todo>>
    BY <1>0, <1>1 DEF StartTask, Arrive, Leave, InFlight
  <2>2. \A u \in Task \ {t} : at'[u] = at[u] /\ todo'[u] = todo[u]
    BY <1>0, <1>1 DEF StartTask, Arrive, Leave
  <2> QED
    BY <1>0, <2>1, <2>2, FlightFrame
<1>2. ASSUME NEW t \in Task, Look(t) PROVE FlightInv'
  <2>1. at[t] \notin InFlight /\ at'[t] \notin InFlight /\ UNCHANGED flight
    BY <1>0, <1>2 DEF Look, Advance, InFlight
  <2>2. \A u \in Task \ {t} : at'[u] = at[u] /\ todo'[u] = todo[u]
    BY <1>0, <1>2 DEF Look, Advance
  <2> QED
    BY <1>0, <2>1, <2>2, FlightFrame
<1>3. ASSUME NEW t \in Task, CallDo(t) PROVE FlightInv'
  <2>1. PICK k \in Key : k = Head(todo[t])
    BY <1>0, <1>3, Current DEF CallDo
  <2>2. /\ at[t] = "call" /\ todo' = todo
        /\ at' = [at EXCEPT ![t] = IF flight[k] = {} THEN "lead" ELSE "join"]
        /\ flight' = [flight EXCEPT ![k] = @ \cup {t}]
    BY <1>3, <2>1 DEF CallDo
  <2>3. SUFFICES ASSUME NEW j \in Key PROVE CallersOf(j)' /\ OneLeads(j)'
    BY DEF FlightInv
  <2>4. CallersOf(j) /\ OneLeads(j)
    BY <1>0 DEF FlightInv
  <2>5. t \notin flight[j]
    BY <2>2, <2>4 DEF CallersOf, InFlight
  <2>6. CallersOf(j)'
    BY <1>0, <2>1, <2>2, <2>4 DEF CallersOf, InFlight
  <2>7. OneLeads(j)'
    <3>1. CASE j # k
      BY <1>0, <2>2, <2>4, <2>5, <3>1 DEF OneLeads
    <3>2. CASE j = k /\ flight[k] = {}
      <4>1. flight'[j] = {t} /\ at'[t] = "lead"
        BY <1>0, <2>2, <3>2
      <4> QED
        BY <4>1 DEF OneLeads, Leaders
    <3>3. CASE j = k /\ flight[k] # {}
      <4>1. PICK l \in flight[j] : \A u \in flight[j] : (at[u] \in Leaders) <=> (u = l)
        BY <2>4, <3>3 DEF OneLeads
      <4>2. flight'[j] = flight[j] \cup {t} /\ at'[t] = "join" /\ l # t
        BY <1>0, <2>2, <2>5, <3>3
      <4>3. \A u \in flight[j] : at'[u] = at[u]
        BY <1>0, <2>2, <2>5
      <4>4. \A u \in flight'[j] : (at'[u] \in Leaders) <=> (u = l)
        BY <4>1, <4>2, <4>3 DEF Leaders
      <4> QED
        BY <4>2, <4>4 DEF OneLeads
    <3> QED
      BY <3>1, <3>2, <3>3
  <2> QED
    BY <2>6, <2>7
<1>4. ASSUME NEW t \in Task, ExecuteSetup(t) \/ StoreEntry(t) PROVE FlightInv'
  <2>1. at[t] \in Leaders /\ at'[t] \in Leaders /\ UNCHANGED <<flight, todo>>
    BY <1>0, <1>4 DEF ExecuteSetup, StoreEntry, Leaders
  <2>2. \A u \in Task \ {t} : at'[u] = at[u]
    BY <1>0, <1>4 DEF ExecuteSetup, StoreEntry
  <2> QED
    BY <1>0, <2>1, <2>2, FlightLeads
<1>6. ASSUME NEW t \in Task, ReturnDo(t) PROVE FlightInv'
  <2>1. PICK k \in Key :
            /\ Returned(t, k)
            /\ \A u \in flight[k] : at[u] \in InFlight /\ Head(todo[u]) = k
    BY <1>6, ReturnEffect
  <2>2. SUFFICES ASSUME NEW j \in Key PROVE CallersOf(j)' /\ OneLeads(j)'
    BY DEF FlightInv
  <2>3. CallersOf(j) /\ OneLeads(j) /\ CallersOf(k)
    BY <1>0 DEF FlightInv
  <2>4. \A u \in flight[k] : at'[u] \in {"run", "look"}
    BY <1>0, <2>1 DEF Returned
  <2>5. \A u \in Task : u \notin flight[k] => at'[u] = at[u] /\ todo'[u] = todo[u]
    BY <2>1 DEF Returned
  <2>6. flight'[j] = IF j = k THEN {} ELSE flight[j]
    BY <1>0, <2>1 DEF Returned
  <2>7. j # k => \A u \in flight[j] : u \in Task /\ u \notin flight[k]
    BY <1>0, <2>1, <2>3 DEF CallersOf
  <2>8. CallersOf(j)'
    BY <2>1, <2>3, <2>4, <2>5, <2>6, <2>7 DEF CallersOf, InFlight
  <2>9. OneLeads(j)'
    BY <2>3, <2>5, <2>6, <2>7 DEF OneLeads
  <2> QED
    BY <2>8, <2>9
<1>7. CASE UNCHANGED <<at, todo, flight>>
  BY <1>0, <1>7 DEF FlightInv, CallersOf, OneLeads
<1> QED
  BY ONLY [Next]_vars, <1>1, <1>2, <1>3, <1>4, <1>6, <1>7
     DEF Next, TaskStep, AllStarted, Collected, RunCleanups

LEMMA CountStep == IInv /\ [Next]_vars => CountInv'
<1> SUFFICES ASSUME IInv, [Next]_vars PROVE CountInv'
  OBVIOUS
<1> USE DEF IInv, CountInv, TypeInv, TypeOK
<1>1. ASSUME NEW t \in Task, StartTask(t) \/ Arrive(t) \/ Leave(t) PROVE CountInv'
  BY <1>1 DEF StartTask, Arrive, Leave
<1>2. ASSUME NEW t \in Task, Look(t) PROVE CountInv'
  BY <1>2, Current DEF Look, Advance
<1>3. ASSUME NEW t \in Task, CallDo(t) PROVE CountInv'
  BY <1>3, Current DEF CallDo
<1>4. ASSUME NEW t \in Task, ExecuteSetup(t) PROVE CountInv'
  BY <1>4, Current DEF ExecuteSetup
<1>5. ASSUME NEW t \in Task, StoreEntry(t) PROVE CountInv'
  BY <1>5, Current DEF StoreEntry
<1>6. ASSUME NEW t \in Task, ReturnDo(t) PROVE CountInv'
  BY <1>6, Current DEF ReturnDo
<1>7. CASE UNCHANGED <<at, todo, entries, count>>
  BY <1>7
<1> QED
  BY ONLY [Next]_vars, <1>1, <1>2, <1>3, <1>4, <1>5, <1>6, <1>7
     DEF Next, TaskStep, AllStarted, Collected, RunCleanups

(* A task that gets a set-up of its current key has it from then on.        *)
LEMMA EnvGains ==
    ASSUME NEW e, NEW k, NEW n
    PROVE  {x[1] : x \in e \cup {<<k, n>>}} = {x[1] : x \in e} \cup {k}
<1>1. <<k, n>>[1] = k
  OBVIOUS
<1> DEFINE p == <<k, n>>
<1>2. p[1] = k
  BY <1>1
<1> HIDE DEF p
<1>3. {x[1] : x \in e \cup {p}} = {x[1] : x \in e} \cup {k}
  BY <1>2
<1> QED
  BY <1>3 DEF p

LEMMA EnvStep == IInv /\ [Next]_vars => EnvInv'
<1> SUFFICES ASSUME IInv, [Next]_vars PROVE EnvInv'
  OBVIOUS
<1>0. /\ EnvInv /\ CountInv /\ TypeInv
      /\ env \in [Task -> SUBSET (Key \X Nat)] /\ todo \in [Task -> Seq(Key)]
      /\ entries \in [Key -> Nat] /\ count \in [Key -> Nat]
  BY DEF IInv, TypeInv, TypeOK
<1>2. ASSUME NEW t \in Task, Look(t) PROVE EnvInv'
  <2>1. PICK k \in Key : k = Head(todo[t]) /\ Keys(todo[t]) = {k} \cup Keys(Tail(todo[t]))
    BY <1>0, <1>2, Current DEF Look
  <2>2. count' = count
    BY <1>2 DEF Look
  <2>3. CASE entries[k] = 0
    <3>1. UNCHANGED <<env, todo>>
      BY <1>2, <2>1, <2>3 DEF Look
    <3> QED
      BY <1>0, <2>2, <3>1 DEF EnvInv
  <2>4. CASE entries[k] # 0
    <3>1. /\ env'[t] = env[t] \cup {<<k, entries[k]>>} /\ todo'[t] = Tail(todo[t])
          /\ \A u \in Task \ {t} : env'[u] = env[u] /\ todo'[u] = todo[u]
      BY <1>0, <1>2, <2>1, <2>4 DEF Look, Advance
    <3>2. entries[k] \in 1 .. count[k]
      BY <1>0, <2>4 DEF CountInv
    <3>3. \A e \in env'[t] : e[2] \in 1 .. count[e[1]]
      BY <1>0, <3>1, <3>2 DEF EnvInv
    <3>4. {e[1] : e \in env'[t]} \cup Keys(todo'[t]) = Keys(Uses[t])
      <4>1. {e[1] : e \in env[t]} \cup Keys(todo[t]) = Keys(Uses[t])
        BY <1>0 DEF EnvInv
      <4>2. {e[1] : e \in env'[t]} = {e[1] : e \in env[t]} \cup {k}
        <5>1. {x[1] : x \in env[t] \cup {<<k, entries[k]>>}} = {x[1] : x \in env[t]} \cup {k}
          BY ONLY EnvGains
        <5> QED
          BY ONLY <3>1, <5>1, Zenon
      <4> QED
        BY ONLY <2>1, <3>1, <4>1, <4>2
    <3> QED
      BY <1>0, <2>2, <3>1, <3>3, <3>4 DEF EnvInv
  <2> QED
    BY <2>3, <2>4
<1>4. ASSUME NEW t \in Task, ExecuteSetup(t) PROVE EnvInv'
  <2>1. UNCHANGED <<env, todo>> /\ count' = [count EXCEPT ![Head(todo[t])] = @ + 1]
    BY <1>4 DEF ExecuteSetup
  <2>2. \A k \in Key : count'[k] \in Nat /\ count'[k] >= count[k]
    BY <1>0, <2>1
  <2>3. ASSUME NEW u \in Task, NEW e \in env[u] PROVE e[2] \in 1 .. count'[e[1]]
    <3>1. e[1] \in Key /\ e[2] \in 1 .. count[e[1]]
      BY <1>0 DEF EnvInv
    <3> QED
      BY <1>0, <2>2, <3>1
  <2> QED
    BY <1>0, <2>1, <2>3 DEF EnvInv
<1>6. ASSUME NEW t \in Task, ReturnDo(t) PROVE EnvInv'
  <2>1. PICK k \in Key :
            /\ Returned(t, k)
            /\ \A u \in flight[k] : Keys(todo[u]) = {k} \cup Keys(Tail(todo[u]))
    BY <1>6, ReturnEffect
  <2>2. count' = count /\ count[k] \in 1 .. count[k]
    BY <1>0, <2>1 DEF Returned, CountInv
  <2>3. SUFFICES ASSUME NEW u \in Task
                 PROVE  /\ {e[1] : e \in env'[u]} \cup Keys(todo'[u]) = Keys(Uses[u])
                        /\ \A e \in env'[u] : e[2] \in 1 .. count[e[1]]
    BY <2>2 DEF EnvInv
  <2>4. /\ {e[1] : e \in env[u]} \cup Keys(todo[u]) = Keys(Uses[u])
        /\ \A e \in env[u] : e[2] \in 1 .. count[e[1]]
    BY <1>0 DEF EnvInv
  <2>5. CASE u \in flight[k]
    <3>1. env'[u] = env[u] \cup {<<k, count[k]>>} /\ todo'[u] = Tail(todo[u])
      BY <2>1, <2>5 DEF Returned
    <3>2. {e[1] : e \in env'[u]} \cup Keys(todo'[u]) = Keys(Uses[u])
      <4>1. {e[1] : e \in env'[u]} = {e[1] : e \in env[u]} \cup {k}
        <5>1. {x[1] : x \in env[u] \cup {<<k, count[k]>>}} = {x[1] : x \in env[u]} \cup {k}
          BY ONLY EnvGains
        <5> QED
          BY ONLY <3>1, <5>1, Zenon
      <4> QED
        BY ONLY <2>1, <2>4, <2>5, <3>1, <4>1
    <3>3. \A e \in env'[u] : e[2] \in 1 .. count[e[1]]
      BY <2>2, <2>4, <3>1
    <3> QED
      BY <3>2, <3>3
  <2>6. CASE u \notin flight[k]
    BY <2>1, <2>4, <2>6 DEF Returned
  <2> QED
    BY <2>5, <2>6
<1>7. CASE UNCHANGED <<env, todo, count>>
  BY <1>0, <1>7 DEF EnvInv
<1> QED
  BY ONLY [Next]_vars, <1>2, <1>4, <1>6, <1>7
     DEF Next, TaskStep, StartTask, AllStarted, Collected, RunCleanups, Arrive, Leave,
         CallDo, StoreEntry

LEMMA EndStep == IInv /\ [Next]_vars => EndInv'
<1> SUFFICES ASSUME IInv, [Next]_vars PROVE EndInv'
  OBVIOUS
<1>0. /\ EndInv /\ at \in [Task -> Places] /\ wg \in Nat
      /\ \A k \in Key : flight[k] \subseteq Task
  BY DEF IInv, TypeInv, TypeOK
<1>s. ASSUME Inside' = Inside, UNCHANGED <<cleaned, main, wg>> PROVE EndInv'
  BY <1>0, <1>s DEF EndInv
<1>1. ASSUME NEW t \in Task, StartTask(t) PROVE EndInv'
  <2>1. Inside' = Inside \cup {t} /\ t \notin Inside
    BY <1>0, <1>1 DEF StartTask, Inside
  <2>2. IsFiniteSet(Inside') /\ Cardinality(Inside') = Cardinality(Inside) + 1
    BY <1>0, <2>1, FS_AddElement DEF EndInv
  <2> QED
    BY <1>0, <1>1, <2>2 DEF StartTask, EndInv
<1>2. ASSUME NEW t \in Task, Leave(t) PROVE EndInv'
  <2>1. Inside' = Inside \ {t} /\ t \in Inside
    BY <1>0, <1>2 DEF Leave, Inside
  <2>2. IsFiniteSet(Inside') /\ Cardinality(Inside') = Cardinality(Inside) - 1
    BY <1>0, <2>1, FS_RemoveElement DEF EndInv
  <2> QED
    BY <1>0, <1>2, <2>1, <2>2 DEF Leave, EndInv
<1>3. ASSUME NEW t \in Task, Arrive(t) PROVE EndInv'
  <2>1. Inside' = Inside
    BY <1>0, <1>3 DEF Arrive, Inside
  <2> QED
    BY <1>3, <1>s, <2>1 DEF Arrive
<1>4. ASSUME NEW t \in Task, Look(t) \/ CallDo(t) \/ ExecuteSetup(t) \/ StoreEntry(t)
      PROVE  EndInv'
  <2>1. Inside' = Inside
    BY <1>0, <1>4 DEF Look, Advance, CallDo, ExecuteSetup, StoreEntry, Inside
  <2> QED
    BY <1>4, <1>s, <2>1 DEF Look, CallDo, ExecuteSetup, StoreEntry
<1>5. ASSUME NEW t \in Task, ReturnDo(t) PROVE EndInv'
  <2>1. PICK k \in Key : Returned(t, k) /\ \A u \in flight[k] : at[u] \in InFlight
    BY <1>5, ReturnEffect
  <2>2. Inside' = Inside
    BY <1>0, <2>1 DEF Returned, Inside, InFlight
  <2> QED
    BY <1>s, <2>1, <2>2 DEF Returned
<1>6. CASE Collected
  <2>1. Inside = {}
    BY <1>0, <1>6, FS_EmptySet DEF Collected, EndInv
  <2>2. Inside' = Inside
    BY <1>6 DEF Collected, Inside
  <2> QED
    BY <1>0, <1>6, <2>1, <2>2 DEF Collected, EndInv
<1>7. CASE AllStarted \/ RunCleanups
  <2>1. Inside' = Inside
    BY <1>7 DEF AllStarted, RunCleanups, Inside
  <2> QED
    BY <1>0, <1>7, <2>1 DEF AllStarted, RunCleanups, EndInv
<1>8. CASE UNCHANGED vars
  <2>1. Inside' = Inside
    BY <1>8 DEF Inside
  <2> QED
    BY <1>8, <1>s, <2>1
<1> QED
  BY ONLY [Next]_vars, <1>1, <1>2, <1>3, <1>4, <1>5, <1>6, <1>7, <1>8 DEF Next, TaskStep

--------------------------------------------------------------------------------
(* Whoever is in Do is there for its current plugin, one leads, and what    *)
(* tasks have was executed: in every reachable state.                       *)
THEOREM Invariance == Spec => []IInv
<1>1. Init => IInv
  BY InvInit
<1>2. IInv /\ [Next]_vars => IInv'
  BY TypeStep, FlightStep, CountStep, EnvStep, EndStep DEF IInv
<1> QED
  BY <1>1, <1>2, PTL DEF Spec

(* The maps, the lists and the counters have the values of their types, and *)
(* only what was made is cleaned up (scheduler.go 927-1060).                *)
THEOREM TypeCorrect == Spec => []TypeOK
<1>1. IInv => TypeOK
  BY DEF IInv, TypeInv
<1> QED
  BY <1>1, Invariance, PTL

(* Two set-ups of one plugin with the same inputs never overlap, and nobody *)
(* waits in Do without a leader (scheduler.go 981).                         *)
THEOREM NoOverlap == Spec => []SetupsDoNotOverlap
<1>1. ASSUME IInv, NEW k \in Key
      PROVE  /\ Cardinality(Leading(k)) <= 1
             /\ flight[k] # {} => Leading(k) # {}
  <2>1. CASE flight[k] = {}
    <3>1. Leading(k) = {}
      BY <2>1 DEF Leading
    <3> QED
      BY <2>1, <3>1, FS_EmptySet
  <2>2. CASE flight[k] # {}
    <3>1. PICK l \in flight[k] : \A t \in flight[k] : (at[t] \in Leaders) <=> (t = l)
      BY <1>1, <2>2 DEF IInv, FlightInv, OneLeads
    <3>2. Leading(k) = {l}
      BY <3>1 DEF Leading, Leaders
    <3>3. Cardinality({l}) = 1
      BY FS_Singleton
    <3> QED
      BY <3>2, <3>3
  <2> QED
    BY <2>1, <2>2
<1>2. IInv => SetupsDoNotOverlap
  BY <1>1 DEF SetupsDoNotOverlap
<1> QED
  BY <1>2, Invariance, PTL

(* The command of a task runs with an executed set-up for every plugin it   *)
(* uses, and no set-up is cleaned up while a goroutine is setting up or     *)
(* running its command: the WaitGroup counts the goroutines of the level,   *)
(* and Run cleans up between levels only (scheduler.go 283-341, 927-1060).  *)
THEOREM EnvironmentsExist == Spec => []EnvFromSetup
<1>1. ASSUME IInv, NEW t \in Task
      PROVE  /\ at[t] = "run" => {e[1] : e \in env[t]} = Keys(Uses[t])
             /\ \A e \in env[t] : e[2] \in 1 .. count[e[1]]
             /\ at[t] \notin {"waiting", "left"} => cleaned = {}
  <2>1. at[t] = "run" => Keys(todo[t]) = {}
    BY <1>1 DEF IInv, TypeInv, Keys
  <2>2. at[t] \notin {"waiting", "left"} => t \in Inside
    BY DEF Inside
  <2> QED
    BY <1>1, <2>1, <2>2 DEF IInv, EnvInv, EndInv
<1>2. IInv => EnvFromSetup
  BY <1>1 DEF EnvFromSetup, Keys
<1> QED
  BY <1>2, Invariance, PTL

--------------------------------------------------------------------------------
(* How far a task is with its current plugin.                               *)
Stage(a) ==
    CASE a = "waiting" -> 0 [] a = "started" -> 1 [] a = "look" -> 2 [] a = "call" -> 3
      [] a = "join" -> 4 [] a = "lead" -> 4 [] a = "store" -> 5 [] a = "return" -> 6
      [] a = "run" -> 7 [] OTHER -> 8

(* How far Run is with the level, or with the run.                          *)
Phase(m) ==
    CASE m = "starting" -> 0 [] m = "collect" -> 1 [] m = "between" -> 2 [] OTHER -> 3

(* The tasks other than u have not moved, and have as much to do as before. *)
OthersStay(u) ==
    \A v \in Task \ {u} : at'[v] = at[v] /\ todo'[v] = todo[v]

(* What a step uses up, in this order: the plugins that tasks have still to *)
(* set up, the stages of the tasks, the phases of the level.                *)
SetupGoesOn ==
    \/ /\ \A v \in Task : Len(todo'[v]) <= Len(todo[v])
       /\ \E u \in Task : Len(todo'[u]) < Len(todo[u])
    \/ /\ UNCHANGED todo
       /\ \E u \in Task : Stage(at[u]) < Stage(at'[u]) /\ OthersStay(u)
    \/ UNCHANGED <<todo, at>> /\ Phase(main) < Phase(main')

(* Every step brings a task nearer to its last plugin: nobody calls for a   *)
(* set-up it has, and a return of Do serves all who wait (scheduler.go      *)
(* 949-1022).  With SetupsDoNotOverlap, by which somebody who waits for     *)
(* nobody leads, it is what JoinersServed needs besides fairness.           *)
THEOREM SetupAdvances == Spec => [][SetupGoesOn]_vars
<1>1. IInv /\ [Next]_vars => [SetupGoesOn]_vars
  <2> SUFFICES ASSUME IInv, Next PROVE SetupGoesOn
    OBVIOUS
  <2>0. /\ at \in [Task -> Places]
        /\ todo \in [Task -> Seq(Key)] /\ \A u \in Task : Len(todo[u]) \in Nat
    BY DEF IInv, TypeInv, TypeOK
  <2>s. ASSUME NEW t \in Task, NEW a, at' = [at EXCEPT ![t] = a], todo' = todo,
               Stage(at[t]) < Stage(a)
        PROVE  SetupGoesOn
    <3>1. at'[t] = a /\ \A v \in Task \ {t} : at'[v] = at[v]
      BY <2>0, <2>s
    <3> QED
      BY <2>s, <3>1 DEF SetupGoesOn, OthersStay
  <2>t. ASSUME NEW s \in Seq(Key), s # <<>> PROVE Len(Tail(s)) < Len(s)
    BY <2>t
  <2>1. ASSUME NEW t \in Task, Arrive(t) PROVE SetupGoesOn
    <3>1. PICK a \in {"run", "look"} :
              at' = [at EXCEPT ![t] = a] /\ todo' = todo /\ at[t] = "started"
      BY <2>1 DEF Arrive
    <3>2. Stage(at[t]) < Stage(a)
      BY <3>1 DEF Stage
    <3> QED
      BY <2>s, <3>1, <3>2
  <2>a. ASSUME NEW t \in Task, StartTask(t) PROVE SetupGoesOn
    <3>1. /\ at' = [at EXCEPT ![t] = "started"] /\ todo' = todo
          /\ Stage(at[t]) < Stage("started")
      BY <2>a DEF StartTask, Stage
    <3> QED
      BY <2>s, <3>1
  <2>b. ASSUME NEW t \in Task, Leave(t) PROVE SetupGoesOn
    <3>1. /\ at' = [at EXCEPT ![t] = "left"] /\ todo' = todo
          /\ Stage(at[t]) < Stage("left")
      BY <2>b DEF Leave, Stage
    <3> QED
      BY <2>s, <3>1
  <2>2. ASSUME NEW t \in Task, Look(t) PROVE SetupGoesOn
    <3>1. CASE entries[Head(todo[t])] # 0
      <4>1. todo' = [todo EXCEPT ![t] = Tail(todo[t])]
        BY <2>2, <3>1 DEF Look, Advance
      <4>2. todo[t] \in Seq(Key) /\ todo[t] # <<>>
        BY <2>0, <2>2 DEF Look, IInv, TypeInv
      <4>3. Len(todo'[t]) < Len(todo[t])
        BY <2>0, <2>t, <4>1, <4>2
      <4>4. \A v \in Task : Len(todo'[v]) <= Len(todo[v])
        <5> TAKE v \in Task
        <5>1. CASE v = t
          BY <2>0, <4>2, <4>3, <4>1, <5>1
        <5>2. CASE v # t
          BY <2>0, <4>1, <5>2
        <5> QED
          BY <5>1, <5>2
      <4> QED
        BY <4>3, <4>4 DEF SetupGoesOn
    <3>2. CASE entries[Head(todo[t])] = 0
      <4>1. at' = [at EXCEPT ![t] = "call"] /\ todo' = todo /\ Stage(at[t]) < Stage("call")
        BY <2>2, <3>2 DEF Look, Stage
      <4> QED
        BY <2>s, <4>1
    <3> QED
      BY <3>1, <3>2
  <2>3. ASSUME NEW t \in Task, CallDo(t) PROVE SetupGoesOn
    <3>1. PICK a \in {"lead", "join"} :
              at' = [at EXCEPT ![t] = a] /\ todo' = todo /\ at[t] = "call"
      BY <2>3 DEF CallDo
    <3>2. Stage(at[t]) < Stage(a)
      BY <3>1 DEF Stage
    <3> QED
      BY <2>s, <3>1, <3>2
  <2>4. ASSUME NEW t \in Task, ExecuteSetup(t) PROVE SetupGoesOn
    <3>1. at' = [at EXCEPT ![t] = "store"] /\ todo' = todo /\ Stage(at[t]) < Stage("store")
      BY <2>4 DEF ExecuteSetup, Stage
    <3> QED
      BY <2>s, <3>1
  <2>5. ASSUME NEW t \in Task, StoreEntry(t) PROVE SetupGoesOn
    <3>1. at' = [at EXCEPT ![t] = "return"] /\ todo' = todo /\ Stage(at[t]) < Stage("return")
      BY <2>5 DEF StoreEntry, Stage
    <3> QED
      BY <2>s, <3>1
  <2>6. ASSUME NEW t \in Task, ReturnDo(t) PROVE SetupGoesOn
    <3> DEFINE k == Head(todo[t])
    <3>1. /\ todo' = [u \in Task |-> IF u \in flight[k] THEN Tail(todo[u]) ELSE todo[u]]
          /\ at[t] = "return"
      BY <2>6 DEF ReturnDo
    <3>2. todo[t] \in Seq(Key) /\ todo[t] # <<>>
      BY <2>0, <3>1 DEF IInv, TypeInv
    <3>3. k \in Key
      BY <3>2, KeysOfTail
    <3>4. t \in flight[k]
      BY <3>1, <3>3 DEF IInv, FlightInv, CallersOf, InFlight
    <3>5. ASSUME NEW u \in flight[k], u \in Task PROVE Len(todo'[u]) < Len(todo[u])
      <4>1. at[u] \in InFlight
        BY <3>3, <3>5 DEF IInv, FlightInv, CallersOf
      <4>2. todo[u] \in Seq(Key) /\ todo[u] # <<>>
        BY <2>0, <3>5, <4>1 DEF IInv, TypeInv, InFlight
      <4>3. todo'[u] = Tail(todo[u])
        BY <3>1, <3>5
      <4> QED
        BY <2>t, <4>2, <4>3
    <3>6. ASSUME NEW v \in Task PROVE Len(todo'[v]) <= Len(todo[v])
      <4>1. CASE v \in flight[k]
        <5>1. Len(todo'[v]) < Len(todo[v]) /\ todo'[v] = Tail(todo[v]) /\ todo[v] \in Seq(Key)
          BY <2>0, <3>1, <3>5, <4>1
        <5>2. todo[v] # <<>>
          BY <2>0, <3>3, <4>1 DEF IInv, FlightInv, CallersOf, InFlight, TypeInv
        <5> QED
          BY <5>1, <5>2
      <4>2. CASE v \notin flight[k]
        BY <2>0, <3>1, <4>2
      <4> QED
        BY <4>1, <4>2
    <3> QED
      BY <3>4, <3>5, <3>6 DEF SetupGoesOn
  <2>7. CASE AllStarted \/ Collected \/ RunCleanups
    BY <2>7 DEF AllStarted, Collected, RunCleanups, SetupGoesOn, Phase
  <2> QED
    BY <2>1, <2>a, <2>b, <2>2, <2>3, <2>4, <2>5, <2>6, <2>7 DEF Next, TaskStep
<1> QED
  BY <1>1, Invariance, PTL DEF Spec

--------------------------------------------------------------------------------
(* How often a set-up can run.  The tasks that use it, and those that may     *)
(* still execute it: all that have it to do while nothing is stored; once     *)
(* something is, only those that looked before and have not executed it.      *)
UsersOf(k) == {t \in Task : k \in Keys(Uses[t])}

MayRun(k) ==
    {t \in Task :
        /\ k \in Keys(todo[t])
        /\ IF entries[k] = 0
           THEN ~(at[t] \in {"store", "return"} /\ Head(todo[t]) = k)
           ELSE at[t] \in {"call", "lead"} /\ Head(todo[t]) = k}

(* What Do is about to return is stored; and what may still run is counted.   *)
StoredInv == \A t \in Task : at[t] = "return" => entries[Head(todo[t])] # 0

RunsLeft ==
    \A k \in Key : IsFiniteSet(UsersOf(k)) =>
        /\ MayRun(k) \subseteq UsersOf(k)
        /\ count[k] + Cardinality(MayRun(k)) <= Cardinality(UsersOf(k))

(* No task executes a set-up twice, so a set-up runs at most as often as      *)
(* there are tasks that use it (scheduler.go 971-984).                        *)
SetupsBounded ==
    \A k \in Key : IsFiniteSet(UsersOf(k)) => count[k] <= Cardinality(UsersOf(k))

LEMMA StoredStep == IInv /\ StoredInv /\ [Next]_vars => StoredInv'
<1> SUFFICES ASSUME IInv, StoredInv, [Next]_vars PROVE StoredInv'
  OBVIOUS
<1>0. /\ at \in [Task -> Places]
      /\ todo \in [Task -> Seq(Key)] /\ entries \in [Key -> Nat] /\ count \in [Key -> Nat]
  BY DEF IInv, TypeInv, TypeOK
<1> USE DEF StoredInv
<1>1. ASSUME NEW t \in Task, StartTask(t) \/ Arrive(t) \/ Leave(t) PROVE StoredInv'
  BY <1>0, <1>1 DEF StartTask, Arrive, Leave
<1>2. ASSUME NEW t \in Task, Look(t) PROVE StoredInv'
  BY <1>0, <1>2 DEF Look, Advance
<1>3. ASSUME NEW t \in Task, CallDo(t) PROVE StoredInv'
  BY <1>0, <1>3 DEF CallDo
<1>4. ASSUME NEW t \in Task, ExecuteSetup(t) PROVE StoredInv'
  BY <1>0, <1>4 DEF ExecuteSetup
<1>5. ASSUME NEW t \in Task, StoreEntry(t) PROVE StoredInv'
  <2>1. Head(todo[t]) \in Key /\ count[Head(todo[t])] >= 1
    BY <1>5, Current DEF StoreEntry, IInv, CountInv
  <2> QED
    BY <1>0, <1>5, <2>1 DEF StoreEntry
<1>6. ASSUME NEW t \in Task, ReturnDo(t) PROVE StoredInv'
  BY <1>0, <1>6 DEF ReturnDo
<1>7. CASE AllStarted \/ Collected \/ RunCleanups
  BY <1>7 DEF AllStarted, Collected, RunCleanups
<1>8. CASE UNCHANGED vars
  BY <1>8
<1> QED
  BY ONLY [Next]_vars, <1>1, <1>2, <1>3, <1>4, <1>5, <1>6, <1>7, <1>8 DEF Next, TaskStep

(* Nobody gets to execute a set-up who could not before: a task comes to call *)
(* only for a key without an entry, and leaves a call with one.               *)
LEMMA MayRunShrinks ==
    ASSUME IInv, StoredInv, [Next]_vars, NEW k \in Key
    PROVE  MayRun(k)' \subseteq MayRun(k)
<1>0. /\ at \in [Task -> Places]
      /\ todo \in [Task -> Seq(Key)] /\ entries \in [Key -> Nat] /\ count \in [Key -> Nat]
  BY DEF IInv, TypeInv, TypeOK
<1>s. ASSUME UNCHANGED <<todo, entries>>,
             \A u \in Task : \/ at'[u] = at[u]
                             \/ at[u] \in {"waiting", "started", "look", "run"} /\ at'[u] # "lead"
                                /\ (at'[u] = "call" => entries[Head(todo[u])] = 0)
                             \/ at[u] \in {"call", "lead"} /\ at'[u] # "call"
      PROVE  MayRun(k)' \subseteq MayRun(k)
  BY <1>s DEF MayRun
<1>1. ASSUME NEW t \in Task, StartTask(t) \/ Arrive(t) \/ Leave(t)
      PROVE  MayRun(k)' \subseteq MayRun(k)
  BY <1>0, <1>1, <1>s DEF StartTask, Arrive, Leave
<1>2. ASSUME NEW t \in Task, Look(t) PROVE MayRun(k)' \subseteq MayRun(k)
  <2> DEFINE j == Head(todo[t])
  <2>1. j \in Key /\ Keys(todo[t]) = {j} \cup Keys(Tail(todo[t])) /\ at[t] = "look"
    BY <1>2, Current DEF Look, IInv
  <2>2. CASE entries[j] # 0
    <3>1. /\ todo' = [todo EXCEPT ![t] = Tail(@)] /\ UNCHANGED entries
          /\ at' = [at EXCEPT ![t] = IF Tail(todo[t]) = <<>> THEN "run" ELSE "look"]
      BY <1>2, <2>2 DEF Look, Advance
    <3>2. /\ todo'[t] = Tail(todo[t]) /\ at'[t] \in {"run", "look"}
          /\ \A u \in Task \ {t} : todo'[u] = todo[u] /\ at'[u] = at[u]
      BY <1>0, <3>1
    <3> QED
      BY <2>1, <3>1, <3>2 DEF MayRun
  <2>3. CASE entries[j] = 0
    BY <1>0, <1>2, <2>3, <1>s DEF Look
  <2> QED
    BY <2>2, <2>3
<1>3. ASSUME NEW t \in Task, CallDo(t) PROVE MayRun(k)' \subseteq MayRun(k)
  BY <1>0, <1>3, <1>s DEF CallDo
<1>4. ASSUME NEW t \in Task, ExecuteSetup(t) PROVE MayRun(k)' \subseteq MayRun(k)
  BY <1>0, <1>4, <1>s DEF ExecuteSetup
<1>5. ASSUME NEW t \in Task, StoreEntry(t) PROVE MayRun(k)' \subseteq MayRun(k)
  <2>1. /\ Head(todo[t]) \in Key /\ at[t] = "store" /\ todo' = todo
        /\ at' = [at EXCEPT ![t] = "return"]
        /\ entries' = [entries EXCEPT ![Head(todo[t])] = count[Head(todo[t])]]
        /\ count[Head(todo[t])] # 0
    BY <1>5, Current DEF StoreEntry, IInv, CountInv
  <2>2. at'[t] = "return" /\ \A u \in Task \ {t} : at'[u] = at[u]
    BY <1>0, <2>1
  <2>3. CASE k = Head(todo[t])
    BY <1>0, <2>1, <2>2, <2>3 DEF MayRun
  <2>4. CASE k # Head(todo[t])
    BY <1>0, <2>1, <2>2, <2>4 DEF MayRun
  <2> QED
    BY <2>3, <2>4
<1>6. ASSUME NEW t \in Task, ReturnDo(t) PROVE MayRun(k)' \subseteq MayRun(k)
  <2>1. PICK j \in Key :
            /\ Returned(t, j)
            /\ \A u \in flight[j] : /\ at[u] \in InFlight /\ Head(todo[u]) = j
                                    /\ Keys(todo[u]) = {j} \cup Keys(Tail(todo[u]))
    BY <1>6, ReturnEffect
  <2>2. entries[j] # 0 /\ UNCHANGED entries
    BY <2>1 DEF Returned, StoredInv
  <2>3. \A u \in Task :
            IF u \in flight[j]
            THEN todo'[u] = Tail(todo[u]) /\ at'[u] \in {"run", "look"}
            ELSE todo'[u] = todo[u] /\ at'[u] = at[u]
    BY <2>1 DEF Returned
  <2> SUFFICES ASSUME NEW u \in MayRun(k)' PROVE u \in MayRun(k)
    OBVIOUS
  <2>4. CASE u \in flight[j]
    <3>1. u \in Task /\ k \in Keys(todo'[u]) /\ entries[k] = 0
      BY <2>2, <2>3, <2>4 DEF MayRun
    <3>2. k \in Keys(todo[u]) /\ Head(todo[u]) # k
      BY <2>1, <2>2, <2>3, <2>4, <3>1
    <3> QED
      BY <3>1, <3>2 DEF MayRun
  <2>5. CASE u \notin flight[j]
    BY <2>2, <2>3, <2>5 DEF MayRun
  <2> QED
    BY <2>4, <2>5
<1>7. CASE AllStarted \/ Collected \/ RunCleanups
  BY <1>7 DEF AllStarted, Collected, RunCleanups, MayRun
<1>8. CASE UNCHANGED vars
  BY <1>8 DEF MayRun
<1> QED
  BY ONLY [Next]_vars, <1>1, <1>2, <1>3, <1>4, <1>5, <1>6, <1>7, <1>8 DEF Next, TaskStep

(* Who executes a set-up was one of those who may, and is not any more.       *)
LEMMA ExecutingTakes ==
    ASSUME IInv, NEW t \in Task, ExecuteSetup(t), NEW k \in Key, k = Head(todo[t])
    PROVE  t \in MayRun(k) /\ t \notin MayRun(k)'
<1>1. at[t] = "lead" /\ at' = [at EXCEPT ![t] = "store"] /\ UNCHANGED <<todo, entries>>
  BY DEF ExecuteSetup
<1>2. at'[t] = "store"
  BY <1>1 DEF IInv, TypeInv, TypeOK
<1>3. k \in Keys(todo[t])
  BY <1>1, Current DEF IInv
<1> QED
  BY <1>1, <1>2, <1>3 DEF MayRun

LEMMA RunsLeftStep ==
    IInv /\ StoredInv /\ RunsLeft /\ [Next]_vars => RunsLeft'
<1> SUFFICES ASSUME IInv, StoredInv, RunsLeft, [Next]_vars,
                    NEW k \in Key, IsFiniteSet(UsersOf(k))
             PROVE  /\ MayRun(k)' \subseteq UsersOf(k)
                    /\ count'[k] + Cardinality(MayRun(k)') <= Cardinality(UsersOf(k))
  BY DEF RunsLeft, UsersOf
<1>1. /\ MayRun(k) \subseteq UsersOf(k) /\ MayRun(k)' \subseteq MayRun(k)
      /\ count[k] + Cardinality(MayRun(k)) <= Cardinality(UsersOf(k))
      /\ count \in [Key -> Nat]
  BY MayRunShrinks DEF RunsLeft, IInv, TypeInv, TypeOK
<1>2. /\ IsFiniteSet(MayRun(k)) /\ IsFiniteSet(MayRun(k)')
      /\ Cardinality(MayRun(k)') <= Cardinality(MayRun(k))
  BY <1>1, FS_Subset
<1>3. /\ Cardinality(MayRun(k)) \in Nat /\ Cardinality(MayRun(k)') \in Nat
      /\ Cardinality(UsersOf(k)) \in Nat
  BY <1>2, FS_CardinalityType
<1>4. CASE count'[k] = count[k]
  BY <1>1, <1>2, <1>3, <1>4
<1>5. ASSUME NEW t \in Task, ExecuteSetup(t), k = Head(todo[t])
      PROVE  count'[k] + Cardinality(MayRun(k)') <= Cardinality(UsersOf(k))
  <2>1. t \in MayRun(k) /\ t \notin MayRun(k)'
    BY <1>5, ExecutingTakes
  <2>2. /\ Cardinality(MayRun(k)') <= Cardinality(MayRun(k) \ {t})
        /\ IsFiniteSet(MayRun(k) \ {t})
    <3>1. MayRun(k)' \subseteq MayRun(k) \ {t} /\ IsFiniteSet(MayRun(k) \ {t})
      BY <1>1, <1>2, <2>1, FS_Subset
    <3> QED
      BY <3>1, FS_Subset
  <2>3. Cardinality(MayRun(k) \ {t}) = Cardinality(MayRun(k)) - 1
    BY <1>2, <2>1, FS_RemoveElement
  <2>4. count'[k] = count[k] + 1
    BY <1>1, <1>5 DEF ExecuteSetup
  <2> QED
    BY <1>1, <1>3, <2>2, <2>3, <2>4
<1>6. count'[k] = count[k] \/ \E t \in Task : ExecuteSetup(t) /\ k = Head(todo[t])
  BY <1>1 DEF Next, TaskStep, StartTask, AllStarted, Collected, Arrive, Leave, Look,
              CallDo, ExecuteSetup, StoreEntry, ReturnDo, RunCleanups
<1> QED
  BY <1>1, <1>4, <1>5, <1>6

(* The promise that a set-up runs once does not hold (SetupRunsOnce); what    *)
(* holds is that each task that uses it executes it at most once, so that the *)
(* set-ups that are lost to the clean-up are fewer than its users             *)
(* (scheduler.go 971-984).                                                    *)
THEOREM RunsBounded == Spec => []SetupsBounded
<1>1. Init => StoredInv /\ RunsLeft
  <2> SUFFICES ASSUME Init PROVE StoredInv /\ RunsLeft
    OBVIOUS
  <2>1. \A k \in Key : MayRun(k) = UsersOf(k) /\ count[k] = 0
    BY DEF Init, MayRun, UsersOf
  <2>2. \A k \in Key : IsFiniteSet(UsersOf(k)) => Cardinality(UsersOf(k)) \in Nat
    BY FS_CardinalityType
  <2> QED
    BY <2>1, <2>2 DEF Init, StoredInv, RunsLeft
<1>2. IInv /\ StoredInv /\ RunsLeft /\ [Next]_vars => StoredInv' /\ RunsLeft'
  BY StoredStep, RunsLeftStep
<1>3. IInv /\ RunsLeft => SetupsBounded
  <2> SUFFICES ASSUME IInv, RunsLeft, NEW k \in Key, IsFiniteSet(UsersOf(k))
               PROVE  count[k] <= Cardinality(UsersOf(k))
    BY DEF SetupsBounded
  <2>1. /\ MayRun(k) \subseteq UsersOf(k) /\ count[k] \in Nat
        /\ count[k] + Cardinality(MayRun(k)) <= Cardinality(UsersOf(k))
    BY DEF RunsLeft, IInv, TypeInv, TypeOK
  <2>2. Cardinality(MayRun(k)) \in Nat /\ Cardinality(UsersOf(k)) \in Nat
    BY <2>1, FS_Subset, FS_CardinalityType
  <2> QED
    BY <2>1, <2>2
<1> QED
  BY <1>1, <1>2, <1>3, Invariance, PTL DEF Spec
================================================================================
