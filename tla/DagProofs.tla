------------------------------- MODULE DagProofs -------------------------------
(***************************************************************************)
(* What the operators of Dag come to, for every finite graph: NeededBy is  *)
(* the least set closed under dependencies, an acyclic graph has a task    *)
(* that waits for nothing, and the plan for a set of targets is valid and  *)
(* holds what they need.  Induction is over a set of numbers, so that no   *)
(* lemma has an operator as a parameter; the recursive functions of Dag    *)
(* are got hold of by Iterated, which says that they exist.                *)
(***************************************************************************)
EXTENDS Dag, FiniteSetTheorems, WellFoundedInduction, TLAPS

(* Induction over the natural numbers, with a set in place of a predicate.  *)
LEMMA SetInduction ==
    ASSUME NEW S, 0 \in S, \A n \in Nat : n \in S => n + 1 \in S
    PROVE  \A n \in Nat : n \in S
<1> DEFINE Upto(n) == {m \in Nat \ S : m <= n}
           F == {Upto(n) : n \in Nat \ S}
<1> SUFFICES ASSUME F # {} PROVE FALSE
  OBVIOUS
<1>1. \A n \in Nat : Upto(n) \in SUBSET Nat /\ IsFiniteSet(Upto(n))
  BY FS_BoundedSetOfNaturals
<1>2. F \subseteq FiniteSubsetsOf(Nat)
  BY <1>1 DEF FiniteSubsetsOf
<1> HIDE DEF F
<1>3. PICK T \in F : \A U \in F : ~(<<U, T>> \in StrictSubsetOrdering(Nat))
  BY <1>2, FS_StrictSubsetOrderingWellFounded, WFMin
<1>4. PICK n \in Nat \ S : T = Upto(n)
  BY DEF F
<1>5. n # 0 /\ n - 1 \in Nat /\ n - 1 \notin S /\ (n - 1) + 1 = n
  OBVIOUS
<1>6. Upto(n - 1) \in F
  BY <1>5 DEF F
<1>7. /\ Upto(n - 1) \subseteq Upto(n) /\ Upto(n - 1) # Upto(n)
      /\ Upto(n - 1) \in SUBSET Nat /\ Upto(n) \in SUBSET Nat
  <2>1. n \in Upto(n) /\ n \notin Upto(n - 1)
    BY <1>5
  <2>2. \A m \in Nat : m <= n - 1 => m <= n
    OBVIOUS
  <2> QED
    BY <1>1, <1>5, <2>1, <2>2
<1>8. <<Upto(n - 1), Upto(n)>> \in StrictSubsetOrdering(Nat)
  BY <1>7 DEF StrictSubsetOrdering
<1> QED
  BY <1>3, <1>4, <1>6, <1>8

(* g lists the values of F applied again and again, beginning with x0.      *)
IsIteration(g, X, x0, F) ==
    g \in [Nat -> X] /\ g[0] = x0 /\ \A n \in Nat : g[n + 1] = F[g[n]]

(* Every function can be applied again and again: the diagonal of the       *)
(* finite beginnings of its iteration.  The recursive functions of Dag and  *)
(* PathTo rest on it, for their definition says CHOOSE.                     *)
LEMMA Iterated ==
    ASSUME NEW X, NEW x0 \in X, NEW F \in [X -> X]
    PROVE  \E g : IsIteration(g, X, x0, F)
<1> DEFINE Partial(n, h) == /\ h \in [0 .. n -> X] /\ h[0] = x0
                            /\ \A k \in 1 .. n : h[k] = F[h[k - 1]]
           S == {n \in Nat : \E h \in [0 .. n -> X] : Partial(n, h)}
<1>1. 0 \in S
  <2> DEFINE h == [k \in 0 .. 0 |-> x0]
  <2>1. h \in [0 .. 0 -> X] /\ Partial(0, h)
    OBVIOUS
  <2> QED
    BY <2>1
<1>2. ASSUME NEW n \in Nat, n \in S PROVE n + 1 \in S
  <2>1. PICK h \in [0 .. n -> X] : Partial(n, h)
    BY <1>2
  <2> DEFINE e == [k \in 0 .. (n + 1) |-> IF k = n + 1 THEN F[h[n]] ELSE h[k]]
  <2>2. h[n] \in X /\ F[h[n]] \in X
    OBVIOUS
  <2>3. \A k \in 0 .. n : e[k] = h[k] /\ e[k] \in X
    OBVIOUS
  <2>4. e[n + 1] = F[h[n]]
    OBVIOUS
  <2>5. e \in [0 .. (n + 1) -> X]
    BY <2>2
  <2>6. \A k \in 1 .. (n + 1) : e[k] = F[e[k - 1]]
    <3> TAKE k \in 1 .. (n + 1)
    <3>1. CASE k = n + 1
      BY <2>3, <2>4, <3>1
    <3>2. CASE k # n + 1
      <4>1. k \in 1 .. n /\ k \in 0 .. n /\ k - 1 \in 0 .. n
        BY <3>2
      <4> QED
        BY <2>1, <2>3, <4>1
    <3> QED
      BY <3>1, <3>2
  <2>7. e[0] = x0
    BY <2>1, <2>3
  <2> HIDE DEF e
  <2>8. Partial(n + 1, e)
    BY <2>5, <2>6, <2>7
  <2> QED
    BY <2>5, <2>8
<1>3. \A n \in Nat : \E h \in [0 .. n -> X] : Partial(n, h)
  <2> HIDE DEF S, Partial
  <2>1. \A n \in Nat : n \in S
    BY <1>1, <1>2, SetInduction
  <2> QED
    BY <2>1 DEF S
<1>4. ASSUME NEW m \in Nat, NEW h \in [0 .. m -> X], Partial(m, h),
             NEW n \in Nat, NEW g \in [0 .. n -> X], Partial(n, g), m <= n
      PROVE  h[m] = g[m]
  <2> DEFINE T == {k \in Nat : k <= m => h[k] = g[k]}
  <2>1. 0 \in T
    BY <1>4
  <2>2. ASSUME NEW k \in Nat, k \in T PROVE k + 1 \in T
    <3> SUFFICES ASSUME k + 1 <= m PROVE h[k + 1] = g[k + 1]
      OBVIOUS
    <3>1. k + 1 \in 1 .. m /\ k + 1 \in 1 .. n /\ (k + 1) - 1 = k /\ h[k] = g[k]
      BY <1>4, <2>2
    <3>2. h[k + 1] = F[h[(k + 1) - 1]] /\ g[k + 1] = F[g[(k + 1) - 1]]
      BY <1>4, <3>1
    <3> QED
      BY <3>1, <3>2
  <2>3. \A k \in Nat : k \in T
    <3> HIDE DEF T
    <3> QED
      BY <2>1, <2>2, SetInduction
  <2> QED
    BY <2>3
<1> DEFINE ph(n) == CHOOSE h \in [0 .. n -> X] : Partial(n, h)
           g == [n \in Nat |-> ph(n)[n]]
<1>5. \A n \in Nat : ph(n) \in [0 .. n -> X] /\ Partial(n, ph(n))
  <2> HIDE DEF Partial
  <2> QED
    BY <1>3
<1> HIDE DEF ph
<1>6. g \in [Nat -> X]
  BY <1>5
<1>7. g[0] = x0
  BY <1>5
<1>8. ASSUME NEW n \in Nat PROVE g[n + 1] = F[g[n]]
  <2>1. /\ ph(n) \in [0 .. n -> X] /\ Partial(n, ph(n))
        /\ ph(n + 1) \in [0 .. (n + 1) -> X] /\ Partial(n + 1, ph(n + 1))
    BY <1>5
  <2>2. ph(n)[n] = ph(n + 1)[n]
    <3> HIDE DEF Partial
    <3> QED
      BY <1>4, <2>1
  <2>3. ph(n + 1)[n + 1] = F[ph(n + 1)[n]]
    <3>1. n + 1 \in 1 .. (n + 1) /\ (n + 1) - 1 = n
      OBVIOUS
    <3> QED
      BY <2>1, <3>1
  <2> QED
    BY <2>2, <2>3
<1> QED
  BY <1>6, <1>7, <1>8 DEF IsIteration

(* NeededBy is what a number of rounds reach, one for each task, each adding*)
(* the dependencies of what was reached before.                             *)
LEMMA ReachSteps ==
    ASSUME NEW N, NEW nd \in [N -> SUBSET N], NEW S \in SUBSET N
    PROVE  \E r \in [Nat -> SUBSET N] :
               /\ r[0] = S
               /\ \A n \in Nat : r[n + 1] = r[n] \cup UNION {nd[t] : t \in r[n]}
               /\ NeededBy(nd, S) = r[Cardinality(N)]
<1> DEFINE F == [A \in SUBSET N |-> A \cup UNION {nd[t] : t \in A}]
<1>1. F \in [SUBSET N -> SUBSET N] /\ \A A \in SUBSET N : F[A] = A \cup UNION {nd[t] : t \in A}
  OBVIOUS
<1> HIDE DEF F
<1>2. PICK g : IsIteration(g, SUBSET N, S, F)
  BY <1>1, Iterated, Zenon
<1>3. g = [n \in Nat |-> IF n = 0 THEN S
                         ELSE LET before == g[n - 1]
                              IN  before \cup UNION {nd[t] : t \in before}]
  <2>1. \A n \in Nat : g[n] = IF n = 0 THEN S ELSE g[n - 1] \cup UNION {nd[t] : t \in g[n - 1]}
    <3> TAKE n \in Nat
    <3>1. n # 0 => n - 1 \in Nat /\ (n - 1) + 1 = n
      OBVIOUS
    <3> QED
      BY <1>1, <1>2, <3>1 DEF IsIteration
  <2> QED
    BY <1>2, <2>1 DEF IsIteration
<1> DEFINE reach[n \in Nat] ==
            IF n = 0 THEN S
            ELSE LET before == reach[n - 1]
                 IN  before \cup UNION {nd[t] : t \in before}
<1>4. reach = [n \in Nat |-> IF n = 0 THEN S
                             ELSE LET before == reach[n - 1]
                                  IN  before \cup UNION {nd[t] : t \in before}]
  <2> SUFFICES \E ff : ff = [n \in Nat |-> IF n = 0 THEN S
                             ELSE LET before == ff[n - 1]
                                  IN  before \cup UNION {nd[t] : t \in before}]
    BY Zenon
  <2> QED
    BY <1>3, Zenon
<1>5. NeededBy(nd, S) = reach[Cardinality(N)]
  <2>1. DOMAIN nd = N
    OBVIOUS
  <2> QED
    BY <2>1, Zenon DEF NeededBy
<1> HIDE DEF reach
<1>6. \A n \in Nat : reach[n] = IF n = 0 THEN S ELSE reach[n - 1] \cup UNION {nd[t] : t \in reach[n - 1]}
  BY <1>4
<1>7. \A n \in Nat : reach[n + 1] = reach[n] \cup UNION {nd[t] : t \in reach[n]}
  <2> TAKE n \in Nat
  <2>1. n + 1 \in Nat /\ n + 1 # 0 /\ (n + 1) - 1 = n
    OBVIOUS
  <2> QED
    BY <1>6, <2>1
<1>8. \A n \in Nat : reach[n] \in SUBSET N
  <2> DEFINE T == {n \in Nat : reach[n] \in SUBSET N}
  <2>1. 0 \in T
    BY <1>6
  <2>2. \A n \in Nat : n \in T => n + 1 \in T
    BY <1>7
  <2> HIDE DEF T
  <2>3. \A n \in Nat : n \in T
    BY <2>1, <2>2, SetInduction
  <2> QED
    BY <2>3 DEF T
<1>9. reach \in [Nat -> SUBSET N]
  BY <1>4, <1>8
<1> QED
  BY <1>5, <1>6, <1>7, <1>9

(* A set of tasks that holds the dependencies of each of them.              *)
Closed(nd, A) == \A t \in A : nd[t] \subseteq A

(* NeededBy is the smallest set that holds S and with each task its         *)
(* dependencies: what the worklist of TopoSortFrom is to find               *)
(* (toposort.go 98-118).                                                    *)
THEOREM NeededLeast ==
    ASSUME NEW N, IsFiniteSet(N), NEW nd \in [N -> SUBSET N], NEW S \in SUBSET N
    PROVE  /\ NeededBy(nd, S) \in SUBSET N /\ S \subseteq NeededBy(nd, S)
           /\ Closed(nd, NeededBy(nd, S))
           /\ \A C \in SUBSET N : S \subseteq C /\ Closed(nd, C) => NeededBy(nd, S) \subseteq C
<1>1. PICK r \in [Nat -> SUBSET N] :
          /\ r[0] = S
          /\ \A n \in Nat : r[n + 1] = r[n] \cup UNION {nd[t] : t \in r[n]}
          /\ NeededBy(nd, S) = r[Cardinality(N)]
  BY ReachSteps
<1>2. Cardinality(N) \in Nat
  BY FS_CardinalityType
<1>3. ASSUME NEW n \in Nat
      PROVE  /\ r[n] \in SUBSET N /\ IsFiniteSet(r[n]) /\ Cardinality(r[n]) \in Nat
             /\ Cardinality(r[n]) <= Cardinality(N)
             /\ Cardinality(r[n]) = Cardinality(N) => r[n] = N
  BY <1>2, FS_Subset, FS_CardinalityType
<1>4. \A n \in Nat : S \subseteq r[n]
  <2> DEFINE T == {n \in Nat : S \subseteq r[n]}
  <2>1. 0 \in T /\ \A n \in Nat : n \in T => n + 1 \in T
    BY <1>1
  <2> HIDE DEF T
  <2>2. \A n \in Nat : n \in T
    BY <2>1, SetInduction
  <2> QED
    BY <2>2 DEF T
<1>5. \A n \in Nat : Closed(nd, r[n]) \/ Cardinality(r[n]) >= n
  <2> DEFINE T == {n \in Nat : Closed(nd, r[n]) \/ Cardinality(r[n]) >= n}
  <2>1. 0 \in T
    BY <1>3
  <2>2. ASSUME NEW n \in Nat, n \in T PROVE n + 1 \in T
    <3>1. CASE Closed(nd, r[n])
      <4>1. UNION {nd[t] : t \in r[n]} \subseteq r[n]
        BY <3>1 DEF Closed
      <4>2. r[n + 1] = r[n]
        BY <1>1, <4>1
      <4> QED
        BY <3>1, <4>2
    <3>2. CASE ~Closed(nd, r[n])
      <4>1. r[n] \subseteq r[n + 1] /\ r[n] # r[n + 1]
        BY <1>1, <3>2 DEF Closed
      <4>2. IsFiniteSet(r[n + 1]) /\ Cardinality(r[n]) \in Nat /\ Cardinality(r[n + 1]) \in Nat
        BY <1>3
      <4>3. Cardinality(r[n]) <= Cardinality(r[n + 1]) /\ Cardinality(r[n]) # Cardinality(r[n + 1])
        BY <4>1, <4>2, FS_Subset
      <4> QED
        BY <2>2, <3>2, <4>2, <4>3
    <3> QED
      BY <3>1, <3>2
  <2> HIDE DEF T
  <2>3. \A n \in Nat : n \in T
    BY <2>1, <2>2, SetInduction
  <2> QED
    BY <2>3 DEF T
<1>6. Closed(nd, NeededBy(nd, S))
  <2>1. CASE Closed(nd, r[Cardinality(N)])
    BY <1>1, <2>1
  <2>2. CASE Cardinality(r[Cardinality(N)]) >= Cardinality(N)
    BY <1>1, <1>2, <1>3, <2>2 DEF Closed
  <2> QED
    BY <1>2, <1>5, <2>1, <2>2
<1>7. ASSUME NEW C \in SUBSET N, S \subseteq C, Closed(nd, C)
      PROVE  NeededBy(nd, S) \subseteq C
  <2> DEFINE T == {n \in Nat : r[n] \subseteq C}
  <2>1. 0 \in T /\ \A n \in Nat : n \in T => n + 1 \in T
    BY <1>1, <1>7 DEF Closed
  <2> HIDE DEF T
  <2>2. \A n \in Nat : n \in T
    BY <2>1, SetInduction
  <2> QED
    BY <1>1, <1>2, <2>2 DEF T
<1> QED
  BY <1>1, <1>2, <1>3, <1>4, <1>6, <1>7

(* p lists the rounds by which LevelsOf places the tasks of a graph; its    *)
(* levels are as many as it takes until a round places nothing new.         *)
IsPlacing(p, N, nd) ==
    /\ p \in [Nat -> SUBSET N]
    /\ p[0] = {}
    /\ \A n \in Nat : p[n + 1] = {t \in N : nd[t] \subseteq p[n]}
    /\ \A k \in 0 .. Cardinality(N) :
           p[k] = p[k + 1] /\ (\A m \in 0 .. (k - 1) : p[m] # p[m + 1])
           => LevelsOf(nd) = [i \in 1 .. k |-> p[i] \ p[i - 1]]

(* LevelsOf is defined by such rounds.                                      *)
LEMMA PlacedSteps ==
    ASSUME NEW N, NEW nd \in [N -> SUBSET N], Cardinality(N) \in Nat
    PROVE  \E p : IsPlacing(p, N, nd)
<1> DEFINE F == [A \in SUBSET N |-> {t \in N : nd[t] \subseteq A}]
<1>1. F \in [SUBSET N -> SUBSET N] /\ \A A \in SUBSET N : F[A] = {t \in N : nd[t] \subseteq A}
  OBVIOUS
<1>2. {} \in SUBSET N
  OBVIOUS
<1> HIDE DEF F
<1>3. PICK g : IsIteration(g, SUBSET N, {}, F)
  BY <1>1, <1>2, Iterated, Zenon
<1>4. g = [n \in Nat |-> IF n = 0 THEN {}
                         ELSE LET before == g[n - 1]
                              IN  {t \in DOMAIN nd : nd[t] \subseteq before}]
  <2>1. \A n \in Nat : g[n] = IF n = 0 THEN {} ELSE {t \in DOMAIN nd : nd[t] \subseteq g[n - 1]}
    <3> TAKE n \in Nat
    <3>1. n # 0 => n - 1 \in Nat /\ (n - 1) + 1 = n
      OBVIOUS
    <3> QED
      BY <1>1, <1>3, <3>1 DEF IsIteration
  <2> QED
    BY <1>3, <2>1 DEF IsIteration
<1> DEFINE placed[n \in Nat] ==
            IF n = 0 THEN {}
            ELSE LET before == placed[n - 1]
                 IN  {t \in DOMAIN nd : nd[t] \subseteq before}
           Depth(n) == /\ placed[n] = placed[n + 1]
                       /\ \A m \in 0 .. (n - 1) : placed[m] # placed[m + 1]
           depth == CHOOSE n \in 0 .. Cardinality(DOMAIN nd) : Depth(n)
<1>5. placed = [n \in Nat |-> IF n = 0 THEN {}
                              ELSE LET before == placed[n - 1]
                                   IN  {t \in DOMAIN nd : nd[t] \subseteq before}]
  <2> SUFFICES \E ff : ff = [n \in Nat |-> IF n = 0 THEN {}
                             ELSE LET before == ff[n - 1]
                                  IN  {t \in DOMAIN nd : nd[t] \subseteq before}]
    BY Zenon
  <2> QED
    BY <1>4, Zenon
<1>6. LevelsOf(nd) = [k \in 1 .. depth |-> placed[k] \ placed[k - 1]]
  BY Zenon DEF LevelsOf
<1> HIDE DEF placed
<1>7. \A n \in Nat : placed[n] = IF n = 0 THEN {} ELSE {t \in N : nd[t] \subseteq placed[n - 1]}
  BY <1>5
<1>8. placed[0] = {} /\ \A n \in Nat : placed[n + 1] = {t \in N : nd[t] \subseteq placed[n]}
  <2>1. placed[0] = {}
    BY <1>7
  <2>2. ASSUME NEW n \in Nat PROVE placed[n + 1] = {t \in N : nd[t] \subseteq placed[n]}
    <3>1. n + 1 \in Nat /\ n + 1 # 0 /\ (n + 1) - 1 = n
      OBVIOUS
    <3> QED
      BY <1>7, <3>1
  <2> QED
    BY <2>1, <2>2
<1>9. placed \in [Nat -> SUBSET N]
  <2>1. \A n \in Nat : placed[n] \in SUBSET N
    BY <1>7
  <2> QED
    BY <1>5, <2>1
<1>10. ASSUME NEW k \in 0 .. Cardinality(N), Depth(k) PROVE depth = k
  <2>1. DOMAIN nd = N
    OBVIOUS
  <2>2. ASSUME NEW l \in 0 .. Cardinality(N), Depth(l) PROVE l = k
    <3>1. CASE l < k
      <4>1. l \in 0 .. (k - 1)
        BY <3>1
      <4> QED
        BY <1>10, <2>2, <4>1
    <3>2. CASE k < l
      <4>1. k \in 0 .. (l - 1)
        BY <3>2
      <4> QED
        BY <1>10, <2>2, <4>1
    <3> QED
      BY <3>1, <3>2
  <2> HIDE DEF Depth
  <2> QED
    BY <1>10, <2>1, <2>2, Zenon
<1> HIDE DEF depth
<1> QED
  BY <1>6, <1>8, <1>9, <1>10 DEF IsPlacing

(* A task on the way from S leads nowhere else than S does.                 *)
LEMMA NeededThrough ==
    ASSUME NEW N, IsFiniteSet(N), NEW nd \in [N -> SUBSET N], NEW S \in SUBSET N,
           NEW d \in NeededBy(nd, S)
    PROVE  /\ d \in N /\ nd[d] \subseteq NeededBy(nd, S)
           /\ NeededBy(nd, nd[d]) \subseteq NeededBy(nd, S)
<1>1. /\ NeededBy(nd, S) \in SUBSET N
      /\ Closed(nd, NeededBy(nd, S))
  BY NeededLeast
<1>2. d \in N /\ nd[d] \subseteq NeededBy(nd, S) /\ nd[d] \in SUBSET N
  BY <1>1 DEF Closed
<1>3. \A C \in SUBSET N : nd[d] \subseteq C /\ Closed(nd, C) => NeededBy(nd, nd[d]) \subseteq C
  BY <1>2, NeededLeast
<1> QED
  BY <1>1, <1>2, <1>3

(* In an acyclic graph every set of tasks has one that needs none of the    *)
(* others: one from which the fewest tasks can be reached.                  *)
LEMMA AcyclicMinimal ==
    ASSUME NEW N, IsFiniteSet(N), NEW nd \in [N -> SUBSET N], ~Cyclic(nd),
           NEW U \in SUBSET N, U # {}
    PROVE  \E t \in U : nd[t] \cap U = {}
<1> DEFINE NB(t) == NeededBy(nd, nd[t])
           F == {NB(t) : t \in U}
<1>1. \A t \in N : nd[t] \in SUBSET N /\ NB(t) \in SUBSET N /\ IsFiniteSet(NB(t)) /\ nd[t] \subseteq NB(t)
  <2> TAKE t \in N
  <2>1. nd[t] \in SUBSET N
    OBVIOUS
  <2>2. NB(t) \in SUBSET N /\ nd[t] \subseteq NB(t)
    BY <2>1, NeededLeast
  <2> QED
    BY <2>1, <2>2, FS_Subset
<1>2. \A t \in N : \A d \in nd[t] : NB(d) \subseteq NB(t)
  BY <1>1, NeededThrough
<1>3. \A t \in N : t \notin NB(t)
  BY DEF Cyclic, OnCycle
<1> HIDE DEF NB
<1>4. F \subseteq FiniteSubsetsOf(N) /\ F # {}
  BY <1>1 DEF FiniteSubsetsOf
<1> HIDE DEF F
<1>5. PICK T \in F : \A V \in F : ~(<<V, T>> \in StrictSubsetOrdering(N))
  BY <1>4, FS_StrictSubsetOrderingWellFounded, WFMin
<1>6. PICK t \in U : T = NB(t)
  BY DEF F
<1>7. ASSUME NEW d \in nd[t] \cap U PROVE FALSE
  <2>1. NB(d) \in F /\ NB(d) \in SUBSET N /\ NB(t) \in SUBSET N
    BY <1>1, <1>7 DEF F
  <2>2. NB(d) \subseteq NB(t) /\ d \in NB(t) /\ d \notin NB(d)
    BY <1>1, <1>2, <1>3, <1>7
  <2>3. <<NB(d), NB(t)>> \in StrictSubsetOrdering(N)
    BY <2>1, <2>2 DEF StrictSubsetOrdering
  <2> QED
    BY <1>5, <1>6, <2>1, <2>3
<1> QED
  BY <1>7

(* A closed part of an acyclic graph is acyclic.                            *)
LEMMA PartAcyclic ==
    ASSUME NEW N, IsFiniteSet(N), NEW nd \in [N -> SUBSET N], ~Cyclic(nd),
           NEW S \in SUBSET N, Closed(nd, S)
    PROVE  ~Cyclic(Subgraph(nd, S))
<1> DEFINE g == Subgraph(nd, S)
<1>1. g \in [S -> SUBSET S] /\ IsFiniteSet(S) /\ \A t \in S : g[t] = nd[t] /\ nd[t] \in SUBSET S
  BY FS_Subset DEF Subgraph, Closed
<1> HIDE DEF g
<1>2. ASSUME NEW t \in S PROVE ~OnCycle(g, t)
  <2> DEFINE C == NeededBy(nd, nd[t]) \cap S
  <2>1. nd[t] \in SUBSET N /\ nd[t] \in SUBSET S
    BY <1>1
  <2>2. nd[t] \subseteq NeededBy(nd, nd[t]) /\ Closed(nd, NeededBy(nd, nd[t]))
    BY <2>1, NeededLeast
  <2>3. C \in SUBSET S /\ nd[t] \subseteq C /\ Closed(g, C)
    BY <1>1, <2>1, <2>2 DEF Closed
  <2> HIDE DEF C
  <2>4. NeededBy(g, nd[t]) \subseteq C
    BY <1>1, <2>1, <2>3, NeededLeast
  <2>5. t \notin NeededBy(nd, nd[t])
    BY DEF Cyclic, OnCycle
  <2> QED
    BY <1>1, <2>4, <2>5 DEF C, OnCycle
<1>3. DOMAIN g = S
  BY <1>1
<1> QED
  BY <1>2, <1>3 DEF Cyclic, g

(* The rounds only add tasks, and stop adding after at most as many rounds  *)
(* as there are tasks; the levels are what each round added.                *)
LEMMA PlacingEnds ==
    ASSUME NEW N, IsFiniteSet(N), NEW nd \in [N -> SUBSET N], NEW p, IsPlacing(p, N, nd)
    PROVE  /\ \A i \in Nat : p[i] \subseteq p[i + 1]
           /\ \E k \in 0 .. Cardinality(N) :
                  p[k] = p[k + 1] /\ (\A m \in 0 .. (k - 1) : p[m] # p[m + 1])
<1> DEFINE C == Cardinality(N)
<1>1. /\ p \in [Nat -> SUBSET N] /\ p[0] = {}
      /\ \A n \in Nat : p[n + 1] = {t \in N : nd[t] \subseteq p[n]}
  BY DEF IsPlacing
<1>2. C \in Nat
  BY FS_CardinalityType
<1>3. ASSUME NEW n \in Nat
      PROVE  /\ p[n] \in SUBSET N /\ IsFiniteSet(p[n]) /\ Cardinality(p[n]) \in Nat
             /\ Cardinality(p[n]) <= C /\ (Cardinality(p[n]) = C => p[n] = N)
  BY <1>1, FS_Subset, FS_CardinalityType
<1>4. \A i \in Nat : p[i] \subseteq p[i + 1]
  <2> DEFINE T == {i \in Nat : p[i] \subseteq p[i + 1]}
  <2>1. 0 \in T
    BY <1>1
  <2>2. ASSUME NEW i \in Nat, i \in T PROVE i + 1 \in T
    <3>1. i + 1 \in Nat /\ p[i] \subseteq p[i + 1]
      BY <2>2
    <3>2. p[i + 1] = {t \in N : nd[t] \subseteq p[i]} /\ p[(i + 1) + 1] = {t \in N : nd[t] \subseteq p[i + 1]}
      BY <1>1, <3>1
    <3> QED
      BY <3>1, <3>2
  <2> HIDE DEF T
  <2>3. \A i \in Nat : i \in T
    BY <2>1, <2>2, SetInduction
  <2> QED
    BY <2>3 DEF T
<1> DEFINE Depth(k) == p[k] = p[k + 1] /\ (\A m \in 0 .. (k - 1) : p[m] # p[m + 1])
           Grew(n) == Cardinality(p[n]) >= n /\ \A m \in 0 .. (n - 1) : p[m] # p[m + 1]
           T == {n \in Nat : Grew(n) \/ \E k \in 0 .. n : Depth(k)}
<1>5. 0 \in T
  BY <1>3
<1>6. ASSUME NEW n \in Nat, n \in T PROVE n + 1 \in T
  <2>1. CASE \E k \in 0 .. n : Depth(k)
    <3>1. \A k \in 0 .. n : k \in 0 .. (n + 1)
      OBVIOUS
    <3> HIDE DEF Depth, Grew
    <3> QED
      BY <2>1, <3>1
  <2>2. CASE Grew(n) /\ p[n] = p[n + 1]
    <3>1. n \in 0 .. (n + 1) /\ Depth(n)
      BY <2>2
    <3> HIDE DEF Depth, Grew
    <3> QED
      BY <3>1
  <2>3. CASE Grew(n) /\ p[n] # p[n + 1]
    <3>1. /\ Cardinality(p[n]) \in Nat /\ Cardinality(p[n + 1]) \in Nat /\ IsFiniteSet(p[n + 1])
          /\ p[n] \subseteq p[n + 1]
      BY <1>3, <1>4
    <3>2. Cardinality(p[n]) <= Cardinality(p[n + 1]) /\ Cardinality(p[n]) # Cardinality(p[n + 1])
      BY <2>3, <3>1, FS_Subset
    <3>3. Cardinality(p[n + 1]) >= n + 1
      BY <2>3, <3>1, <3>2
    <3>4. \A m \in 0 .. ((n + 1) - 1) : m \in 0 .. (n - 1) \/ m = n
      OBVIOUS
    <3>5. Grew(n + 1)
      BY <2>3, <3>3, <3>4
    <3> HIDE DEF Depth, Grew
    <3> QED
      BY <3>5
  <2> HIDE DEF Depth, Grew
  <2> QED
    BY <1>6, <2>1, <2>2, <2>3
<1>7. C \in T
  <2> HIDE DEF T, C
  <2> QED
    BY <1>2, <1>5, <1>6, SetInduction
<1>8. \E k \in 0 .. C : Depth(k)
  <2>1. CASE Grew(C)
    <3>1. p[C] = N
      BY <1>2, <1>3, <2>1
    <3>2. p[C] = p[C + 1]
      BY <1>1, <1>2, <1>4, <3>1
    <3> QED
      BY <1>2, <2>1, <3>2
  <2> HIDE DEF Depth, Grew
  <2> QED
    BY <1>7, <2>1
<1> QED
  BY <1>4, <1>8

(* The reference levels of any finite graph are a valid plan; they hold     *)
(* every task if the graph has no cycle.                                    *)
LEMMA LevelsAreValid ==
    ASSUME NEW N, IsFiniteSet(N), NEW nd \in [N -> SUBSET N]
    PROVE  LET plan == LevelsOf(nd)
           IN  /\ ValidPlan(nd, plan)
               /\ ~Cyclic(nd) => UNION {plan[i] : i \in DOMAIN plan} = N
<1> DEFINE C == Cardinality(N)
           plan == LevelsOf(nd)
<1>1. C \in Nat
  BY FS_CardinalityType
<1>2. PICK p : IsPlacing(p, N, nd)
  <2> HIDE DEF C
  <2>1. Cardinality(N) \in Nat
    BY <1>1 DEF C
  <2> QED
    BY <2>1, PlacedSteps, Zenon
<1>3. PICK k \in 0 .. C : p[k] = p[k + 1] /\ (\A m \in 0 .. (k - 1) : p[m] # p[m + 1])
  BY <1>2, PlacingEnds
<1>4. /\ p \in [Nat -> SUBSET N] /\ p[0] = {} /\ k \in Nat
      /\ \A n \in Nat : p[n + 1] = {t \in N : nd[t] \subseteq p[n]}
      /\ \A i \in Nat : p[i] \subseteq p[i + 1]
  <2>1. \A i \in Nat : p[i] \subseteq p[i + 1]
    BY <1>2, PlacingEnds, Zenon
  <2>2. k \in Nat
    BY <1>1, <1>3
  <2> QED
    BY <1>2, <2>1, <2>2 DEF IsPlacing
<1>5. plan = [i \in 1 .. k |-> p[i] \ p[i - 1]]
  BY <1>2, <1>3 DEF IsPlacing
<1> HIDE DEF plan, C
<1>6. /\ DOMAIN plan = 1 .. k /\ plan \in Seq(SUBSET N)
      /\ \A i \in 1 .. k : plan[i] = p[i] \ p[i - 1] /\ i \in Nat /\ i - 1 \in Nat /\ (i - 1) + 1 = i
  <2>1. \A i \in 1 .. k : i \in Nat /\ i - 1 \in Nat /\ (i - 1) + 1 = i /\ p[i] \ p[i - 1] \in SUBSET N
    BY <1>4
  <2>2. plan \in [1 .. k -> SUBSET N]
    BY <1>5, <2>1
  <2>3. plan \in Seq(SUBSET N)
    BY <1>4, <2>2
  <2> QED
    BY <1>5, <2>1, <2>3
<1>7. \A m \in Nat : m <= k => \A t \in p[m] : \E j \in 1 .. m : t \in plan[j]
  <2> DEFINE T == {m \in Nat : m <= k => \A t \in p[m] : \E j \in 1 .. m : t \in plan[j]}
  <2>1. 0 \in T
    BY <1>4
  <2>2. ASSUME NEW m \in Nat, m \in T PROVE m + 1 \in T
    <3> SUFFICES ASSUME m + 1 <= k, NEW t \in p[m + 1] PROVE \E j \in 1 .. (m + 1) : t \in plan[j]
      OBVIOUS
    <3>1. m + 1 \in 1 .. k /\ (m + 1) - 1 = m /\ m + 1 \in 1 .. (m + 1)
      BY <1>4
    <3>2. CASE t \in p[m]
      <4>1. PICK j \in 1 .. m : t \in plan[j]
        BY <1>4, <2>2, <3>2
      <4> QED
        BY <4>1
    <3>3. CASE t \notin p[m]
      BY <1>6, <3>1, <3>3
    <3> QED
      BY <3>2, <3>3
  <2> HIDE DEF T
  <2>3. \A m \in Nat : m \in T
    BY <2>1, <2>2, SetInduction
  <2> QED
    BY <2>3 DEF T
<1>8. ASSUME NEW i \in Nat, NEW n \in Nat PROVE p[i] \subseteq p[i + n]
  <2> DEFINE T == {m \in Nat : p[i] \subseteq p[i + m]}
  <2>1. 0 \in T
    BY <1>4
  <2>2. ASSUME NEW m \in Nat, m \in T PROVE m + 1 \in T
    <3>1. i + m \in Nat /\ (i + m) + 1 = i + (m + 1)
      OBVIOUS
    <3>2. p[i + m] \subseteq p[i + (m + 1)]
      BY <1>4, <3>1
    <3> QED
      BY <2>2, <3>2
  <2> HIDE DEF T
  <2>3. n \in T
    BY <2>1, <2>2, SetInduction
  <2> QED
    BY <2>3 DEF T
<1>9. ASSUME NEW i \in 1 .. k, NEW j \in 1 .. k, i < j PROVE plan[i] \cap plan[j] = {}
  <2>1. i \in Nat /\ (j - 1) - i \in Nat /\ i + ((j - 1) - i) = j - 1
    BY <1>4, <1>9
  <2>2. p[i] \subseteq p[j - 1]
    BY <1>8, <2>1
  <2> QED
    BY <1>6, <2>2
<1>10. \A i, j \in 1 .. k : i # j => plan[i] \cap plan[j] = {}
  <2> TAKE i, j \in 1 .. k
  <2>1. i # j => i < j \/ j < i
    BY <1>4
  <2> QED
    BY <1>9, <2>1
<1>11. ASSUME NEW i \in 1 .. k, NEW t \in plan[i], NEW d \in nd[t]
       PROVE  \E j \in 1 .. (i - 1) : d \in plan[j]
  <2>1. t \in p[(i - 1) + 1] /\ i - 1 \in Nat /\ i - 1 <= k
    BY <1>4, <1>6
  <2>2. d \in p[i - 1]
    BY <1>4, <2>1
  <2> QED
    BY <1>7, <2>1, <2>2
<1>12. ValidPlan(nd, plan)
  <2>1. DOMAIN nd = N
    OBVIOUS
  <2> QED
    BY <1>6, <1>10, <1>11, <2>1 DEF ValidPlan
<1>13. ASSUME ~Cyclic(nd) PROVE UNION {plan[i] : i \in DOMAIN plan} = N
  <2> DEFINE U == N \ p[k]
  <2>1. \A t \in U : nd[t] \cap U # {}
    BY <1>3, <1>4
  <2>2. U \in SUBSET N
    OBVIOUS
  <2>3. U = {}
    <3> HIDE DEF U
    <3> QED
      BY <1>13, <2>1, <2>2, AcyclicMinimal
  <2>4. p[k] = N
    BY <1>4, <2>3
  <2> QED
    BY <1>4, <1>6, <1>7, <2>4
<1> QED
  BY <1>12, <1>13 DEF plan

(* For every finite acyclic workflow and all targets the plan is valid: its *)
(* levels are disjoint, a dependency is in an earlier level, and together   *)
(* they hold exactly what the targets need.  It is what Scheduler assumes   *)
(* of Plans, and why a level may run in parallel (toposort.go 5-11, 91-92). *)
THEOREM PlansAreValid ==
    ASSUME NEW N, IsFiniteSet(N), NEW nd \in [N -> SUBSET N], ~Cyclic(nd),
           NEW T \in SUBSET N
    PROVE  LET plan == PlanFor(nd, T)
           IN  /\ ValidPlan(nd, plan)
               /\ UNION {plan[i] : i \in DOMAIN plan} = NeededBy(nd, T)
<1> DEFINE S == NeededBy(nd, T)
           g == Subgraph(nd, S)
           plan == LevelsOf(g)
<1>1. S \in SUBSET N /\ Closed(nd, S) /\ IsFiniteSet(S)
  BY NeededLeast, FS_Subset
<1> HIDE DEF S
<1>2. g \in [S -> SUBSET S] /\ DOMAIN g = S /\ \A t \in S : g[t] = nd[t]
  BY <1>1 DEF Subgraph, Closed
<1>3. ~Cyclic(g)
  BY <1>1, PartAcyclic
<1> HIDE DEF g
<1>4. ValidPlan(g, plan) /\ UNION {plan[i] : i \in DOMAIN plan} = S
  BY <1>1, <1>2, <1>3, LevelsAreValid
<1>5. PlanFor(nd, T) = plan
  BY DEF PlanFor, S, g
<1> HIDE DEF plan
<1>6. ValidPlan(nd, plan)
  <2>1. plan \in Seq(SUBSET S) /\ DOMAIN nd = N
    BY <1>2, <1>4 DEF ValidPlan
  <2>2. plan \in Seq(SUBSET N)
    BY <1>1, <2>1
  <2>3. \A i \in DOMAIN plan : \A t \in plan[i] : t \in S
    BY <1>4
  <2> QED
    BY <1>2, <1>4, <2>1, <2>2, <2>3 DEF ValidPlan
<1> QED
  BY <1>4, <1>5, <1>6 DEF S
================================================================================
