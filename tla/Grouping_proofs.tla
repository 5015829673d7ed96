--------------------------- MODULE Grouping_proofs --------------------------
(***************************************************************************)
(* Grouping for any processes, lists and running applications: every       *)
(* listed process is in one group and in the right one, whatever the order *)
(* of the list and the shape of the parents, and a group is as restricted  *)
(* as the most restricted of its processes.                                *)
(***************************************************************************)
EXTENDS Grouping, TLAPS, WellFoundedInduction, FiniteSetTheorems

-----------------------------------------------------------------------------
(* Loops over the natural numbers.                                         *)

(* The natural numbers are well-ordered.                                   *)
Less == {ss \in Nat \X Nat : ss[1] < ss[2]}
LEMMA LessIsWellFounded == IsWellFoundedOn(Less, Nat)
BY NatLessThanWellFounded DEF OpToRel, Less

LEMMA Least ==
  ASSUME NEW T \in SUBSET Nat, T # {}
  PROVE  \E x \in T : \A y \in T : x <= y
<1>1. PICK x \in T : \A y \in T : ~(<<y, x>> \in Less)
  BY LessIsWellFounded, WFMin
<1>2. \A y \in T : ~(y < x)
  BY <1>1 DEF Less
<1> QED
  BY <1>2

(* What holds at first and is kept by each step holds all the way.         *)
LEMMA AllSteps ==
  ASSUME NEW n \in Nat, NEW T, 0 \in T,
         \A k \in 0..n : k < n /\ k \in T => k + 1 \in T
  PROVE  \A k \in 0..n : k \in T
<1> DEFINE Others == {k \in 0..n : k \notin T}
<1> SUFFICES ASSUME Others # {} PROVE FALSE
  OBVIOUS
<1>1. PICK k \in Others : \A j \in Others : k <= j
  <2>1. Others \in SUBSET Nat
    OBVIOUS
  <2> QED
    BY <2>1, Least
<1>2. k \in 0..n /\ k \notin T /\ k # 0
  OBVIOUS
<1>3. k - 1 \in 0..n /\ k - 1 < n /\ k - 1 + 1 = k /\ ~(k <= k - 1)
  BY <1>2
<1>4. k - 1 \in T
  BY <1>1, <1>3
<1> QED
  BY <1>2, <1>3, <1>4

(* A loop whose k-th turn is F[k] has a state after each turn.             *)
Turns(n, V) == [1..n -> [V -> V]]
Runs(g, n, base, F) == g[0] = base /\ \A k \in 1..n : g[k] = F[k][g[k - 1]]

LEMMA LoopRuns ==
  ASSUME NEW n \in Nat, NEW V, NEW base \in V, NEW F \in Turns(n, V)
  PROVE  \E g \in [0..n -> V] : Runs(g, n, base, F)
<1> DEFINE T == {m \in 0..n : \E g \in [0..m -> V] : Runs(g, m, base, F)}
<1>1. 0 \in T
  <2>1. [k \in 0..0 |-> base] \in [0..0 -> V]
    OBVIOUS
  <2>2. Runs([k \in 0..0 |-> base], 0, base, F)
    BY DEF Runs
  <2> QED
    BY <2>1, <2>2
<1>2. ASSUME NEW m \in 0..n, m < n, m \in T PROVE m + 1 \in T
  <2>1. PICK g \in [0..m -> V] : Runs(g, m, base, F)
    BY <1>2
  <2> DEFINE h == [k \in 0..(m + 1) |-> IF k = m + 1 THEN F[m + 1][g[m]] ELSE g[k]]
  <2>2. m + 1 \in 1..n /\ m \in 0..m
    BY <1>2
  <2>3. F[m + 1][g[m]] \in V
    BY <2>1, <2>2 DEF Turns
  <2>4. h \in [0..(m + 1) -> V]
    BY <2>1, <2>3
  <2>5. h[0] = base
    BY <2>1 DEF Runs
  <2>6. ASSUME NEW k \in 1..(m + 1) PROVE h[k] = F[k][h[k - 1]]
    <3>1. CASE k = m + 1
      BY <3>1, <2>2
    <3>2. CASE k # m + 1
      <4>1. k \in 1..m /\ k - 1 \in 0..m
        BY <3>2
      <4> QED
        BY <4>1, <2>1 DEF Runs
    <3> QED
      BY <3>1, <3>2
  <2>7. Runs(h, m + 1, base, F)
    <3> HIDE DEF h
    <3> QED
      BY <2>5, <2>6 DEF Runs
  <2>8. m + 1 \in 0..n
    BY <2>2
  <2> HIDE DEF h
  <2> QED
    BY <2>4, <2>7, <2>8
<1>3. n \in T
  <2> HIDE DEF T
  <2>1. \A k \in 0..n : k \in T
    BY <1>1, <1>2, AllSteps
  <2> QED
    BY <2>1
<1> QED
  BY <1>3

(* A finite set of numbers has a greatest.                                 *)
LEMMA GreatestExists ==
  ASSUME NEW S \in SUBSET Nat, IsFiniteSet(S), 0 \in S
  PROVE  Max(S) \in S /\ \A x \in S : x <= Max(S)
<1>0. PICK n \in Nat : ExistsSurjection(1..n, S)
  BY FS_NatSurjection
<1>1. PICK f : f \in Surjection(1..n, S)
  BY <1>0 DEF ExistsSurjection
<1>2. f \in [1..n -> S] /\ \A x \in S : \E i \in 1..n : f[i] = x
  BY <1>1 DEF Surjection
<1> DEFINE T == {m \in 0..n : \E top \in S : \A i \in 1..m : f[i] <= top}
<1>3. 0 \in T
  OBVIOUS
<1>4. ASSUME NEW m \in 0..n, m < n, m \in T PROVE m + 1 \in T
  <2>1. PICK top \in S : \A i \in 1..m : f[i] <= top
    BY <1>4
  <2>2. m + 1 \in 1..n /\ f[m + 1] \in S /\ S \subseteq Nat
    BY <1>2, <1>4
  <2>3. CASE f[m + 1] <= top
    <3>1. \A i \in 1..(m + 1) : f[i] <= top
      BY <2>1, <2>3, <2>2
    <3> QED
      BY <3>1, <2>2
  <2>4. CASE ~(f[m + 1] <= top)
    <3>1. \A i \in 1..(m + 1) : f[i] \in Nat
      <4>1. \A i \in 1..(m + 1) : i \in 1..n
        BY <2>2
      <4> QED
        BY <4>1, <1>2
    <3>2. top \in Nat /\ f[m + 1] \in Nat
      BY <2>2
    <3>3. \A i \in 1..(m + 1) : i \in 1..m \/ i = m + 1
      OBVIOUS
    <3>4. \A i \in 1..(m + 1) : f[i] <= f[m + 1]
      BY <2>1, <2>4, <3>1, <3>2, <3>3
    <3>5. m + 1 \in 0..n
      BY <2>2
    <3> QED
      BY <3>4, <3>5, <2>2
  <2> QED
    BY <2>3, <2>4
<1>5. n \in T
  <2> HIDE DEF T
  <2>1. \A k \in 0..n : k \in T
    BY <1>3, <1>4, AllSteps
  <2> QED
    BY <2>1
<1>6. PICK top \in S : \A i \in 1..n : f[i] <= top
  BY <1>5
<1>7. \A x \in S : top >= x
  BY <1>2, <1>6
<1>8. Max(S) \in S /\ \A x \in S : Max(S) >= x
  BY <1>7 DEF Max
<1> QED
  BY <1>8

-----------------------------------------------------------------------------
(* The decision on a group.                                                *)

Decisions == {"normal", "slow_only", "blocked"}

LEMMA DecideIsADecision ==
  ASSUME NEW d \in Decisions, NEW s
  PROVE  Decide(d, s) \in Decisions
BY DEF Decide, Decisions

(* The loop over the members, one PID after the other.                     *)
LEMMA ClassifyGroupRuns ==
  ASSUME NEW key
  PROVE  \E top \in Nat : \E g \in [0..top -> Decisions] :
           /\ Pids \subseteq 1..top
           /\ ClassifyGroup(key) = g[top]
           /\ \A n \in 1..top :
                g[n] = IF n \in Members(key) THEN Decide(g[n - 1], process[n].safety)
                       ELSE g[n - 1]
<1> DEFINE top == Max(Pids \cup {0})
<1>1. top \in Nat /\ Pids \subseteq 1..top
  <2>1. IsFiniteSet(Pids \cup {0})
    BY PidsAssumption, FS_AddElement
  <2>2. Pids \cup {0} \subseteq Nat /\ 0 \notin Pids
    BY PidsAssumption
  <2>3. top \in Pids \cup {0} /\ \A x \in Pids \cup {0} : x <= top
    BY <2>1, <2>2, GreatestExists
  <2> HIDE DEF top
  <2>4. \A x \in Pids : x \in Nat /\ x # 0 /\ x <= top
    BY <2>2, <2>3
  <2>5. top \in Nat
    BY <2>2, <2>3
  <2> QED
    BY <2>4, <2>5
<1> DEFINE turn(n, d) ==
      IF n \in Members(key) THEN Decide(d, process[n].safety) ELSE d
    F == [n \in 1..top |-> [d \in Decisions |-> turn(n, d)]]
<1>2. F \in [1..top -> [Decisions -> Decisions]]
  BY DecideIsADecision
<1>3. "normal" \in Decisions
  BY DEF Decisions
<1>4. PICK g \in [0..top -> Decisions] :
        g[0] = "normal" /\ \A n \in 1..top : g[n] = F[n][g[n - 1]]
  <2> HIDE DEF F, top, turn
  <2>1. F \in Turns(top, Decisions)
    BY <1>2 DEF Turns
  <2>2. \E g \in [0..top -> Decisions] : Runs(g, top, "normal", F)
    BY <1>1, <1>3, <2>1, LoopRuns
  <2> QED
    BY <2>2 DEF Runs
<1>5. \A n \in 1..top : g[n] = turn(n, g[n - 1])
  <2>1. \A n \in 1..top : n - 1 \in 0..top /\ n \in 1..top
    BY <1>1
  <2> QED
    BY <1>4, <2>1
<1> DEFINE Equation(f) == f =
      [n \in 0..top |-> IF n = 0 THEN "normal"
                        ELSE IF n \in Members(key)
                             THEN Decide(f[n - 1], process[n].safety)
                             ELSE f[n - 1]]
    final == CHOOSE f : Equation(f)
<1>6. Equation(g)
  <2>1. g = [n \in 0..top |-> g[n]]
    BY <1>4
  <2>2. \A n \in 0..top : n = 0 \/ n \in 1..top
    BY <1>1
  <2> HIDE DEF top
  <2> QED
    BY <2>1, <2>2, <1>4, <1>5
<1>7. Equation(final)
  <2> HIDE DEF Equation
  <2> QED
    BY <1>6
<1>8. ClassifyGroup(key) = final[top]
  BY DEF ClassifyGroup
<1>9. \A n \in 0..top : final[n] = g[n]
  <2> DEFINE T == {n \in 0..top : final[n] = g[n]}
  <2> HIDE DEF final, top
  <2>1. final[0] = "normal" /\ 0 \in 0..top
    BY <1>1, <1>7
  <2>2. 0 \in T
    BY <2>1, <1>4
  <2>3. ASSUME NEW n \in 0..top, n < top, n \in T PROVE n + 1 \in T
    <3>1. n + 1 \in 1..top /\ n + 1 \in 0..top /\ n + 1 # 0 /\ n + 1 - 1 = n
      BY <1>1, <2>3
    <3>2. final[n + 1] = IF n + 1 \in Members(key)
                         THEN Decide(final[n], process[n + 1].safety)
                         ELSE final[n]
      BY <1>7, <3>1
    <3>3. g[n + 1] = IF n + 1 \in Members(key)
                     THEN Decide(g[n], process[n + 1].safety) ELSE g[n]
      BY <1>5, <3>1
    <3> QED
      BY <3>1, <3>2, <3>3, <2>3
  <2> HIDE DEF T
  <2>4. \A n \in 0..top : n \in T
    BY <1>1, <2>2, <2>3, AllSteps
  <2> QED
    BY <2>4 DEF T
<1>10. ClassifyGroup(key) = g[top]
  <2>1. top \in 0..top
    BY <1>1
  <2> HIDE DEF top, final
  <2> QED
    BY <2>1, <1>8, <1>9
<1> HIDE DEF top
<1> QED
  BY <1>1, <1>4, <1>5, <1>10

(* From the turn of a process on, the decision is no weaker than the       *)
(* process needs.                                                          *)
Covers(decision, safety) ==
  /\ safety = "blocked" => decision = "blocked"
  /\ safety = "slow_only" => decision \in {"slow_only", "blocked"}

LEMMA DecideCovers ==
  ASSUME NEW d, NEW safety
  PROVE  Covers(Decide(d, safety), safety)
BY DEF Covers, Decide

LEMMA DecideKeeps ==
  ASSUME NEW d, NEW next, NEW safety, Covers(d, safety)
  PROVE  Covers(Decide(d, next), safety)
BY DEF Covers, Decide

LEMMA GroupIsCovered ==
  ASSUME listed \in Seq(Pids), NEW key, NEW p \in Members(key)
  PROVE  Covers(ClassifyGroup(key), process[p].safety)
<1>1. PICK top \in Nat : \E g \in [0..top -> Decisions] :
           /\ Pids \subseteq 1..top
           /\ ClassifyGroup(key) = g[top]
           /\ \A n \in 1..top :
                g[n] = IF n \in Members(key) THEN Decide(g[n - 1], process[n].safety)
                       ELSE g[n - 1]
  BY ClassifyGroupRuns
<1>2. PICK g \in [0..top -> Decisions] :
           /\ Pids \subseteq 1..top
           /\ ClassifyGroup(key) = g[top]
           /\ \A n \in 1..top :
                g[n] = IF n \in Members(key) THEN Decide(g[n - 1], process[n].safety)
                       ELSE g[n - 1]
  BY <1>1
<1>3. p \in 1..top /\ p - 1 \in 0..top
  <2>1. p \in Pids
    BY DEF Members, Listed, Range
  <2> QED
    BY <2>1, <1>2
<1> DEFINE safety == process[p].safety
           T == {n \in 0..top : n >= p => Covers(g[n], safety)}
<1>4. 0 \in T
  BY <1>3
<1>5. ASSUME NEW n \in 0..top, n < top, n \in T PROVE n + 1 \in T
  <2>1. n + 1 \in 1..top /\ n + 1 \in 0..top /\ n + 1 - 1 = n
    BY <1>5
  <2> DEFINE next == process[n + 1].safety
  <2>2. g[n + 1] = IF n + 1 \in Members(key) THEN Decide(g[n], next) ELSE g[n]
    BY <1>2, <2>1
  <2>3. CASE n + 1 = p
    <3>1. next = safety
      BY <2>3
    <3>2. g[n + 1] = Decide(g[n], safety)
      BY <2>2, <2>3, <3>1
    <3> HIDE DEF safety
    <3> QED
      BY <2>1, <3>2, DecideCovers
  <2>4. CASE n + 1 > p
    <3>1. Covers(g[n], safety)
      BY <1>5, <1>3, <2>4
    <3>2. Covers(g[n + 1], safety)
      <4> HIDE DEF safety, next
      <4> QED
        BY <2>2, <3>1, DecideKeeps
    <3> HIDE DEF safety
    <3> QED
      BY <2>1, <3>2
  <2>5. CASE n + 1 < p
    BY <2>1, <2>5, <1>3
  <2> QED
    BY <1>3, <2>1, <2>3, <2>4, <2>5
<1>6. \A n \in 0..top : n \in T
  <2> HIDE DEF T
  <2> QED
    BY <1>4, <1>5, AllSteps
<1>7. top \in T /\ top >= p
  BY <1>3, <1>6
<1>8. Covers(g[top], safety)
  BY <1>7
<1> QED
  BY <1>2, <1>8

-----------------------------------------------------------------------------
(* What the loops have found.                                              *)

Typed ==
  /\ listed \in Seq(Pids)
  /\ parent \in [Pids -> Pids \cup {0}]
  /\ byName \in BOOLEAN
  /\ ~byName => hints \in HintLists
  /\ home = [p \in Pids |-> home[p]]
  /\ phase \in IF byName THEN {"names", "done"}
               ELSE {"hints", "match", "parents", "rest", "done"}

(* A path of n steps from p to the nearest ancestor with an application of *)
(* its own.                                                                *)
Chain(f, n, p) ==
  /\ f \in [0..n -> Pids]
  /\ f[0] = p
  /\ \A i \in 0..n - 1 :
       Direct(f[i]) = NoKey /\ parent[f[i]] \in Listed /\ f[i + 1] = parent[f[i]]

FromNearest(p, key) ==
  \E n \in Nat : \E f : Chain(f, n, p) /\ Direct(f[n]) = key

Sound(known) ==
  \A p \in Pids : known[p] # NoKey => p \in Listed /\ FromNearest(p, known[p])

DirectsKnown(known) == \A p \in Listed : Direct(p) # NoKey => known[p] # NoKey

Main(p) == \E i \in DOMAIN hints : hints[i].primary = p

(* The last pass has come to nothing.                                      *)
Closed == \A p \in Homeless : parent[p] \notin Listed \/ home[parent[p]] = NoKey

(* The groups hold the processes that have a home, each under its own.     *)
AddedAreHome == added = {<<home[p], p>> : p \in Listed \ Homeless}

GroupInv ==
  /\ Typed
  /\ phase = "hints" => home = [p \in Pids |-> NoKey]
  /\ phase = "match" =>
       home = [p \in Pids |-> IF p \in Listed /\ Main(p) THEN Direct(p) ELSE NoKey]
  /\ phase \in {"parents", "rest"} => Sound(home) /\ DirectsKnown(home)
  /\ phase = "rest" => Closed
  /\ phase \in {"hints", "match", "parents", "rest"} => AddedAreHome
  /\ GroupsAreRight

LEMMA ListedArePids ==
  ASSUME Typed
  PROVE  /\ Listed \subseteq Pids /\ 0 \notin Pids
         /\ \A k \in 1..Len(listed) : listed[k] \in Listed
         /\ \A p \in Listed : \E k \in 1..Len(listed) : listed[k] = p
         /\ Len(listed) \in Nat
<1>1. /\ listed \in [1..Len(listed) -> Pids] /\ Len(listed) \in Nat
      /\ DOMAIN listed = 1..Len(listed)
  BY DEF Typed
<1>2. Listed = {listed[k] : k \in 1..Len(listed)}
  BY <1>1 DEF Listed, Range
<1> QED
  BY <1>1, <1>2, PidsAssumption

-----------------------------------------------------------------------------
(* A pass over the list.                                                   *)

LEMMA JoinIsTyped ==
  ASSUME Typed, NEW K, NEW known \in [Pids -> K], NEW p \in Pids
  PROVE  Join(known, p) \in [Pids -> K]
BY DEF Join, Typed

LEMMA PassRuns ==
  ASSUME Typed
  PROVE  \E K : \E known \in [0..Len(listed) -> [Pids -> K]] :
           /\ known[0] = home
           /\ \A k \in 1..Len(listed) : known[k] = Join(known[k - 1], listed[k])
           /\ Pass = known[Len(listed)]
<1> DEFINE n == Len(listed)
           K == {home[p] : p \in Pids}
           V == [Pids -> K]
           F == [k \in 1..n |-> [c \in V |-> Join(c, listed[k])]]
<1>1. n \in Nat /\ \A k \in 1..n : listed[k] \in Pids
  BY ListedArePids
<1>2. home \in V
  BY DEF Typed
<1>3. F \in Turns(n, V)
  <2>1. \A k \in 1..n : \A c \in V : Join(c, listed[k]) \in V
    <3> SUFFICES ASSUME NEW k \in 1..n, NEW c \in V PROVE Join(c, listed[k]) \in V
      OBVIOUS
    <3> HIDE DEF K
    <3> QED
      BY <1>1, JoinIsTyped
  <2> HIDE DEF V, n
  <2> QED
    BY <2>1 DEF Turns
<1>4. PICK g \in [0..n -> V] : Runs(g, n, home, F)
  <2> HIDE DEF F, V, n
  <2> QED
    BY <1>1, <1>2, <1>3, LoopRuns
<1>5. g[0] = home /\ \A k \in 1..n : g[k] = Join(g[k - 1], listed[k])
  <2>1. \A k \in 1..n : k - 1 \in 0..n
    BY <1>1
  <2>2. \A k \in 1..n : g[k - 1] \in V
    BY <2>1
  <2>3. \A k \in 1..n : F[k][g[k - 1]] = Join(g[k - 1], listed[k])
    <3> HIDE DEF V, n
    <3> QED
      BY <2>2
  <2> HIDE DEF V, n, F
  <2> QED
    BY <1>4, <2>3 DEF Runs
<1> DEFINE Equation(f) ==
             f = [k \in 0..n |-> IF k = 0 THEN home ELSE Join(f[k - 1], listed[k])]
           known == CHOOSE f : Equation(f)
<1>6. Equation(g)
  <2>1. g = [k \in 0..n |-> g[k]]
    OBVIOUS
  <2>2. \A k \in 0..n : k = 0 \/ k \in 1..n
    BY <1>1
  <2> HIDE DEF n, V
  <2> QED
    BY <2>1, <2>2, <1>5
<1>7. Equation(known)
  <2> HIDE DEF Equation
  <2> QED
    BY <1>6
<1>8. Pass = known[n]
  BY DEF Pass
<1>9. \A k \in 0..n : known[k] = g[k]
  <2> DEFINE T == {k \in 0..n : known[k] = g[k]}
  <2> HIDE DEF known, n, V
  <2>1. 0 \in T
    BY <1>1, <1>5, <1>7
  <2>2. ASSUME NEW k \in 0..n, k < n, k \in T PROVE k + 1 \in T
    <3>1. k + 1 \in 1..n /\ k + 1 \in 0..n /\ k + 1 # 0 /\ k + 1 - 1 = k
      BY <1>1, <2>2
    <3>2. known[k + 1] = Join(known[k], listed[k + 1])
      BY <1>7, <3>1
    <3>3. g[k + 1] = Join(g[k], listed[k + 1])
      BY <1>5, <3>1
    <3> QED
      BY <3>1, <3>2, <3>3, <2>2
  <2> HIDE DEF T
  <2>3. \A k \in 0..n : k \in T
    BY <1>1, <2>1, <2>2, AllSteps
  <2> QED
    BY <2>3 DEF T
<1>10. Pass = g[n]
  <2> HIDE DEF known
  <2> QED
    BY <1>1, <1>8, <1>9
<1> WITNESS K
<1> WITNESS g \in [0..n -> V]
<1> QED
  BY <1>5, <1>10

LEMMA JoinKeeps ==
  ASSUME Typed, NEW K, NEW known \in [Pids -> K], NEW p \in Pids, NEW q \in Pids
  PROVE  known[q] # NoKey => Join(known, p)[q] = known[q]
BY DEF Join

(* A child of a process whose application is known has the same.           *)
LEMMA ChildHasTheSame ==
  ASSUME Typed, NEW p \in Listed, Direct(p) = NoKey, parent[p] \in Listed,
         NEW key, FromNearest(parent[p], key)
  PROVE  FromNearest(p, key)
<1>1. PICK n \in Nat : \E f : Chain(f, n, parent[p]) /\ Direct(f[n]) = key
  BY DEF FromNearest
<1>2. PICK f : Chain(f, n, parent[p]) /\ Direct(f[n]) = key
  BY <1>1
<1> DEFINE g == [i \in 0..(n + 1) |-> IF i = 0 THEN p ELSE f[i - 1]]
<1>3. f \in [0..n -> Pids] /\ f[0] = parent[p] /\ p \in Pids
  BY <1>2, ListedArePids DEF Chain
<1>4. g \in [0..(n + 1) -> Pids]
  <2>1. \A i \in 0..(n + 1) : i = 0 \/ i - 1 \in 0..n
    OBVIOUS
  <2> QED
    BY <2>1, <1>3
<1>5. g[0] = p /\ \A i \in 0..n : g[i + 1] = f[i]
  <2>1. \A i \in 0..n : i + 1 \in 0..(n + 1) /\ i + 1 # 0 /\ i + 1 - 1 = i
    OBVIOUS
  <2> QED
    BY <2>1
<1>6. ASSUME NEW i \in 0..n
      PROVE Direct(g[i]) = NoKey /\ parent[g[i]] \in Listed /\ g[i + 1] = parent[g[i]]
  <2>1. CASE i = 0
    <3> HIDE DEF g
    <3>1. g[i] = p /\ g[i + 1] = parent[p]
      BY <2>1, <1>5, <1>3
    <3> QED
      BY <3>1
  <2>2. CASE i # 0
    <3>1. i - 1 \in 0..n - 1 /\ i - 1 \in 0..n /\ i - 1 + 1 = i
      BY <2>2
    <3>2. g[i] = f[i - 1] /\ g[i + 1] = f[i]
      BY <3>1, <1>5
    <3>3. Direct(f[i - 1]) = NoKey /\ parent[f[i - 1]] \in Listed
          /\ f[i - 1 + 1] = parent[f[i - 1]]
      BY <3>1, <1>2 DEF Chain
    <3> HIDE DEF g
    <3> QED
      BY <3>1, <3>2, <3>3
  <2> QED
    BY <2>1, <2>2
<1>7. Chain(g, n + 1, p)
  <2>1. n + 1 - 1 = n
    OBVIOUS
  <2> HIDE DEF g
  <2> QED
    BY <2>1, <1>4, <1>5, <1>6 DEF Chain
<1>8. Direct(g[n + 1]) = key /\ n + 1 \in Nat
  BY <1>2, <1>5
<1> HIDE DEF g
<1> QED
  BY <1>7, <1>8 DEF FromNearest

LEMMA JoinIsSound ==
  ASSUME Typed, NEW K, NEW known \in [Pids -> K], Sound(known), NEW p \in Listed,
         DirectsKnown(known)
  PROVE  Sound(Join(known, p)) /\ DirectsKnown(Join(known, p))
<1>1. p \in Pids /\ Listed \subseteq Pids
  BY ListedArePids
<1>2. CASE known[p] = NoKey /\ parent[p] # 0 /\ known[parent[p]] # NoKey
  <2>1. Join(known, p) = [known EXCEPT ![p] = known[parent[p]]]
    BY <1>2 DEF Join
  <2>2. parent[p] \in Pids
    BY <1>1, <1>2 DEF Typed
  <2>3. parent[p] \in Listed /\ FromNearest(parent[p], known[parent[p]])
    BY <2>2, <1>2 DEF Sound
  <2>4. Direct(p) = NoKey
    BY <1>2 DEF DirectsKnown
  <2>5. FromNearest(p, known[parent[p]])
    <3> DEFINE key == known[parent[p]]
    <3>1. FromNearest(parent[p], key)
      BY <2>3
    <3> HIDE DEF key
    <3>2. FromNearest(p, key)
      BY <2>3, <2>4, <3>1, ChildHasTheSame
    <3> QED
      BY <3>2 DEF key
  <2>6. \A q \in Pids : Join(known, p)[q] = IF q = p THEN known[parent[p]] ELSE known[q]
    BY <2>1
  <2>7. Sound(Join(known, p))
    BY <2>5, <2>6 DEF Sound
  <2>8. DirectsKnown(Join(known, p))
    BY <2>6, <1>1, <1>2 DEF DirectsKnown
  <2> QED
    BY <2>7, <2>8
<1>3. CASE ~(known[p] = NoKey /\ parent[p] # 0 /\ known[parent[p]] # NoKey)
  <2>1. Join(known, p) = known
    BY <1>3 DEF Join
  <2> QED
    BY <2>1
<1> QED
  BY <1>2, <1>3

(* A pass keeps what is known, and what it adds is right.                  *)
LEMMA PassIsSound ==
  ASSUME Typed, Sound(home), DirectsKnown(home)
  PROVE  /\ Sound(Pass)
         /\ \A p \in Pids : home[p] # NoKey => Pass[p] = home[p]
         /\ Pass = [p \in Pids |-> Pass[p]]
<1> DEFINE n == Len(listed)
<1>1. n \in Nat /\ \A k \in 1..n : listed[k] \in Listed /\ listed[k] \in Pids
  BY ListedArePids
<1>2. PICK K : \E known \in [0..n -> [Pids -> K]] :
           /\ known[0] = home
           /\ \A k \in 1..n : known[k] = Join(known[k - 1], listed[k])
           /\ Pass = known[n]
  BY PassRuns
<1>3. PICK known \in [0..n -> [Pids -> K]] :
           /\ known[0] = home
           /\ \A k \in 1..n : known[k] = Join(known[k - 1], listed[k])
           /\ Pass = known[n]
  BY <1>2
<1> HIDE DEF n
<1> DEFINE Right(c) == /\ Sound(c) /\ DirectsKnown(c)
                       /\ \A p \in Pids : home[p] # NoKey => c[p] = home[p]
           T == {k \in 0..n : Right(known[k])}
<1>4. 0 \in T
  BY <1>1, <1>3
<1>5. ASSUME NEW k \in 0..n, k < n, k \in T PROVE k + 1 \in T
  <2>1. k + 1 \in 1..n /\ k + 1 \in 0..n /\ k + 1 - 1 = k
    BY <1>1, <1>5
  <2>2. known[k] \in [Pids -> K] /\ Right(known[k])
    BY <1>5
  <2> DEFINE c == known[k]
             p == listed[k + 1]
  <2>3. known[k + 1] = Join(c, p) /\ p \in Listed /\ p \in Pids
    BY <1>1, <1>3, <2>1
  <2>4. c \in [Pids -> K] /\ Right(c)
    BY <2>2
  <2> HIDE DEF c, p
  <2>5. Sound(Join(c, p)) /\ DirectsKnown(Join(c, p))
    BY <2>3, <2>4, JoinIsSound
  <2>6. \A q \in Pids : c[q] # NoKey => Join(c, p)[q] = c[q]
    BY <2>3, <2>4, JoinKeeps
  <2>7. Right(Join(c, p))
    BY <2>4, <2>5, <2>6
  <2> HIDE DEF Right
  <2> QED
    BY <2>1, <2>3, <2>7
<1>6. n \in T
  <2> HIDE DEF T
  <2>1. \A k \in 0..n : k \in T
    BY <1>1, <1>4, <1>5, AllSteps
  <2> QED
    BY <2>1, <1>1
<1>7. Pass \in [Pids -> K]
  BY <1>1, <1>3
<1> QED
  BY <1>3, <1>6, <1>7

(* A pass that changes nothing has nothing to change.                      *)
LEMMA IdlePassIsLast ==
  ASSUME Typed, Sound(home), DirectsKnown(home), Pass = home
  PROVE  Closed
<1> DEFINE n == Len(listed)
<1>1. n \in Nat /\ \A k \in 1..n : listed[k] \in Listed /\ listed[k] \in Pids
  BY ListedArePids
<1>2. PICK K : \E known \in [0..n -> [Pids -> K]] :
           /\ known[0] = home
           /\ \A k \in 1..n : known[k] = Join(known[k - 1], listed[k])
           /\ Pass = known[n]
  BY PassRuns
<1>3. PICK known \in [0..n -> [Pids -> K]] :
           /\ known[0] = home
           /\ \A k \in 1..n : known[k] = Join(known[k - 1], listed[k])
           /\ Pass = known[n]
  BY <1>2
<1>4. \A p \in Listed : \E k \in 1..n : listed[k] = p
  BY ListedArePids
<1> HIDE DEF n
<1>5. ASSUME NEW k \in 0..n, k < n, NEW q \in Pids, known[k][q] # NoKey
      PROVE known[k + 1][q] = known[k][q]
  <2>1. k + 1 \in 1..n /\ k + 1 - 1 = k
    BY <1>1, <1>5
  <2> DEFINE c == known[k]
             p == listed[k + 1]
  <2>2. known[k + 1] = Join(c, p) /\ p \in Pids /\ c \in [Pids -> K]
    BY <1>1, <1>3, <2>1
  <2>3. c[q] # NoKey
    BY <1>5
  <2> HIDE DEF c, p
  <2>4. Join(c, p)[q] = c[q]
    BY <2>2, <2>3, JoinKeeps
  <2> QED
    BY <2>2, <2>4 DEF c
<1>6. \A k \in 0..n : \A q \in Pids : home[q] # NoKey => known[k][q] = home[q]
  <2> DEFINE T == {k \in 0..n : \A q \in Pids : home[q] # NoKey => known[k][q] = home[q]}
  <2>1. 0 \in T
    BY <1>1, <1>3
  <2>2. ASSUME NEW k \in 0..n, k < n, k \in T PROVE k + 1 \in T
    <3>1. k + 1 \in 0..n
      BY <1>1, <2>2
    <3> QED
      BY <2>2, <3>1, <1>5
  <2> HIDE DEF T
  <2>3. \A k \in 0..n : k \in T
    BY <1>1, <2>1, <2>2, AllSteps
  <2> QED
    BY <2>3 DEF T
<1>7. \A k \in 0..n : \A q \in Pids : home[q] = NoKey => known[n - k][q] = NoKey
  <2> DEFINE T == {k \in 0..n : \A q \in Pids : home[q] = NoKey => known[n - k][q] = NoKey}
  <2>1. 0 \in T
    <3>1. n - 0 = n /\ 0 \in 0..n
      BY <1>1
    <3> QED
      BY <3>1, <1>3
  <2>2. ASSUME NEW k \in 0..n, k < n, k \in T PROVE k + 1 \in T
    <3>1. k + 1 \in 0..n /\ n - (k + 1) \in 0..n /\ n - (k + 1) < n
          /\ n - (k + 1) + 1 = n - k
      BY <1>1, <2>2
    <3> DEFINE m == n - (k + 1)
    <3>2. m \in 0..n /\ m < n /\ m + 1 = n - k
      BY <3>1
    <3> HIDE DEF m
    <3>3. ASSUME NEW q \in Pids, home[q] = NoKey PROVE known[m][q] = NoKey
      <4>1. known[m + 1][q] = NoKey
        BY <3>3, <3>2, <2>2
      <4> QED
        BY <4>1, <1>5, <3>2
    <3> QED
      BY <3>1, <3>3 DEF m
  <2> HIDE DEF T
  <2>3. \A k \in 0..n : k \in T
    BY <1>1, <2>1, <2>2, AllSteps
  <2> QED
    BY <2>3 DEF T
<1>8. ASSUME NEW k \in 0..n, NEW q \in Pids PROVE known[k][q] = home[q]
  <2>1. n - k \in 0..n /\ n - (n - k) = k
    BY <1>1
  <2>2. home[q] = NoKey => known[k][q] = NoKey
    BY <2>1, <1>7
  <2> QED
    BY <2>2, <1>6
<1> SUFFICES ASSUME NEW p \in Homeless, parent[p] \in Listed, home[parent[p]] # NoKey
             PROVE FALSE
  BY DEF Closed
<1>9. p \in Listed /\ p \in Pids /\ home[p] = NoKey /\ parent[p] \in Pids /\ parent[p] # 0
  BY ListedArePids DEF Homeless
<1>10. PICK k \in 1..n : listed[k] = p
  BY <1>4, <1>9
<1>11. k \in 0..n /\ k - 1 \in 0..n
  BY <1>1
<1> DEFINE c == known[k - 1]
<1>12. c \in [Pids -> K] /\ c[p] = NoKey /\ c[parent[p]] # NoKey
  BY <1>3, <1>8, <1>9, <1>11
<1>13. known[k] = Join(c, p)
  BY <1>3, <1>10
<1>14. known[k][p] = NoKey
  BY <1>8, <1>9, <1>11
<1> HIDE DEF c
<1>15. Join(c, p)[p] = c[parent[p]]
  BY <1>9, <1>12 DEF Join
<1> QED
  BY <1>12, <1>13, <1>14, <1>15

-----------------------------------------------------------------------------
(* The application of a process.                                           *)

(* What n steps up find for each process, where c is what n - 1 find.      *)
Up(n, c, p) ==
  [q \in Pids |->
     IF Direct(q) # NoKey THEN Direct(q)
     ELSE IF n > 0 /\ parent[q] \in Listed THEN c[parent[q]]
     ELSE <<"pid", p>>]

LEMMA ApplicationClimbs ==
  ASSUME Typed, NEW p
  PROVE  \E c : /\ Application(p) = c[Cardinality(Pids)][p]
                /\ \A n \in 0..Cardinality(Pids) : c[n] = Up(n, c[n - 1], p)
<1> DEFINE N == Cardinality(Pids)
           K == {Direct(q) : q \in Pids} \cup {<<"pid", p>>}
           V == [Pids -> K]
           base == Up(0, 0, p)
           F == [k \in 1..N |-> [c \in V |-> Up(k, c, p)]]
<1>1. N \in Nat /\ Listed \subseteq Pids
  BY PidsAssumption, FS_CardinalityType, ListedArePids
<1>2. base \in V
  <2>1. ASSUME NEW q \in Pids PROVE base[q] \in K
    <3>1. base[q] = IF Direct(q) # NoKey THEN Direct(q) ELSE <<"pid", p>>
      BY DEF Up
    <3> HIDE DEF base
    <3> QED
      BY <3>1
  <2> HIDE DEF K
  <2> QED
    BY <2>1 DEF Up
<1>3. ASSUME NEW k \in 1..N, NEW c \in V PROVE Up(k, c, p) \in V
  <2>1. ASSUME NEW q \in Pids PROVE Up(k, c, p)[q] \in K
    <3>1. k \in Nat /\ c \in [Pids -> K]
      BY <1>1
    <3>2. Up(k, c, p)[q] =
           IF Direct(q) # NoKey THEN Direct(q)
           ELSE IF k > 0 /\ parent[q] \in Listed THEN c[parent[q]]
           ELSE <<"pid", p>>
      BY DEF Up
    <3>3. parent[q] \in Listed => c[parent[q]] \in K
      <4> HIDE DEF K
      <4> QED
        BY <1>1, <3>1
    <3>4. Direct(q) \in K /\ <<"pid", p>> \in K
      OBVIOUS
    <3> HIDE DEF K
    <3> QED
      BY <3>2, <3>3, <3>4
  <2> HIDE DEF K
  <2> QED
    BY <2>1 DEF Up
<1>4. PICK g \in [0..N -> V] : Runs(g, N, base, F)
  <2> HIDE DEF V, N, base
  <2>1. F \in Turns(N, V)
    BY <1>3 DEF Turns
  <2> HIDE DEF F
  <2> QED
    BY <1>1, <1>2, <2>1, LoopRuns
<1> HIDE DEF V, N
<1>5. \A k \in 0..N : g[k] = Up(k, g[k - 1], p)
  <2>1. g[0] = Up(0, g[0 - 1], p)
    <3>1. base = Up(0, g[0 - 1], p)
      BY DEF Up
    <3> QED
      BY <1>4, <3>1 DEF Runs
  <2>2. \A k \in 1..N : g[k - 1] \in V
    <3>1. \A k \in 1..N : k - 1 \in 0..N
      BY <1>1
    <3> QED
      BY <3>1
  <2>3. \A k \in 1..N : g[k] = Up(k, g[k - 1], p)
    BY <1>4, <2>2 DEF Runs
  <2>4. \A k \in 0..N : k = 0 \/ k \in 1..N
    BY <1>1
  <2> QED
    BY <2>1, <2>3, <2>4
<1> DEFINE Equation(f) == f = [n \in 0..N |-> Up(n, f[n - 1], p)]
           climb == CHOOSE f : Equation(f)
<1>6. Equation(g)
  BY <1>5
<1>7. Equation(climb)
  <2> HIDE DEF Equation
  <2> QED
    BY <1>6
<1>8. Application(p) = climb[N][p]
  BY DEF Application, Up, N
<1> HIDE DEF climb
<1> QED
  BY <1>7, <1>8 DEF N

(* A path to the nearest ancestor with an application of its own does not  *)
(* come back to where it was: from there on it would go round for ever.    *)
LEMMA ChainIsShort ==
  ASSUME NEW p, NEW n \in Nat, NEW f, Chain(f, n, p), Direct(f[n]) # NoKey
  PROVE  n < Cardinality(Pids)
<1>1. /\ f \in [0..n -> Pids]
      /\ \A i \in 0..n - 1 : Direct(f[i]) = NoKey /\ f[i + 1] = parent[f[i]]
  BY DEF Chain
<1>2. ASSUME NEW i \in 0..n, NEW j \in 0..n, i < j, f[i] = f[j] PROVE FALSE
  <2> DEFINE m == n - j
             T == {k \in 0..m : f[i + k] = f[j + k]}
  <2>1. m \in Nat /\ i \in Nat /\ j \in Nat /\ j + m = n
    OBVIOUS
  <2> HIDE DEF m
  <2>2. 0 \in T
    BY <1>2, <2>1
  <2>3. ASSUME NEW k \in 0..m, k < m, k \in T PROVE k + 1 \in T
    <3>1. i + k \in 0..n - 1 /\ j + k \in 0..n - 1 /\ k + 1 \in 0..m
      BY <1>2, <2>1, <2>3
    <3>2. f[i + k + 1] = parent[f[i + k]] /\ f[j + k + 1] = parent[f[j + k]]
      BY <1>1, <3>1
    <3>3. f[i + k] = f[j + k]
      BY <2>3
    <3>4. i + (k + 1) = i + k + 1 /\ j + (k + 1) = j + k + 1
      BY <2>1
    <3> QED
      BY <3>1, <3>2, <3>3, <3>4
  <2>4. m \in T
    <3> HIDE DEF T
    <3>1. \A k \in 0..m : k \in T
      BY <2>1, <2>2, <2>3, AllSteps
    <3> QED
      BY <2>1, <3>1
  <2>5. f[i + m] = f[n]
    BY <2>1, <2>4
  <2>6. i + m \in 0..n - 1
    BY <1>2, <2>1
  <2> QED
    BY <1>1, <2>5, <2>6
<1>3. \A i, j \in 0..n : f[i] = f[j] => i = j
  <2>1. \A i, j \in 0..n : i < j \/ j < i \/ i = j
    OBVIOUS
  <2> QED
    BY <1>2, <2>1
<1>4. f \in Injection(0..n, Pids)
  BY <1>1, <1>3 DEF Injection, IsInjective
<1>5. Cardinality(0..n) <= Cardinality(Pids)
  BY <1>4, PidsAssumption, FS_Injection
<1>6. Cardinality(0..n) = n + 1
  <2>1. Cardinality(0..n) = IF 0 > n THEN 0 ELSE n - 0 + 1
    BY FS_Interval
  <2> QED
    BY <2>1
<1>7. Cardinality(Pids) \in Nat
  BY PidsAssumption, FS_CardinalityType
<1> QED
  BY <1>5, <1>6, <1>7

LEMMA NearestIsApplication ==
  ASSUME Typed, NEW p \in Pids, NEW key, key # NoKey, FromNearest(p, key)
  PROVE  Application(p) = key
<1>1. PICK n \in Nat : \E f : Chain(f, n, p) /\ Direct(f[n]) = key
  BY DEF FromNearest
<1>2. PICK f : Chain(f, n, p) /\ Direct(f[n]) = key
  BY <1>1
<1> DEFINE N == Cardinality(Pids)
<1>3. PICK c : /\ Application(p) = c[N][p]
               /\ \A k \in 0..N : c[k] = Up(k, c[k - 1], p)
  BY ApplicationClimbs
<1>4. n < N /\ N \in Nat
  BY <1>2, ChainIsShort, PidsAssumption, FS_CardinalityType
<1> HIDE DEF N
<1>5. f \in [0..n -> Pids] /\ f[0] = p
  BY <1>2 DEF Chain
<1> DEFINE T == {i \in 0..n : c[N][p] = c[N - i][f[i]]}
<1>6. 0 \in T
  <2>1. N - 0 = N
    BY <1>4
  <2> QED
    BY <2>1, <1>5
<1>7. ASSUME NEW i \in 0..n, i < n, i \in T PROVE i + 1 \in T
  <2>1. i \in 0..n - 1 /\ i + 1 \in 0..n /\ N - i \in 0..N /\ N - i > 0
        /\ N - i - 1 = N - (i + 1)
    BY <1>4, <1>7
  <2>2. Direct(f[i]) = NoKey /\ parent[f[i]] \in Listed /\ f[i + 1] = parent[f[i]]
    BY <1>2, <2>1 DEF Chain
  <2> DEFINE m == N - i
  <2>3. c[m] = Up(m, c[m - 1], p) /\ m > 0
    BY <1>3, <2>1
  <2> HIDE DEF m
  <2>4. c[m][f[i]] = c[m - 1][f[i + 1]]
    BY <1>5, <2>2, <2>3 DEF Up
  <2>5. c[N][p] = c[m][f[i]] /\ m - 1 = N - (i + 1)
    BY <1>7, <2>1 DEF m
  <2> QED
    BY <2>1, <2>4, <2>5
<1>8. n \in T
  <2> HIDE DEF T
  <2>1. \A i \in 0..n : i \in T
    BY <1>6, <1>7, AllSteps
  <2> QED
    BY <2>1
<1> DEFINE last == N - n
<1>9. last \in 0..N /\ c[N][p] = c[last][f[n]]
  BY <1>4, <1>8
<1> HIDE DEF last
<1>10. c[last][f[n]] = key
  <2>1. c[last] = Up(last, c[last - 1], p) /\ f[n] \in Pids
    BY <1>3, <1>5, <1>9
  <2> QED
    BY <2>1, <1>2 DEF Up
<1> QED
  BY <1>3, <1>9, <1>10

(* Where the passes found nothing there is nothing to find.                *)
LEMMA HomelessAreAlone ==
  ASSUME Typed, DirectsKnown(home), Closed, NEW p \in Homeless
  PROVE  Application(p) = <<"pid", p>>
<1> DEFINE N == Cardinality(Pids)
<1>1. PICK c : /\ Application(p) = c[N][p]
               /\ \A k \in 0..N : c[k] = Up(k, c[k - 1], p)
  BY ApplicationClimbs
<1>2. N \in Nat
  BY PidsAssumption, FS_CardinalityType
<1>3. Homeless \subseteq Pids
  BY ListedArePids DEF Homeless
<1> HIDE DEF N
<1> DEFINE T == {k \in 0..N : \A q \in Homeless : c[k][q] = <<"pid", p>>}
<1>4. \A q \in Homeless : Direct(q) = NoKey /\ (parent[q] \in Listed => parent[q] \in Homeless)
  BY DEF DirectsKnown, Closed, Homeless
<1>5. 0 \in T
  <2>1. c[0] = Up(0, c[0 - 1], p)
    BY <1>1, <1>2
  <2>2. \A q \in Homeless : c[0][q] = <<"pid", p>>
    BY <2>1, <1>3, <1>4 DEF Up
  <2> QED
    BY <1>2, <2>2
<1>6. ASSUME NEW k \in 0..N, k < N, k \in T PROVE k + 1 \in T
  <2>1. k + 1 \in 0..N /\ k + 1 > 0 /\ k + 1 - 1 = k
    BY <1>2, <1>6
  <2>2. c[k + 1] = Up(k + 1, c[k], p)
    BY <1>1, <2>1
  <2> DEFINE d == c[k]
  <2>3. \A q \in Homeless : d[q] = <<"pid", p>>
    BY <1>6
  <2> HIDE DEF d
  <2>4. \A q \in Homeless : Up(k + 1, d, p)[q] = <<"pid", p>>
    BY <2>1, <2>3, <1>3, <1>4 DEF Up
  <2> QED
    BY <2>1, <2>2, <2>4 DEF d
<1>7. N \in T
  <2> HIDE DEF T
  <2>1. \A k \in 0..N : k \in T
    BY <1>2, <1>5, <1>6, AllSteps
  <2> QED
    BY <2>1, <1>2
<1> QED
  BY <1>1, <1>7

-----------------------------------------------------------------------------
(* The loops, one after the other.                                         *)

LEMMA HintKeyIsAKey ==
  ASSUME NEW hint
  PROVE  HintKey(hint) # NoKey
BY DEF HintKey, NoKey

LEMMA DirectOfMain ==
  ASSUME Typed, ~byName, NEW p \in Pids, Main(p)
  PROVE  /\ HintKey(hints[CHOOSE i \in DOMAIN hints : hints[i].primary = p]) = Direct(p)
         /\ Direct(p) # NoKey
<1> DEFINE main == {i \in DOMAIN hints : hints[i].primary = p}
           a == CHOOSE i \in DOMAIN hints : hints[i].primary = p
           b == CHOOSE i \in main : TRUE
<1>1. a \in DOMAIN hints /\ hints[a].primary = p
  BY DEF Main
<1>2. b \in DOMAIN hints /\ hints[b].primary = p
  BY <1>1
<1>3. hints \in HintLists /\ p # 0
  BY PidsAssumption DEF Typed
<1>4. a = b
  <2> HIDE DEF a, b
  <2> QED
    BY <1>1, <1>2, <1>3, PrimariesAssumption
<1>5. Direct(p) = HintKey(hints[b])
  <2>1. main # {}
    BY <1>1
  <2> QED
    BY <2>1 DEF Direct
<1> QED
  BY <1>4, <1>5, HintKeyIsAKey

LEMMA DirectOfOthers ==
  ASSUME NEW p, ~Main(p)
  PROVE  Direct(p) = IF Matched(p) # {} THEN HintKey(hints[FirstMatch(p)]) ELSE NoKey
<1>1. {i \in DOMAIN hints : hints[i].primary = p} = {}
  BY DEF Main
<1> QED
  BY <1>1 DEF Direct

LEMMA OwnIsNearest ==
  ASSUME NEW p \in Pids
  PROVE  FromNearest(p, Direct(p))
<1> DEFINE f == [i \in 0..0 |-> p]
<1>1. Chain(f, 0, p) /\ f[0] = p
  BY DEF Chain
<1> HIDE DEF f
<1> QED
  BY <1>1 DEF FromNearest

(* The inputs, and what depends on them alone, stay as they are.           *)
LEMMA InputsStay ==
  ASSUME UNCHANGED inputs
  PROVE  /\ Listed' = Listed
         /\ \A p : /\ Direct(p)' = Direct(p) /\ Main(p)' = Main(p)
                   /\ Application(p)' = Application(p)
         /\ \A p, key : FromNearest(p, key)' <=> FromNearest(p, key)
<1>1. Listed' = Listed /\ parent' = parent
  BY DEF inputs, Listed
<1>2. \A p : Direct(p)' = Direct(p)
  BY DEF inputs, Direct, Matched, FirstMatch, HintKey
<1>3. \A p : Main(p)' = Main(p)
  BY DEF inputs, Main
<1>4. \A p : Application(p)' = Application(p)
  BY <1>1, <1>2 DEF Application
<1>5. \A p, f, n : Chain(f, n, p)' <=> Chain(f, n, p)
  BY <1>1, <1>2 DEF Chain
<1>6. \A p, key : FromNearest(p, key)' <=> FromNearest(p, key)
  BY <1>2, <1>5 DEF FromNearest
<1> QED
  BY <1>1, <1>2, <1>3, <1>4, <1>6

LEMMA AddKeepsHomes ==
  ASSUME Typed, AddedAreHome, UNCHANGED inputs,
         NEW procs \in SUBSET Homeless, NEW key, \A p \in procs : key[p] # NoKey,
         Add(key, procs)
  PROVE  AddedAreHome' /\ home' = [p \in Pids |-> home'[p]]
<1>1. Listed' = Listed /\ Listed \subseteq Pids
  BY InputsStay, ListedArePids
<1>2. home' = [p \in Pids |-> IF p \in procs THEN key[p] ELSE home[p]]
  BY DEF Add
<1>3. Listed \ Homeless' = (Listed \ Homeless) \cup procs
  <2>1. \A p \in Listed : home'[p] # NoKey <=> p \in procs \/ home[p] # NoKey
    BY <1>1, <1>2
  <2> QED
    BY <2>1, <1>1 DEF Homeless
<1>4. \A p \in procs : home'[p] = key[p]
  BY <1>1, <1>2 DEF Homeless
<1>5. \A p \in Listed \ Homeless : home'[p] = home[p]
  BY <1>1, <1>2
<1>6. added' = {<<home'[p], p>> : p \in Listed \ Homeless'}
  <2>1. added' = {<<home[p], p>> : p \in Listed \ Homeless} \cup {<<key[p], p>> : p \in procs}
    BY DEF Add, AddedAreHome
  <2> QED
    BY <2>1, <1>3, <1>4, <1>5
<1> QED
  BY <1>1, <1>2, <1>6 DEF AddedAreHome

LEMMA InitInv ==
  ASSUME Init
  PROVE  GroupInv
<1>1. listed \in Seq(Pids)
  BY OrdersAssumption DEF Init
<1>2. Typed
  <2>1. home = [p \in Pids |-> home[p]]
    BY DEF Init
  <2>2. ~byName => hints \in HintLists
    BY DEF Init
  <2>3. phase \in IF byName THEN {"names", "done"}
                  ELSE {"hints", "match", "parents", "rest", "done"}
    BY DEF Init
  <2> QED
    BY <1>1, <2>1, <2>2, <2>3 DEF Init, Typed
<1>3. Listed \subseteq Pids
  BY <1>2, ListedArePids
<1>4. AddedAreHome
  <2>1. Listed \ Homeless = {}
    BY <1>3 DEF Homeless, Init
  <2> QED
    BY <2>1 DEF AddedAreHome, Init
<1>5. phase \in {"names", "hints"} /\ home = [p \in Pids |-> NoKey]
  BY DEF Init
<1> QED
  BY <1>2, <1>4, <1>5 DEF GroupInv, GroupsAreRight

LEMMA AddPrimariesKeepsInv ==
  ASSUME GroupInv, AddPrimaries
  PROVE  GroupInv'
<1> USE DEF GroupInv
<1> DEFINE main == {p \in Listed : \E i \in DOMAIN hints : hints[i].primary = p}
           key == [p \in main |->
                     HintKey(hints[CHOOSE i \in DOMAIN hints : hints[i].primary = p])]
<1>1. Add(key, main) /\ phase' = "match" /\ UNCHANGED inputs /\ phase = "hints"
  BY DEF AddPrimaries
<1>2. Typed /\ ~byName /\ Listed \subseteq Pids
  BY <1>1, ListedArePids DEF Typed
<1>3. \A p \in main : Main(p) /\ p \in Pids
  BY <1>2 DEF Main
<1>4. \A p \in main : key[p] = Direct(p) /\ key[p] # NoKey
  <2>1. \A p \in main : key[p] =
          HintKey(hints[CHOOSE i \in DOMAIN hints : hints[i].primary = p])
    OBVIOUS
  <2> QED
    BY <1>2, <1>3, <2>1, DirectOfMain
<1>5. \A p \in Listed : p \in main <=> Main(p)
  BY DEF Main
<1>6. main \subseteq Homeless
  BY <1>1, <1>2 DEF Homeless
<1> HIDE DEF main, key
<1>7. AddedAreHome' /\ home' = [p \in Pids |-> home'[p]]
  BY <1>1, <1>2, <1>4, <1>6, AddKeepsHomes
<1>8. home' = [p \in Pids |-> IF p \in Listed /\ Main(p) THEN Direct(p) ELSE NoKey]
  <2>1. home' = [p \in Pids |-> IF p \in main THEN key[p] ELSE home[p]]
    BY <1>1 DEF Add
  <2>2. \A p \in main : p \in Listed
    BY <1>6 DEF Homeless
  <2> QED
    BY <2>1, <2>2, <1>1, <1>4, <1>5
<1>9. home' = [p \in Pids |-> IF p \in Listed' /\ Main(p)' THEN Direct(p)' ELSE NoKey]
  BY <1>8, <1>1, InputsStay
<1>10. Typed'
  BY <1>1, <1>2, <1>7 DEF Typed, inputs
<1> QED
  BY <1>1, <1>7, <1>9, <1>10 DEF GroupsAreRight

LEMMA MatchHintsKeepsInv ==
  ASSUME GroupInv, MatchHints
  PROVE  GroupInv'
<1> USE DEF GroupInv
<1> DEFINE found == {p \in Homeless : Matched(p) # {}}
           key == [p \in found |-> HintKey(hints[FirstMatch(p)])]
<1>1. Add(key, found) /\ phase' = "parents" /\ UNCHANGED inputs /\ phase = "match"
  BY DEF MatchHints
<1>2. Typed /\ ~byName /\ Listed \subseteq Pids
  BY <1>1, ListedArePids DEF Typed
<1>3. \A p \in Pids : home[p] = IF p \in Listed /\ Main(p) THEN Direct(p) ELSE NoKey
  BY <1>1
<1>4. \A p \in Pids : Main(p) => Direct(p) # NoKey
  BY <1>2, DirectOfMain
<1>5. \A p \in Homeless : ~Main(p) /\ p \in Listed /\ p \in Pids
  BY <1>2, <1>3, <1>4 DEF Homeless
<1>6. \A p \in found : key[p] = Direct(p) /\ key[p] # NoKey
  <2> SUFFICES ASSUME NEW p \in found PROVE key[p] = Direct(p) /\ key[p] # NoKey
    OBVIOUS
  <2>1. key[p] = HintKey(hints[FirstMatch(p)]) /\ Matched(p) # {} /\ ~Main(p)
    BY <1>5
  <2> HIDE DEF key
  <2> QED
    BY <2>1, DirectOfOthers, HintKeyIsAKey
<1>7. \A p \in Homeless : p \notin found => Direct(p) = NoKey
  BY <1>5, DirectOfOthers
<1>8. found \subseteq Homeless
  OBVIOUS
<1> HIDE DEF found, key
<1>9. AddedAreHome' /\ home' = [p \in Pids |-> home'[p]]
  BY <1>1, <1>2, <1>6, <1>8, AddKeepsHomes
<1>10. \A p \in Pids : home'[p] = IF p \in Listed THEN Direct(p) ELSE NoKey
  <2>1. \A p \in Pids : home'[p] = IF p \in found THEN key[p] ELSE home[p]
    BY <1>1 DEF Add
  <2>2. ASSUME NEW p \in Pids, p \in Homeless PROVE home'[p] = Direct(p)
    BY <2>1, <2>2, <1>6, <1>7 DEF Homeless
  <2>3. ASSUME NEW p \in Pids, p \in Listed, p \notin Homeless PROVE home'[p] = Direct(p)
    BY <2>1, <2>3, <1>3, <1>8 DEF Homeless
  <2>4. ASSUME NEW p \in Pids, p \notin Listed PROVE home'[p] = NoKey
    BY <2>1, <2>4, <1>3, <1>5, <1>8
  <2>5. \A p \in Homeless : p \in Listed
    BY <1>5
  <2> QED
    BY <2>2, <2>3, <2>4, <2>5
<1>11. Sound(home)'
  <2>1. \A p \in Pids : home'[p] # NoKey => p \in Listed /\ FromNearest(p, home'[p])
    BY <1>10, OwnIsNearest
  <2> QED
    BY <2>1, <1>1, InputsStay DEF Sound
<1>12. DirectsKnown(home)'
  <2>1. \A p \in Listed : Direct(p) # NoKey => home'[p] # NoKey
    BY <1>2, <1>10
  <2> QED
    BY <2>1, <1>1, InputsStay DEF DirectsKnown
<1>13. Typed'
  BY <1>1, <1>2, <1>9 DEF Typed, inputs
<1> QED
  BY <1>1, <1>9, <1>11, <1>12, <1>13 DEF GroupsAreRight

LEMMA JoinParentsKeepsInv ==
  ASSUME GroupInv, JoinParents
  PROVE  GroupInv'
<1> USE DEF GroupInv
<1> DEFINE procs == {p \in Homeless : Pass[p] # NoKey}
           key == Pass
<1>1. /\ Add(key, procs) /\ UNCHANGED inputs /\ phase = "parents"
      /\ phase' = IF key = home THEN "rest" ELSE "parents"
  BY DEF JoinParents
<1>2. Typed /\ ~byName /\ Sound(home) /\ DirectsKnown(home) /\ Listed \subseteq Pids
  BY <1>1, ListedArePids DEF Typed
<1>3. Sound(key) /\ \A p \in procs : key[p] # NoKey
  BY <1>2, PassIsSound
<1>4. procs \subseteq Homeless
  OBVIOUS
<1>5. key = home => Closed
  BY <1>2, IdlePassIsLast
<1>6. key = home => procs = {}
  BY DEF Homeless
<1> HIDE DEF procs, key
<1>7. AddedAreHome' /\ home' = [p \in Pids |-> home'[p]]
  BY <1>1, <1>2, <1>3, <1>4, AddKeepsHomes
<1>8. \A p \in Pids : home'[p] = IF p \in procs THEN key[p] ELSE home[p]
  BY <1>1 DEF Add
<1>9. Sound(home)'
  <2>1. \A p \in Pids : home'[p] # NoKey => p \in Listed /\ FromNearest(p, home'[p])
    BY <1>2, <1>3, <1>8 DEF Sound
  <2> QED
    BY <2>1, <1>1, InputsStay DEF Sound
<1>10. DirectsKnown(home)'
  <2>1. \A p \in Listed : Direct(p) # NoKey => home'[p] # NoKey
    BY <1>2, <1>3, <1>8 DEF DirectsKnown
  <2> QED
    BY <2>1, <1>1, InputsStay DEF DirectsKnown
<1>11. phase' = "rest" => Closed'
  <2> SUFFICES ASSUME phase' = "rest" PROVE Closed'
    OBVIOUS
  <2>1. key = home
    BY <1>1
  <2>2. home' = home
    <3>1. \A p \in Pids : home'[p] = home[p]
      BY <1>6, <1>8, <2>1
    <3>2. home = [p \in Pids |-> home[p]]
      BY <1>2 DEF Typed
    <3> QED
      BY <3>1, <3>2, <1>7
  <2> QED
    BY <2>1, <2>2, <1>5, <1>1, InputsStay DEF Closed, Homeless, inputs
<1>12. Typed'
  BY <1>1, <1>2, <1>7 DEF Typed, inputs
<1>13. phase' # "match" /\ phase' # "hints" /\ phase' # "done"
  BY <1>1
<1> QED
  BY <1>7, <1>9, <1>10, <1>11, <1>12, <1>13 DEF GroupsAreRight

LEMMA AddRestKeepsInv ==
  ASSUME GroupInv, AddRest
  PROVE  GroupInv'
<1> USE DEF GroupInv
<1>1. /\ added' = added \cup {<<<<"pid", p>>, p>> : p \in Homeless}
      /\ UNCHANGED <<inputs, home>> /\ phase = "rest" /\ phase' = "done"
  BY DEF AddRest
<1>2. Typed /\ ~byName /\ Sound(home) /\ DirectsKnown(home) /\ Closed /\ AddedAreHome
      /\ Listed \subseteq Pids
  BY <1>1, ListedArePids DEF Typed
<1>3. \A p \in Listed \ Homeless : Application(p) = home[p]
  <2> SUFFICES ASSUME NEW p \in Listed \ Homeless PROVE Application(p) = home[p]
    OBVIOUS
  <2> DEFINE key == home[p]
  <2>1. p \in Pids /\ key # NoKey /\ FromNearest(p, key)
    BY <1>2 DEF Sound, Homeless
  <2> HIDE DEF key
  <2>2. Application(p) = key
    BY <1>2, <2>1, NearestIsApplication
  <2> QED
    BY <2>2 DEF key
<1>4. \A p \in Homeless : Application(p) = <<"pid", p>>
  BY <1>2, HomelessAreAlone
<1>5. added' = {<<Application(p), p>> : p \in Listed}
  <2>1. Homeless \subseteq Listed
    BY DEF Homeless
  <2> QED
    BY <2>1, <1>1, <1>2, <1>3, <1>4 DEF AddedAreHome
<1>6. GroupsAreRight'
  <2>1. Listed' = Listed /\ ~byName' /\ \A p : Application(p)' = Application(p)
    BY <1>1, <1>2, InputsStay DEF inputs
  <2> QED
    BY <2>1, <1>5 DEF GroupsAreRight
<1>7. Typed'
  BY <1>1, <1>2 DEF Typed, inputs
<1> QED
  BY <1>1, <1>6, <1>7

LEMMA GroupByNameKeepsInv ==
  ASSUME GroupInv, GroupByName
  PROVE  GroupInv'
<1> USE DEF GroupInv
<1>1. /\ added' = {<<<<"app", process[p].name>>, p>> : p \in Listed}
      /\ UNCHANGED <<inputs, home>> /\ phase = "names" /\ phase' = "done"
  BY DEF GroupByName
<1>2. Typed /\ byName
  BY <1>1 DEF Typed
<1>3. GroupsAreRight'
  <2>1. Listed' = Listed /\ byName' /\ process' = process
    BY <1>1, <1>2, InputsStay DEF inputs
  <2> QED
    BY <2>1, <1>1 DEF GroupsAreRight
<1>4. Typed'
  BY <1>1, <1>2 DEF Typed, inputs
<1> QED
  BY <1>1, <1>3, <1>4

LEMMA StutterKeepsInv ==
  ASSUME GroupInv, UNCHANGED vars
  PROVE  GroupInv'
<1>1. UNCHANGED inputs /\ phase' = phase /\ home' = home /\ added' = added
  BY DEF vars
<1>2. Listed' = Listed /\ (\A p : Application(p)' = Application(p))
      /\ (\A p : Direct(p)' = Direct(p) /\ Main(p)' = Main(p))
      /\ \A p, key : FromNearest(p, key)' <=> FromNearest(p, key)
  BY <1>1, InputsStay
<1>3. Typed'
  BY <1>1 DEF GroupInv, Typed, inputs
<1>4. (AddedAreHome => AddedAreHome') /\ (Closed => Closed')
  BY <1>1, <1>2 DEF AddedAreHome, Closed, Homeless, inputs
<1>5. (Sound(home) => Sound(home)') /\ (DirectsKnown(home) => DirectsKnown(home)')
  BY <1>1, <1>2 DEF Sound, DirectsKnown
<1>6. GroupsAreRight'
  BY <1>1, <1>2 DEF GroupInv, GroupsAreRight, inputs
<1> QED
  BY <1>1, <1>2, <1>3, <1>4, <1>5, <1>6 DEF GroupInv

LEMMA GroupingInvariant == Spec => []GroupInv
<1>1. Init => GroupInv
  BY InitInv
<1>2. GroupInv /\ [Next]_vars => GroupInv'
  <2> SUFFICES ASSUME GroupInv, [Next]_vars PROVE GroupInv'
    OBVIOUS
  <2>1. CASE AddPrimaries
    BY <2>1, AddPrimariesKeepsInv
  <2>2. CASE MatchHints
    BY <2>2, MatchHintsKeepsInv
  <2>3. CASE JoinParents
    BY <2>3, JoinParentsKeepsInv
  <2>4. CASE AddRest
    BY <2>4, AddRestKeepsInv
  <2>5. CASE GroupByName
    BY <2>5, GroupByNameKeepsInv
  <2>6. CASE Done \/ UNCHANGED vars
    BY <2>6, StutterKeepsInv DEF Done
  <2> QED
    BY <2>1, <2>2, <2>3, <2>4, <2>5, <2>6 DEF Next
<1> QED
  BY <1>1, <1>2, PTL DEF Spec

(* However long the list, in whatever order parents and children stand in  *)
(* it and whether or not the parents go round in a circle: at the end every *)
(* process is in one group, that of its nearest ancestor with an           *)
(* application, or alone where there is none (Group, grouping.go).         *)
THEOREM EveryProcessIsGrouped == Spec => []GroupsAreRight
<1>1. GroupInv => GroupsAreRight
  BY DEF GroupInv
<1> QED
  BY <1>1, GroupingInvariant, PTL

(* A group is blocked where one of its processes is, and at most slow-only *)
(* where one of them is (ClassifyGroup, safety.go).                        *)
THEOREM NoProcessEscapesItsSafety == Spec => []SafetyCoversGroup
<1>1. GroupInv => SafetyCoversGroup
  <2> SUFFICES ASSUME GroupInv, NEW key, NEW p \in Members(key)
               PROVE  /\ process[p].safety = "blocked" => ClassifyGroup(key) = "blocked"
                      /\ process[p].safety = "slow_only" => ClassifyGroup(key) # "normal"
    BY DEF SafetyCoversGroup
  <2>1. Covers(ClassifyGroup(key), process[p].safety)
    BY GroupIsCovered DEF GroupInv, Typed
  <2> QED
    BY <2>1 DEF Covers
<1> QED
  BY <1>1, GroupingInvariant, PTL

(* A pass over the parents that is not the last leaves fewer processes     *)
(* without a group, so there are at most as many passes as processes: the  *)
(* loop ends for any parents, and Refresh lets go of refreshMu.            *)
THEOREM PassesGetOn ==
  ASSUME GroupInv, JoinParents, phase' # "rest"
  PROVE  Homeless' \subseteq Homeless /\ Homeless' # Homeless
<1>1. /\ Add(Pass, {p \in Homeless : Pass[p] # NoKey}) /\ UNCHANGED inputs
      /\ phase = "parents" /\ Pass # home
  BY DEF JoinParents
<1>2. Typed /\ Sound(home) /\ DirectsKnown(home) /\ Listed \subseteq Pids /\ Listed' = Listed
  BY <1>1, ListedArePids, InputsStay DEF GroupInv
<1>3. /\ Sound(Pass) /\ Pass = [p \in Pids |-> Pass[p]]
      /\ \A p \in Pids : home[p] # NoKey => Pass[p] = home[p]
  BY <1>2, PassIsSound
<1>4. PICK p \in Pids : Pass[p] # home[p]
  <2>1. home = [p \in Pids |-> home[p]]
    BY <1>2 DEF Typed
  <2> QED
    BY <2>1, <1>1, <1>3
<1>5. p \in Homeless /\ Pass[p] # NoKey
  <2>1. home[p] = NoKey /\ Pass[p] # NoKey
    BY <1>3, <1>4
  <2> QED
    BY <2>1, <1>3 DEF Sound, Homeless
<1>6. \A q \in Pids : home'[q] = IF q \in Homeless /\ Pass[q] # NoKey THEN Pass[q] ELSE home[q]
  BY <1>1 DEF Add
<1>7. p \notin Homeless'
  BY <1>5, <1>6 DEF Homeless
<1>8. Homeless' \subseteq Homeless
  <2> SUFFICES ASSUME NEW q \in Homeless' PROVE q \in Homeless
    OBVIOUS
  <2>1. q \in Listed /\ q \in Pids /\ home'[q] = NoKey
    BY <1>2 DEF Homeless
  <2> QED
    BY <2>1, <1>6 DEF Homeless
<1> QED
  BY <1>5, <1>7, <1>8

=============================================================================
