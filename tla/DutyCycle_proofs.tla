-------------------------- MODULE DutyCycle_proofs --------------------------
(***************************************************************************)
(* Proofs about DutyCycle, for every length of the cycle and of the window *)
(* and every set of demands and targets.  The two bounds of PlannedStop    *)
(* are the arithmetic; what remains is that the remembered cycle keeps     *)
(* them while plans replace each other, the history peak only grows under  *)
(* it, and base never changes.                                             *)
(***************************************************************************)
EXTENDS DutyCycle, TLAPS

USE CycleAssumption, WindowsAssumption, DemandsAssumption

(* Rounding to the nearest is half a unit off at most.                     *)
LEMMA Rounding ==
  ASSUME NEW a \in Nat, NEW b \in Nat \ {0}
  PROVE  LET q == (2 * a + b) \div (2 * b)
         IN q \in Nat /\ 2 * (q * b) <= 2 * a + b /\ 2 * a < 2 * (q * b) + b
<1> DEFINE n == 2 * a + b
           m == 2 * b
           q == n \div m
<1>1. n \in Nat /\ m \in Nat \ {0}
  OBVIOUS
<1> HIDE DEF n, m
<1>2. q \in Nat /\ q * m <= n /\ n < q * m + m
  BY <1>1, Z3
<1> HIDE DEF q
<1>3. q * m = 2 * (q * b)
  BY <1>2 DEF m
<1>. QED
  BY <1>2, <1>3 DEF q, n, m

(* Products keep the order.                                                *)
LEMMA Monotone ==
  ASSUME NEW x \in Nat, NEW y \in Nat, NEW z \in Nat, x <= y
  PROVE  z * x <= z * y /\ z * x \in Nat
<1>1. PICK k \in Nat : y = x + k
  <2>1. y - x \in Nat /\ y = x + (y - x)
    OBVIOUS
  <2>. QED  BY <2>1
<1>2. z * y = z * x + z * k
  BY <1>1
<1>3. z * k \in Nat /\ z * x \in Nat
  BY <1>1
<1>. QED
  BY <1>2, <1>3

(* A positive factor can be cancelled.                                     *)
LEMMA Cancel ==
  ASSUME NEW x \in Nat, NEW y \in Nat, NEW w \in Nat \ {0}, x * w <= y * w
  PROVE  x <= y
<1> SUFFICES ASSUME x >= y + 1 PROVE FALSE
  OBVIOUS
<1>1. w * (y + 1) <= w * x /\ w * (y + 1) \in Nat
  BY Monotone
<1>2. w * (y + 1) = y * w + w /\ w * x = x * w
  OBVIOUS
<1>3. y * w \in Nat /\ x * w \in Nat
  OBVIOUS
<1>. QED
  BY <1>1, <1>2, <1>3

(* The rounded plan for a sample o of an application with demand d: it     *)
(* leaves enough however short the application ran in the window, and is   *)
(* tight when the application ran for all of it.                           *)
LEMMA PlanArithmetic ==
  ASSUME NEW w \in Windows, NEW t \in Nat, NEW d \in Nat, NEW run \in 0 .. w,
         NEW o \in Nat, o = d * run, o > t * w,
         NEW s \in Nat, s <= Cycle,
         s = (2 * Cycle * (o - t * w) + o) \div (2 * o)
  PROVE  Enough(s, d, t) /\ (run = w => Tight(s, d, t))
<1> DEFINE tw == t * w
           a == Cycle * (o - tw)
           r == Cycle - s
           ct == Cycle * t
           rd == r * d
<1>1. /\ Cycle \in Nat /\ w \in Nat \ {0} /\ run \in Nat
      /\ tw \in Nat /\ o - tw \in Nat /\ o \in Nat \ {0} /\ r \in Nat
  OBVIOUS
<1>2. a \in Nat /\ ct \in Nat /\ rd \in Nat /\ s * o \in Nat /\ r * o \in Nat
  BY <1>1
<1>3. 2 * (s * o) <= 2 * a + o /\ 2 * a < 2 * (s * o) + o
  <2>1. s = (2 * a + o) \div (2 * o)
    OBVIOUS
  <2>. QED
    BY <2>1, <1>1, <1>2, Rounding
<1>4. a = Cycle * o - ct * w
  BY <1>1
<1>5. s * o = Cycle * o - r * o
  <2>1. s * o + r * o = (s + r) * o
    BY <1>1
  <2>2. s + r = Cycle
    BY <1>1
  <2>. QED
    BY <1>1, <1>2, <2>1, <2>2
<1>6. Cycle * o \in Nat /\ ct * w \in Nat
  BY <1>1, <1>2
<1>7. /\ 2 * (ct * w) <= 2 * (r * o) + o
      /\ 2 * (r * o) < 2 * (ct * w) + o
  <2> HIDE DEF a, r, ct
  <2>. QED
    BY <1>1, <1>2, <1>3, <1>4, <1>5, <1>6
<1>8. o <= d * w /\ d * w \in Nat
  BY <1>1, Monotone
<1>9. Enough(s, d, t)
  <2>1. r * o <= r * (d * w)
    BY <1>1, <1>8, Monotone
  <2>2. r * (d * w) = rd * w
    BY <1>1
  <2>3. (2 * ct) * w <= (2 * rd + d) * w
    <3>1. (2 * ct) * w = 2 * (ct * w)
      BY <1>1, <1>2
    <3>2. (2 * rd + d) * w = 2 * (rd * w) + d * w
      BY <1>1, <1>2
    <3>3. rd * w \in Nat
      BY <1>1, <1>2
    <3> HIDE DEF r, ct, rd
    <3>. QED
      BY <1>1, <1>2, <1>6, <1>7, <1>8, <2>1, <2>2, <3>1, <3>2, <3>3
  <2>4. 2 * ct <= 2 * rd + d
    <3> HIDE DEF ct, rd
    <3>. QED  BY <1>1, <1>2, <2>3, Cancel
  <2>5. ct <= rd + d
    <3> HIDE DEF ct, rd
    <3>. QED  BY <1>2, <2>4
  <2>. QED
    BY <2>5 DEF Enough
<1>10. ASSUME run = w PROVE Tight(s, d, t)
  <2>1. r * o = rd * w
    BY <1>1, <1>10
  <2>2. (2 * rd) * w <= (2 * ct + d) * w
    <3>1. (2 * rd) * w = 2 * (rd * w)
      BY <1>1, <1>2
    <3>2. (2 * ct + d) * w = 2 * (ct * w) + d * w
      BY <1>1, <1>2
    <3> HIDE DEF r, ct, rd
    <3>. QED
      BY <1>1, <1>2, <1>6, <1>7, <1>8, <2>1, <3>1, <3>2
  <2>3. 2 * rd <= 2 * ct + d
    <3> HIDE DEF ct, rd
    <3>. QED  BY <1>1, <1>2, <2>2, Cancel
  <2>4. rd <= ct + d
    <3> HIDE DEF ct, rd
    <3>. QED  BY <1>2, <2>3
  <2>. QED
    BY <2>4 DEF Tight
<1>. QED
  BY <1>9, <1>10

(* What PlannedStop promises of any sample of the application.             *)
LEMMA Planned ==
  ASSUME TypeOK, NEW w \in Windows, NEW run \in 0 .. w
  PROVE  LET s == PlannedStop(demand * run, w)
         IN /\ s \in 0 .. (Cycle - MinRun)
            /\ s > 0 => Enough(s, demand, target) \/ s = Cycle - MinRun
            /\ s > 0 /\ run = w =>
                 Tight(s, demand, target) \/ s = Cycle - MinRun
<1> DEFINE o == demand * run
           q == (2 * Cycle * (o - target * w) + o) \div (2 * o)
<1>1. /\ demand \in Nat /\ target \in Nat /\ run \in Nat /\ w \in Nat
      /\ Cycle \in Nat /\ MinRun \in Nat /\ Cycle - MinRun \in Nat
      /\ Cycle - MinRun <= Cycle
  BY DEF TypeOK
<1>2. o \in Nat /\ target * w \in Nat
  BY <1>1
<1>3. CASE target = 0 \/ o <= target * w
  <2>1. PlannedStop(o, w) = 0
    BY <1>3 DEF PlannedStop, UnderLimit
  <2>. QED
    BY <1>1, <2>1
<1>4. CASE ~(target = 0 \/ o <= target * w)
  <2>1. PlannedStop(o, w) = Min(q, Cycle - MinRun)
    BY <1>4 DEF PlannedStop, UnderLimit
  <2>2. q \in Nat
    <3> DEFINE a == Cycle * (o - target * w)
    <3>1. a \in Nat /\ o \in Nat \ {0}
      <4>1. o - target * w \in Nat /\ o \in Nat \ {0}
        BY <1>2, <1>4
      <4>. QED
        BY <1>1, <4>1
    <3>2. q = (2 * a + o) \div (2 * o)
      BY <1>1, <1>2
    <3>. QED
      BY <3>1, <3>2, Rounding
  <2>3. CASE q < Cycle - MinRun
    <3>1. PlannedStop(o, w) = q
      BY <2>1, <2>3 DEF Min
    <3>2. Enough(q, demand, target)
            /\ (run = w => Tight(q, demand, target))
      <4>1. o > target * w /\ q <= Cycle
        BY <1>1, <1>2, <1>4, <2>2, <2>3
      <4>. QED
        BY <1>1, <1>2, <2>2, <4>1, PlanArithmetic
    <3>. QED
      BY <1>1, <2>2, <2>3, <3>1, <3>2
  <2>4. CASE ~(q < Cycle - MinRun)
    <3>1. PlannedStop(o, w) = Cycle - MinRun
      BY <2>1, <2>4 DEF Min
    <3>. QED
      BY <1>1, <3>1
  <2>. QED
    BY <2>3, <2>4
<1>. QED
  BY <1>3, <1>4

(* A higher demand still gets enough, a lower one is still capped.         *)
LEMMA EnoughAbove ==
  ASSUME NEW s \in Nat, s <= Cycle, NEW d \in Nat, NEW e \in Nat, d <= e,
         NEW t \in Nat, Enough(s, d, t)
  PROVE  Enough(s, e, t)
<1>1. (Cycle - s) * d <= (Cycle - s) * e
      /\ (Cycle - s) * d \in Nat /\ (Cycle - s) * e \in Nat
  <2>1. Cycle - s \in Nat
    OBVIOUS
  <2>. QED
    BY <2>1, Monotone
<1>2. Cycle * t \in Nat
  OBVIOUS
<1>. QED
  BY <1>1, <1>2 DEF Enough

LEMMA TightBelow ==
  ASSUME NEW s \in Nat, s < Cycle, NEW d \in Nat, NEW e \in Nat, d <= e,
         NEW t \in Nat, Tight(s, e, t)
  PROVE  Tight(s, d, t)
<1> DEFINE r == Cycle - s - 1
<1>1. r \in Nat
  OBVIOUS
<1>2. r * d <= r * e /\ r * d \in Nat /\ r * e \in Nat
  BY <1>1, Monotone
<1>3. (Cycle - s) * d = r * d + d /\ (Cycle - s) * e = r * e + e
  BY <1>1
<1>4. Cycle * t \in Nat
  OBVIOUS
<1>. QED
  BY <1>2, <1>3, <1>4 DEF Tight

(* A longer stop is tighter still.                                         *)
LEMMA TightLonger ==
  ASSUME NEW s \in Nat, NEW u \in Nat, s <= u, u <= Cycle, NEW d \in Nat,
         NEW t \in Nat, Tight(s, d, t)
  PROVE  Tight(u, d, t)
<1>1. d * (Cycle - u) <= d * (Cycle - s) /\ d * (Cycle - u) \in Nat
      /\ d * (Cycle - s) \in Nat
  <2>1. Cycle - u \in Nat /\ Cycle - s \in Nat /\ Cycle - u <= Cycle - s
    OBVIOUS
  <2>. QED
    BY <2>1, Monotone
<1>2. (Cycle - s) * d = d * (Cycle - s) /\ (Cycle - u) * d = d * (Cycle - u)
  OBVIOUS
<1>3. Cycle * t \in Nat
  OBVIOUS
<1>. QED
  BY <1>1, <1>2, <1>3 DEF Tight

(* The application is never let run for longer than the window, and for    *)
(* all of it when there is no cycle.                                       *)
LEMMA RunTimesInWindow ==
  ASSUME TypeOK, NEW w \in Windows, NEW run \in RunTimes(w)
  PROVE  run \in 0 .. w /\ (stopFor = 0 => run = 0 \/ run = w)
<1> DEFINE k == w \div Cycle
           rest == w % Cycle
           runs == Cycle - stopFor
<1>1. w \in Nat /\ Cycle \in Nat \ {0} /\ runs \in Nat /\ stopFor \in Nat
  BY DEF TypeOK
<1>2. k \in Nat /\ rest \in Nat /\ w = Cycle * k + rest
  BY <1>1, Z3
<1>3. CASE ~sampled \/ stopFor = 0
  BY <1>1, <1>3 DEF RunTimes
<1>4. CASE sampled /\ stopFor # 0
  <2>1. PICK part \in Minus(rest, stopFor) .. Min(rest, runs) :
               run = k * runs + part
    BY <1>4 DEF RunTimes
  <2>2. part \in Nat /\ part <= rest
    BY <1>1, <1>2, <2>1 DEF Minus, Min
  <2>3. k * runs <= k * Cycle /\ k * runs \in Nat
    BY <1>1, <1>2, Monotone
  <2>4. k * Cycle = Cycle * k /\ k * Cycle \in Nat
    BY <1>1, <1>2
  <2> HIDE DEF k, rest, runs
  <2>. QED
    BY <1>1, <1>2, <1>4, <2>1, <2>2, <2>3, <2>4
<1>. QED
  BY <1>3, <1>4

-----------------------------------------------------------------------------
(* A cycle that NextStop settles on: it replaces the remembered one, if    *)
(* that is in force, by a longer one only.                                 *)
LEMMA LimitKeepsIInv ==
  ASSUME IInv, NEW w \in Windows, NEW run \in RunTimes(w),
         Limit(demand * run, w), Refresh
  PROVE  IInv'
<1> DEFINE s == NextStop(demand * run, w)
           p == PlannedStop(demand * run, w)
           top == Cycle - MinRun
<1>1. TypeOK /\ run \in 0 .. w /\ (stopFor = 0 => run = 0 \/ run = w)
  BY RunTimesInWindow DEF IInv
<1>2. /\ p \in 0 .. top
      /\ p > 0 => Enough(p, demand, target) \/ p = top
      /\ p > 0 /\ run = w => Tight(p, demand, target) \/ p = top
  BY <1>1, Planned
<1>3. /\ demand \in Nat /\ demand \in Demands /\ target \in Nat /\ target \in Targets
      /\ peak \in Nat /\ base \in Nat /\ peak \in Demands \cup {0}
      /\ base \in Demands \cup {0} /\ top \in Nat /\ top < Cycle /\ Cycle \in Nat
      /\ memory.stop \in 0 .. top /\ memory.target \in Nat /\ turn \in BOOLEAN
  <2>1. top \in Nat /\ top < Cycle /\ Cycle \in Nat
    OBVIOUS
  <2>2. peak \in Nat /\ base \in Nat /\ demand \in Nat /\ target \in Nat
    BY <1>1 DEF TypeOK
  <2>. QED
    BY <1>1, <2>1, <2>2 DEF TypeOK
<1>4. /\ situation' = "applies" /\ stopFor' = s /\ target' = target
      /\ demand' = demand /\ sampled' = TRUE /\ turn' = ~turn
  BY DEF Limit, Refresh
<1>5. CASE s = 0
  <2>1. memory' = NoCycle
    BY <1>5 DEF Limit
  <2>2. peak' \in Demands \cup {0} /\ base' \in Demands \cup {0}
    BY <1>3, <1>5 DEF Limit
  <2>. QED
    BY <1>3, <1>4, <1>5, <2>1, <2>2 DEF IInv, TypeOK, Situations, NoCycle
<1>6. CASE s # 0 /\ PreviousActive
  <2>1. /\ memory.status = "limited" /\ memory.target = target
        /\ s \in 0 .. top /\ memory.stop <= s /\ (s = memory.stop \/ s = p)
    BY <1>2, <1>3, <1>6 DEF NextStop, PreviousActive, Max
  <2>2. s > 0
    BY <1>6, <2>1
  <2>3. /\ memory' = [status |-> "limited", target |-> target, stop |-> s]
        /\ peak' = Max(peak, demand) /\ base' = base
    BY <1>6, <2>2 DEF Limit
  <2>4. peak' \in Nat /\ peak <= peak' /\ demand <= peak' /\ peak' \in Demands \cup {0}
    BY <1>3, <2>3 DEF Max
  <2>5. Enough(s, peak', target) \/ s = top
    <3>1. CASE s = memory.stop
      <4>1. Enough(s, peak, target) \/ s = top
        BY <2>1, <3>1 DEF IInv
      <4>. QED
        BY <1>3, <2>1, <2>4, <4>1, EnoughAbove
    <3>2. CASE s = p
      <4>1. Enough(s, demand, target) \/ s = top
        BY <1>2, <2>2, <3>2
      <4>. QED
        BY <1>3, <2>1, <2>4, <4>1, EnoughAbove
    <3>. QED
      BY <2>1, <3>1, <3>2
  <2>6. Tight(s, base, target) \/ s = top
    <3>1. Tight(memory.stop, base, target) \/ memory.stop = top
      BY <2>1 DEF IInv
    <3>2. CASE Tight(memory.stop, base, target)
      BY <1>3, <2>1, <3>2, TightLonger
    <3>3. CASE memory.stop = top
      BY <1>3, <2>1, <3>3
    <3>. QED
      BY <3>1, <3>2, <3>3
  <2>7. Enough(memory'.stop, peak', memory'.target) \/ memory'.stop = top
    BY <2>3, <2>5
  <2>8. Tight(memory'.stop, base', memory'.target) \/ memory'.stop = top
    BY <2>3, <2>6
  <2>9. TypeOK'
    BY <1>3, <1>4, <2>1, <2>3, <2>4 DEF TypeOK, Situations
  <2>. QED
    BY <1>4, <2>3, <2>7, <2>8, <2>9 DEF IInv, Enough, Tight
<1>7. CASE s # 0 /\ ~PreviousActive
  <2>1. s = p /\ s \in 0 .. top /\ s > 0
    BY <1>2, <1>3, <1>7 DEF NextStop, Max
  <2>2. /\ memory' = [status |-> "limited", target |-> target, stop |-> s]
        /\ peak' = demand /\ base' = IF stopFor = 0 THEN demand ELSE 0
    BY <1>7, <2>1 DEF Limit
  <2>3. Enough(s, peak', target) \/ s = top
    BY <1>2, <2>1, <2>2
  <2>4. Tight(s, base', target) \/ s = top
    <3>1. CASE stopFor = 0
      <4>1. run # 0
        <5>1. ASSUME run = 0 PROVE p = 0
          <6>1. demand * run = 0 /\ 0 <= target * w
            BY <1>3, <5>1
          <6>. QED
            BY <6>1 DEF PlannedStop, UnderLimit
        <5>. QED
          BY <2>1, <5>1
      <4>. QED
        BY <1>1, <1>2, <2>1, <2>2, <3>1, <4>1
    <3>2. CASE stopFor # 0
      <4>1. base' = 0
        BY <2>2, <3>2
      <4>2. Cycle * target \in Nat /\ (Cycle - s) * 0 = 0
        BY <1>3, <2>1
      <4>. QED
        BY <4>1, <4>2 DEF Tight
    <3>. QED
      BY <3>1, <3>2
  <2>5. Enough(memory'.stop, peak', memory'.target) \/ memory'.stop = top
    BY <2>2, <2>3
  <2>6. Tight(memory'.stop, base', memory'.target) \/ memory'.stop = top
    BY <2>2, <2>4
  <2>7. TypeOK'
    BY <1>3, <1>4, <2>1, <2>2 DEF TypeOK, Situations
  <2>. QED
    BY <1>4, <2>2, <2>5, <2>6, <2>7 DEF IInv, Enough, Tight
<1>. QED
  BY <1>5, <1>6, <1>7

(* The inductive invariant: whatever a user, a policy or the application   *)
(* does between refreshes, the remembered cycle keeps both bounds.         *)
THEOREM Invariance == Spec => []IInv
<1>0. Cycle - MinRun \in Nat /\ 0 \in 0 .. (Cycle - MinRun)
  OBVIOUS
<1>1. Init => IInv
  <2> SUFFICES ASSUME Init PROVE IInv
    OBVIOUS
  <2>1. memory.status = "other"
    BY DEF Init, NoCycle
  <2>2. memory \in [status : {"limited", "other"}, target : Nat,
                    stop : 0 .. (Cycle - MinRun)]
    BY <1>0 DEF Init, NoCycle
  <2>3. TypeOK
    BY <1>0, <2>2 DEF Init, TypeOK, Situations
  <2>. QED
    BY <2>1, <2>3 DEF Init, IInv
<1>2. IInv /\ [Next]_vars => IInv'
  <2> SUFFICES ASSUME IInv, [Next]_vars PROVE IInv'
    OBVIOUS
  <2> USE DEF IInv, TypeOK, Situations
  <2>1. CASE Refresh
    <3>1. CASE \E w \in Windows :
                 \E run \in RunTimes(w) : Limit(demand * run, w)
      BY <2>1, <3>1, LimitKeepsIInv
    <3>2. CASE ManagementOff
      BY <2>1, <3>2 DEF Refresh, ManagementOff, Enough, Tight
    <3>3. CASE InFront
      BY <2>1, <3>3 DEF Refresh, InFront, NoCycle
    <3>4. CASE BarredRule
      BY <2>1, <3>4 DEF Refresh, BarredRule
    <3>. QED
      BY <2>1, <3>1, <3>2, <3>3, <3>4 DEF Refresh
  <2>2. CASE Restart
    <3>1. TypeOK'
      BY <1>0, <2>2 DEF Restart
    <3>. QED
      BY <2>2, <3>1 DEF Restart, Enough, Tight
  <2>3. ASSUME NEW t \in Targets, SetTarget(t) PROVE IInv'
    BY <2>3 DEF SetTarget, Enough, Tight
  <2>4. ASSUME NEW d \in Demands, ChangeDemand(d) PROVE IInv'
    BY <2>4 DEF ChangeDemand, code, Enough, Tight
  <2>5. CASE UNCHANGED vars
    BY <2>5 DEF vars, Enough, Tight
  <2>. QED
    BY <2>1, <2>2, <2>3, <2>4, <2>5 DEF Next
<1>. QED
  BY <1>1, <1>2, PTL DEF Spec

(* Every cycle the planner and its memory ever settle on leaves the        *)
(* application MinRun to run, and the types hold.                          *)
THEOREM TypeCorrect == Spec => []TypeOK
<1>1. IInv => TypeOK
  BY DEF IInv
<1>. QED
  BY <1>1, Invariance, PTL

(* However many refreshes lengthen a cycle, the application never gets     *)
(* less than its target at the highest demand it had under it.             *)
THEOREM NeverStarved == Spec => []NotStarved
<1>1. IInv => NotStarved
  BY DEF IInv, NotStarved
<1>. QED
  BY <1>1, Invariance, PTL

(* A cycle planned from a full sample caps every demand up to that one.    *)
THEOREM Capped == Spec => []CapHolds
<1>1. IInv => CapHolds
  <2> SUFFICES ASSUME IInv, stopFor > 0, memory.target = target, demand <= base
               PROVE  Tight(stopFor, demand, target) \/ stopFor = Cycle - MinRun
    BY DEF CapHolds
  <2>1. Tight(stopFor, base, target) \/ stopFor = Cycle - MinRun
    BY DEF IInv
  <2>2. /\ stopFor \in Nat /\ stopFor < Cycle /\ demand \in Nat
        /\ base \in Nat /\ target \in Nat
    BY DEF IInv, TypeOK
  <2>. QED
    BY <2>1, <2>2, TightBelow
<1>. QED
  BY <1>1, Invariance, PTL
=============================================================================
