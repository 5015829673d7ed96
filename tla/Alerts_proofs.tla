---------------------------- MODULE Alerts_proofs ---------------------------
(***************************************************************************)
(* Proofs about Alerts, for any applications, durations, cooldowns and     *)
(* sizes of the queue: the detector's clocks agree with the history.       *)
(***************************************************************************)
EXTENDS Alerts, TLAPS, FiniteSetTheorems

USE AppsAssumption, TimesAssumption, LoadsAssumption, NoneAssumption

LEMMA Bounds == Duration \in Nat \ {0} /\ Cooldown \in Nat \ {0} /\ QueueSize \in Nat \ {0}
  BY TimesAssumption

(* The notices of one refresh, in any order, are a sequence of them.       *)
LEMMA SeqsOfApps ==
  ASSUME NEW S \in SUBSET Apps, NEW s \in SetToSeqs(S)
  PROVE  s \in Seq(Apps) /\ \A a : Contains(s, a) => a \in S
<1>1. IsFiniteSet(S)
  BY FS_Subset
<1>2. Cardinality(S) \in Nat
  BY <1>1, FS_CardinalityType
<1>3. s \in [1 .. Cardinality(S) -> S]
  BY DEF SetToSeqs
<1>. QED
  BY <1>2, <1>3 DEF Contains

(* Ages stay ages.                                                         *)
LEMMA OlderType ==
  ASSUME NEW limit \in Nat, NEW age \in (0 .. limit) \cup {None}
  PROVE  /\ Older(age, limit) \in (0 .. limit) \cup {None}
         /\ Older(age, limit) = None <=> age = None
         /\ age # None => Older(age, limit) = Lower(age + 1, limit)
                          /\ Lower(age + 1, limit) \in 0 .. limit
<1>1. CASE age = None
  BY <1>1 DEF Older
<1>2. CASE age # None
  <2>1. age \in 0 .. limit
    BY <1>2
  <2>2. Lower(age + 1, limit) \in 0 .. limit
    BY <2>1 DEF Lower
  <2>. QED
    BY <1>2, <2>1, <2>2 DEF Older
<1>. QED
  BY <1>1, <1>2

-----------------------------------------------------------------------------
(* Types.                                                                  *)

LEMMA InitTypes == Init => TypeOK /\ Clocks /\ Rising /\ SustainedIsNotified
<1> SUFFICES ASSUME Init PROVE TypeOK /\ Clocks /\ Rising /\ SustainedIsNotified
  OBVIOUS
<1>1. 0 \in 0 .. (Duration + 1) /\ Cooldown \in 0 .. Cooldown /\ Duration + 1 # 0
  BY Bounds
<1>2. <<>> \in Seq(Apps) /\ Len(<<>>) = 0 /\ 0 <= QueueSize
  BY Bounds
<1>3. TypeOK
  BY <1>1, <1>2 DEF Init, TypeOK, Idle
<1>. QED
  BY <1>1, <1>3 DEF Init, Clocks, Rising, SustainedIsNotified

LEMMA RefreshTypes ==
  ASSUME TypeOK, Refresh
  PROVE  TypeOK'
<1>1. PICK load \in [Apps -> Loads] :
        /\ pending' \in SetToSeqs(Raised(load))
        /\ exceeded' = [a \in Apps |-> NextExceeded(a, load[a])]
        /\ notified' = [a \in Apps |-> IF a \in Raised(load) THEN 0
                                       ELSE Older(notified[a], Cooldown)]
        /\ above' = [a \in Apps |-> IF enabled /\ load[a] \in {"high", "both"}
                                    THEN Lower(above[a] + 1, Duration + 1) ELSE 0]
        /\ gap' = [a \in Apps |-> IF a \in Raised(load) THEN 0
                                  ELSE Lower(gap[a] + 1, Cooldown)]
        /\ UNCHANGED <<enabled, notifier>>
  BY DEF Refresh
<1>2. pending' \in Seq(Apps)
  <2>1. Raised(load) \in SUBSET Apps
    BY DEF Raised
  <2>. QED
    BY <1>1, <2>1, SeqsOfApps
<1>3. exceeded' \in [Apps -> (0 .. Duration) \cup {None}]
  <2>1. ASSUME NEW a \in Apps
        PROVE  NextExceeded(a, load[a]) \in (0 .. Duration) \cup {None}
    <3>1. exceeded[a] \in (0 .. Duration) \cup {None}
      BY DEF TypeOK
    <3>2. Older(exceeded[a], Duration) \in (0 .. Duration) \cup {None}
      BY <3>1, Bounds, OlderType
    <3>3. 0 \in 0 .. Duration
      BY Bounds
    <3>4. \/ NextExceeded(a, load[a]) = Older(exceeded[a], Duration)
          \/ NextExceeded(a, load[a]) = None
          \/ NextExceeded(a, load[a]) = 0
      BY DEF NextExceeded
    <3>. QED
      BY <3>2, <3>3, <3>4
  <2>. QED
    BY <1>1, <2>1
<1>4. notified' \in [Apps -> (0 .. Cooldown) \cup {None}]
  <2>1. ASSUME NEW a \in Apps
        PROVE  Older(notified[a], Cooldown) \in (0 .. Cooldown) \cup {None}
    BY Bounds, OlderType DEF TypeOK
  <2>2. 0 \in 0 .. Cooldown
    BY Bounds
  <2>. QED
    BY <1>1, <2>1, <2>2
<1>5. above' \in [Apps -> 0 .. (Duration + 1)]
  <2>1. ASSUME NEW a \in Apps
        PROVE  Lower(above[a] + 1, Duration + 1) \in 0 .. (Duration + 1)
    BY Bounds DEF TypeOK, Lower
  <2>2. 0 \in 0 .. (Duration + 1)
    BY Bounds
  <2>. QED
    BY <1>1, <2>1, <2>2
<1>6. gap' \in [Apps -> 0 .. Cooldown]
  <2>1. ASSUME NEW a \in Apps
        PROVE  Lower(gap[a] + 1, Cooldown) \in 0 .. Cooldown
    BY Bounds DEF TypeOK, Lower
  <2>2. 0 \in 0 .. Cooldown
    BY Bounds
  <2>. QED
    BY <1>1, <2>1, <2>2
<1>. QED
  BY <1>1, <1>2, <1>3, <1>4, <1>5, <1>6 DEF TypeOK, notifier, Idle

(* Only Refresh moves the clocks; the rest hands notices on.               *)
LEMMA OthersTypes ==
  ASSUME TypeOK, [Next]_vars, ~Refresh
  PROVE  TypeOK' /\ UNCHANGED <<detector, history>>
<1> USE DEF TypeOK, detector, history, notifier
<1>1. CASE Toggle
  BY <1>1 DEF Toggle, Idle
<1>2. CASE Post
  <2>1. Tail(pending) \in Seq(Apps) /\ Head(pending) \in Apps
    BY <1>2 DEF Post
  <2>2. queue' \in Seq(Apps) /\ Len(queue') <= QueueSize
    <3>1. CASE Len(queue) < QueueSize
      <4>1. queue' = Append(queue, Head(pending))
        BY <1>2, <3>1 DEF Post
      <4>2. Append(queue, Head(pending)) \in Seq(Apps)
            /\ Len(Append(queue, Head(pending))) = Len(queue) + 1
        BY <2>1
      <4>. QED
        BY <3>1, <4>1, <4>2, Bounds
    <3>2. CASE ~(Len(queue) < QueueSize)
      BY <1>2, <3>2 DEF Post
    <3>. QED
      BY <3>1, <3>2
  <2>. QED
    BY <1>2, <2>1, <2>2 DEF Post, Idle
<1>3. CASE Take
  <2>1. Tail(queue) \in Seq(Apps) /\ Head(queue) \in Apps
        /\ Len(Tail(queue)) <= QueueSize
    BY <1>3, Bounds DEF Take
  <2>. QED
    BY <1>3, <2>1 DEF Take, Idle
<1>4. CASE Authorize
  <2>1. worker \in [pc : {"authorizing", "delivering"}, app : Apps]
    BY <1>4 DEF Authorize, Idle
  <2>2. [worker EXCEPT !.pc = "delivering"]
          \in [pc : {"authorizing", "delivering"}, app : Apps]
    BY <2>1
  <2>3. worker' \in {Idle} \cup [pc : {"authorizing", "delivering"}, app : Apps]
    BY <1>4, <2>2 DEF Authorize
  <2>4. permission' \in {"undetermined", "granted", "denied"}
    BY <1>4 DEF Authorize
  <2>. QED
    BY <1>4, <2>3, <2>4 DEF Authorize
<1>5. CASE Deliver
  BY <1>5 DEF Deliver, Idle
<1>6. CASE SetPermission
  BY <1>6 DEF SetPermission, Idle
<1>7. CASE UNCHANGED vars
  BY <1>7 DEF vars, Idle
<1>. QED
  BY <1>1, <1>2, <1>3, <1>4, <1>5, <1>6, <1>7 DEF Next

(* The types hold, and the queue is bounded.                               *)
THEOREM TypeCorrect == Spec => []TypeOK
<1>1. Init => TypeOK
  BY InitTypes
<1>2. TypeOK /\ [Next]_vars => TypeOK'
  BY RefreshTypes, OthersTypes
<1>. QED
  BY <1>1, <1>2, PTL DEF Spec

-----------------------------------------------------------------------------
(* Clocks.                                                                 *)

LEMMA RefreshClocks ==
  ASSUME TypeOK, Clocks, Refresh
  PROVE  /\ Clocks'
         /\ \A a \in Apps : Contains(pending', a) => gap[a] + 1 >= Cooldown
<1>1. PICK load \in [Apps -> Loads] :
        /\ pending' \in SetToSeqs(Raised(load))
        /\ notified' = [a \in Apps |-> IF a \in Raised(load) THEN 0
                                       ELSE Older(notified[a], Cooldown)]
        /\ gap' = [a \in Apps |-> IF a \in Raised(load) THEN 0
                                  ELSE Lower(gap[a] + 1, Cooldown)]
  BY DEF Refresh
<1>2. ASSUME NEW a \in Apps
      PROVE  gap'[a] = IF notified'[a] = None THEN Cooldown ELSE notified'[a]
  <2>1. CASE a \in Raised(load)
    <3>1. notified'[a] = 0 /\ gap'[a] = 0 /\ 0 # None
      BY <1>1, <2>1
    <3>. QED
      BY <3>1
  <2>2. CASE a \notin Raised(load)
    <3>1. notified'[a] = Older(notified[a], Cooldown)
          /\ gap'[a] = Lower(gap[a] + 1, Cooldown)
      BY <1>1, <2>2
    <3>2. notified[a] \in (0 .. Cooldown) \cup {None}
      BY DEF TypeOK
    <3>3. CASE notified[a] = None
      <4>1. gap[a] = Cooldown
        BY <3>3 DEF Clocks
      <4>2. Lower(Cooldown + 1, Cooldown) = Cooldown
        BY Bounds DEF Lower
      <4>. QED
        BY <3>1, <3>3, <4>1, <4>2 DEF Older
    <3>4. CASE notified[a] # None
      <4>1. gap[a] = notified[a]
        BY <3>4 DEF Clocks
      <4>2. Older(notified[a], Cooldown) = Lower(notified[a] + 1, Cooldown)
            /\ Older(notified[a], Cooldown) # None
        BY <3>2, <3>4, Bounds, OlderType
      <4>. QED
        BY <3>1, <4>1, <4>2
    <3>. QED
      BY <3>3, <3>4
  <2>. QED
    BY <2>1, <2>2
<1>3. ASSUME NEW a \in Apps, Contains(pending', a)
      PROVE  gap[a] + 1 >= Cooldown
  <2>1. a \in Raised(load)
    <3>1. Raised(load) \in SUBSET Apps
      BY DEF Raised
    <3>. QED
      BY <1>1, <1>3, <3>1, SeqsOfApps
  <2>2. notified[a] = None \/ Older(notified[a], Cooldown) = Cooldown
    BY <2>1 DEF Raised, Due
  <2>3. CASE notified[a] = None
    <3>1. gap[a] = Cooldown
      BY <2>3 DEF Clocks
    <3>. QED
      BY <3>1, Bounds
  <2>4. CASE notified[a] # None
    <3>1. gap[a] = notified[a] /\ gap[a] \in 0 .. Cooldown
      BY <2>4 DEF Clocks, TypeOK
    <3>2. Lower(gap[a] + 1, Cooldown) = Cooldown
      BY <2>2, <2>4, <3>1 DEF Older
    <3>. QED
      BY <3>1, <3>2, Bounds DEF Lower
  <2>. QED
    BY <2>2, <2>3, <2>4
<1>. QED
  BY <1>2, <1>3 DEF Clocks

(* However an application rises and falls, its notices are Cooldown apart. *)
THEOREM Spaced == Spec => NoticesAreSpaced
<1>1. Init => TypeOK /\ Clocks
  BY InitTypes
<1>2. TypeOK /\ Clocks /\ [Next]_vars => (TypeOK /\ Clocks)'
  <2> SUFFICES ASSUME TypeOK, Clocks, [Next]_vars PROVE (TypeOK /\ Clocks)'
    OBVIOUS
  <2>1. CASE Refresh
    BY <2>1, RefreshTypes, RefreshClocks
  <2>2. CASE ~Refresh
    BY <2>2, OthersTypes DEF Clocks, detector, history
  <2>. QED
    BY <2>1, <2>2
<1>3. TypeOK /\ Clocks /\ [Next]_vars =>
        [\A a \in Apps : pending = <<>> /\ Contains(pending', a)
                          => gap[a] + 1 >= Cooldown]_vars
  <2> SUFFICES ASSUME TypeOK, Clocks, [Next]_vars, NEW a \in Apps,
                      pending = <<>>, Contains(pending', a), vars' # vars
               PROVE  gap[a] + 1 >= Cooldown
    OBVIOUS
  <2>1. CASE Refresh
    BY <2>1, RefreshClocks
  <2>2. CASE ~Refresh
    <3>1. pending' = <<>>
      BY <2>2 DEF Next, Toggle, Post, Take, Authorize, Deliver, SetPermission
    <3>2. ~Contains(<<>>, a)
      BY DEF Contains
    <3>. QED
      BY <3>1, <3>2
  <2>. QED
    BY <2>1, <2>2
<1>. QED
  BY <1>1, <1>2, <1>3, PTL DEF Spec, NoticesAreSpaced

-----------------------------------------------------------------------------
(* Sustained use, when no two groups share an AppID.                       *)

LEMMA RefreshRising ==
  ASSUME "both" \notin Loads, TypeOK, Clocks, Rising, SustainedIsNotified, Refresh
  PROVE  Rising' /\ SustainedIsNotified'
<1>1. PICK load \in [Apps -> Loads] :
        /\ exceeded' = [a \in Apps |-> NextExceeded(a, load[a])]
        /\ above' = [a \in Apps |-> IF enabled /\ load[a] \in {"high", "both"}
                                    THEN Lower(above[a] + 1, Duration + 1) ELSE 0]
        /\ gap' = [a \in Apps |-> IF a \in Raised(load) THEN 0
                                  ELSE Lower(gap[a] + 1, Cooldown)]
  BY DEF Refresh
<1>2. SUFFICES ASSUME NEW a \in Apps, above'[a] > 0
               PROVE  /\ exceeded'[a] # None
                      /\ Lower(above'[a] - 1, Duration) <= exceeded'[a]
                      /\ above'[a] = Duration + 1 => gap'[a] < Cooldown
  BY Bounds DEF Rising, SustainedIsNotified
<1>3. load[a] = "high" /\ enabled /\ above'[a] = Lower(above[a] + 1, Duration + 1)
  BY <1>1, <1>2
<1>4. exceeded'[a] = IF exceeded[a] = None THEN 0 ELSE Older(exceeded[a], Duration)
  BY <1>1, <1>3 DEF NextExceeded
<1>5. /\ above[a] \in 0 .. (Duration + 1)
      /\ exceeded[a] \in (0 .. Duration) \cup {None}
      /\ notified[a] \in (0 .. Cooldown) \cup {None}
      /\ gap[a] \in 0 .. Cooldown
  BY DEF TypeOK
<1>6. CASE exceeded[a] = None
  <2>1. above[a] = 0
    BY <1>5, <1>6, Bounds DEF Rising
  <2>2. above'[a] = 1 /\ Lower(0, Duration) = 0 /\ 1 # Duration + 1
    BY <1>3, <2>1, Bounds DEF Lower
  <2>. QED
    BY <1>4, <1>6, <2>2
<1>7. CASE exceeded[a] # None
  <2>1. /\ exceeded[a] \in 0 .. Duration
        /\ exceeded'[a] = Lower(exceeded[a] + 1, Duration)
        /\ exceeded'[a] \in 0 .. Duration
    BY <1>4, <1>5, <1>7, Bounds, OlderType
  <2>2. above[a] > 0 => Lower(above[a] - 1, Duration) <= exceeded[a]
    BY DEF Rising
  <2>3. Lower(above'[a] - 1, Duration) <= exceeded'[a]
    BY <1>3, <1>5, <2>1, <2>2, Bounds DEF Lower
  <2>4. ASSUME above'[a] = Duration + 1 PROVE gap'[a] < Cooldown
    <3>1. Older(exceeded[a], Duration) = Duration
      <4>1. exceeded'[a] = Duration
        BY <2>1, <2>3, <2>4, Bounds DEF Lower
      <4>. QED
        BY <1>4, <1>7, <4>1
    <3>2. CASE a \in Raised(load)
      BY <1>1, <3>2, Bounds
    <3>3. CASE a \notin Raised(load)
      <4>1. notified[a] # None /\ Older(notified[a], Cooldown) # Cooldown
        BY <1>3, <3>1, <3>3 DEF Raised, Due
      <4>2. gap[a] = notified[a]
        BY <4>1 DEF Clocks
      <4>3. Older(notified[a], Cooldown) = Lower(gap[a] + 1, Cooldown)
        BY <4>1, <4>2 DEF Older
      <4>4. Lower(gap[a] + 1, Cooldown) < Cooldown
        BY <1>5, <4>1, <4>3, Bounds DEF Lower
      <4>. QED
        BY <1>1, <3>3, <4>4
    <3>. QED
      BY <3>2, <3>3
  <2>. QED
    BY <1>7, <2>1, <2>3, <2>4, NoneAssumption
<1>. QED
  BY <1>6, <1>7

(* An application that has been high for Duration was noticed within the   *)
(* last Cooldown, whatever is switched off and on in between.              *)
THEOREM Noticed ==
  ASSUME "both" \notin Loads
  PROVE  Spec => []SustainedIsNotified
<1> DEFINE Inv == TypeOK /\ Clocks /\ Rising /\ SustainedIsNotified
<1>1. Init => Inv
  BY InitTypes
<1>2. Inv /\ [Next]_vars => Inv'
  <2> SUFFICES ASSUME Inv, [Next]_vars PROVE Inv'
    OBVIOUS
  <2>1. CASE Refresh
    BY <2>1, RefreshTypes, RefreshClocks, RefreshRising
  <2>2. CASE ~Refresh
    BY <2>2, OthersTypes
    DEF Clocks, Rising, SustainedIsNotified, detector, history
  <2>. QED
    BY <2>1, <2>2
<1>. QED
  BY <1>1, <1>2, PTL DEF Spec
=============================================================================
