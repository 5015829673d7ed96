------------------------- MODULE Generations_proofs -------------------------
(***************************************************************************)
(* Generations for any set of PIDs and any bounds: CPU time is credited    *)
(* once at most, a process that was stopped is on record, and a signal     *)
(* goes astray only when its PID was given away after the check.           *)
(***************************************************************************)
EXTENDS Generations, TLAPS

(* What is known of the lists, the samples and the process under way.      *)
(* A list and the samples never run ahead of the machine.                  *)
ListedInTime ==
  /\ \A x \in listed : x.gen <= gen[x.pid]
  /\ \A o \in previous : o.process.gen <= gen[o.process.pid]

(* What a process that still has its PID has used up to its last sample    *)
(* has been spent and not been credited to another.                        *)
SampleIsCredited ==
  \A o \in previous : o.process = Current(o.process.pid) =>
    /\ o.used <= used[o.process.pid]
    /\ credited[o.process.pid] + used[o.process.pid]
         <= spent[o.process.pid] + o.used

(* Where a PID was given away between the list and the samples, nothing of *)
(* the newcomer has been credited: it may be taken for the one listed.     *)
NewcomerIsUncounted ==
  at = "sample" => \A x \in listed :
    x # Current(x.pid) => credited[x.pid] + used[x.pid] <= spent[x.pid]

CreditInv == TypeOK /\ ListedInTime /\ CreditsAreSpent /\ SampleIsCredited
               /\ NewcomerIsUncounted

(* The process that was validated has its PID still, or lost it since.     *)
CheckedIsCurrent ==
  checked # NoProcess =>
    checked.gen = gen[checked.pid] \/ checked.pid \in reused

-----------------------------------------------------------------------------
LEMMA ProcessFacts ==
  /\ NoProcess \notin Process
  /\ \A x \in Process : x.pid \in Pids /\ x.gen \in 1..MaxGeneration
  /\ \A x \in Process, y \in Process : x.pid = y.pid /\ x.gen = y.gen => x = y
<1>1. 0 \notin Pids BY PidsAssumption
<1> QED BY <1>1, SMT DEF Process, NoProcess

LEMMA CurrentFacts ==
  ASSUME TypeOK, NEW p \in Pids
  PROVE  Current(p) \in Process /\ Current(p).pid = p /\ Current(p).gen = gen[p]
BY DEF TypeOK, Current, Process

LEMMA RunningFacts ==
  ASSUME TypeOK
  PROVE  /\ Running \subseteq Process
         /\ \A x \in Running : x.pid \in alive /\ x = Current(x.pid)
         /\ \A p \in alive : Current(p) \in Running
<1>1. alive \subseteq Pids BY DEF TypeOK
<1> QED BY <1>1, CurrentFacts DEF Running

(* A difference that is counted is that of a listed process whose PID is   *)
(* in use, between its last sample and what that PID shows now.            *)
LEMMA GrowthFacts ==
  ASSUME TypeOK, NEW p \in Pids, NEW d \in Growth(p)
  PROVE  \E x \in listed, o \in previous :
           /\ x.pid = p /\ p \in alive /\ o.process = x /\ o.used \in Nat
           /\ o.used <= used[p] /\ d = used[p] - o.used
<1>1. PICK s \in Samples : s.process.pid = p /\ d \in Usage(s)
  BY DEF Growth
<1>2. PICK x \in listed : x.pid \in alive /\ s = [process |-> x, used |-> used[x.pid]]
  BY <1>1 DEF Samples
<1>3. s.process = x /\ s.used = used[p] /\ x.pid = p BY <1>1, <1>2
<1>4. PICK o \in previous : o.process = s.process /\ o.used <= s.used
                              /\ d = s.used - o.used
  BY <1>1 DEF Usage
<1>5. o.used \in Nat BY <1>4 DEF TypeOK
<1> QED BY <1>2, <1>3, <1>4, <1>5

LEMMA GrowthIsNat ==
  ASSUME TypeOK, NEW p \in Pids
  PROVE  (IF Growth(p) = {} THEN 0 ELSE CHOOSE d \in Growth(p) : TRUE) \in Nat
<1>1. ASSUME NEW d \in Growth(p) PROVE d \in Nat
  <2>1. PICK x \in listed, o \in previous :
           /\ x.pid = p /\ p \in alive /\ o.process = x /\ o.used \in Nat
           /\ o.used <= used[p] /\ d = used[p] - o.used
    BY GrowthFacts
  <2>2. used[p] \in Nat BY DEF TypeOK
  <2> QED BY <2>1, <2>2
<1> QED BY <1>1

LEMMA SamplesFacts ==
  ASSUME TypeOK
  PROVE  /\ Samples \subseteq [process : Process, used : Nat]
         /\ \A o \in Samples : o.process \in listed /\ o.used = used[o.process.pid]
BY ProcessFacts DEF TypeOK, Samples

-----------------------------------------------------------------------------
LEMMA TypeInit == Init => TypeOK
BY BoundsAssumption DEF Init, TypeOK

LEMMA TypeStep == ASSUME TypeOK, [Next]_vars PROVE TypeOK'
<1> USE BoundsAssumption
<1>1. CASE List
  <2>1. listed' \subseteq Process BY <1>1, RunningFacts DEF List
  <2>2. errors' \in 0..MaxErrors BY <1>1 DEF List, Fail, TypeOK
  <2> QED BY <1>1, <2>1, <2>2 DEF List, TypeOK, machine
<1>2. CASE Sample
  <2>1. credited' \in [Pids -> Nat]
    <3>1. \A p \in Pids : credited[p] \in Nat BY DEF TypeOK
    <3> QED BY <1>2, <3>1, GrowthIsNat DEF Sample
  <2>2. previous' \subseteq [process : Process, used : Nat]
    BY <1>2, SamplesFacts DEF Sample
  <2> QED BY <1>2, <2>1, <2>2 DEF Sample, TypeOK, machine
<1>3. CASE Plan
  <2>1. todo' \subseteq Process BY <1>3 DEF Plan, TypeOK
  <2> QED BY <1>3, <2>1 DEF Plan, TypeOK, machine
<1>4. ASSUME NEW x \in Process, Validate(x) PROVE TypeOK'
  BY <1>4 DEF Validate, TypeOK, machine
<1>5. CASE Signal
  <2> DEFINE p == checked.pid
  <2>0. checked \in Process BY <1>5 DEF Signal, TypeOK
  <2>1. p \in Pids BY <2>0, ProcessFacts
  <2>2. paused' \subseteq Process BY <1>5, <2>0 DEF Signal, TypeOK
  <2>3. stopper' \in [Pids -> {"us", "other", "nobody"}]
    BY <1>5, <2>1 DEF Signal, TypeOK
  <2>4. strays' \subseteq Pids BY <1>5, <2>1 DEF Signal, TypeOK
  <2>5. errors' \in 0..MaxErrors BY <1>5 DEF Signal, TypeOK, Fail
  <2> QED BY <1>5, <2>2, <2>3, <2>4, <2>5 DEF Signal, TypeOK
<1>6. CASE EndRefresh BY <1>6 DEF EndRefresh, TypeOK, machine
<1>7. CASE Environment
  <2>1. ASSUME NEW w \in {"pause", "nothing", "disabled"}, Choose(w) PROVE TypeOK'
    BY <2>1 DEF Choose, TypeOK, machine, program
  <2>2. ASSUME NEW p \in Pids, Compute(p) PROVE TypeOK'
    BY <2>2 DEF Compute, TypeOK, program
  <2>3. ASSUME NEW p \in Pids, OtherStops(p) PROVE TypeOK'
    BY <2>3 DEF OtherStops, TypeOK, program
  <2>4. ASSUME NEW p \in Pids, Exit(p) PROVE TypeOK'
    BY <2>4 DEF Exit, TypeOK, program
  <2>5. ASSUME NEW p \in Pids, Reuse(p) PROVE TypeOK'
    BY <2>5 DEF Reuse, TypeOK, program
  <2> QED BY <1>7, <2>1, <2>2, <2>3, <2>4, <2>5 DEF Environment
<1>8. CASE UNCHANGED vars
  BY <1>8 DEF vars, machine, program, TypeOK
<1> QED BY <1>1, <1>2, <1>3, <1>4, <1>5, <1>6, <1>7, <1>8 DEF Next, Refresh

(* Type correctness.                                                       *)
THEOREM GenerationsTypes == Spec => []TypeOK
<1>1. Init => TypeOK BY TypeInit
<1>2. TypeOK /\ [Next]_vars => TypeOK' BY TypeStep
<1> QED BY <1>1, <1>2, PTL DEF Spec

-----------------------------------------------------------------------------
(* A process that was stopped is on record under its own generation, or a  *)
(* stray: for any PIDs, exits, reuses and failing calls (PauseGroup and    *)
(* ResumeGroup of process_control.go).                                     *)
THEOREM StopsRecorded == Spec => []StopsAreRecorded
<1>1. Init => StopsAreRecorded BY DEF Init, StopsAreRecorded
<1>2. ASSUME TypeOK, StopsAreRecorded, [Next]_vars PROVE StopsAreRecorded'
  <2> SUFFICES ASSUME NEW p \in alive', p \notin strays', stopper'[p] = "us"
               PROVE  Current(p)' \in paused'
    BY DEF StopsAreRecorded
  <2>0. p \in Pids BY TypeStep, <1>2 DEF TypeOK
  <2>1. ASSUME UNCHANGED <<gen, alive, strays, stopper, paused>>
        PROVE  Current(p)' \in paused'
    BY <1>2, <2>1 DEF StopsAreRecorded, Current
  <2>2. CASE List BY <2>1, <2>2 DEF List, machine
  <2>3. CASE Sample BY <2>1, <2>3 DEF Sample, machine
  <2>4. CASE Plan BY <2>1, <2>4 DEF Plan, machine
  <2>5. ASSUME NEW x \in Process, Validate(x) PROVE Current(p)' \in paused'
    <3>1. UNCHANGED <<gen, alive, strays, stopper>> BY <2>5 DEF Validate, machine
    <3>2. Current(p) \in paused BY <1>2, <3>1 DEF StopsAreRecorded
    <3>3. Current(p) \in Running BY <1>2, <3>1, RunningFacts
    <3>4. paused' = paused \/ (paused' = paused \ {x} /\ x \notin Running)
      BY <2>5 DEF Validate
    <3> QED BY <3>1, <3>2, <3>3, <3>4 DEF Current
  <2>6. CASE Signal
    <3>1. UNCHANGED <<gen, alive>> BY <2>6 DEF Signal
    <3>2. checked \in Process BY <1>2, <2>6 DEF Signal, TypeOK
    <3>3. CASE p = checked.pid /\ stopper' # stopper
      <4>1. /\ op = "pause" => stopper' = [stopper EXCEPT ![p] = "us"]
            /\ op # "pause" => stopper' = [stopper EXCEPT ![p] = "nobody"]
            /\ op = "pause" => paused' = paused \cup {checked}
            /\ gen[p] = checked.gen \/ p \in strays'
        BY <2>6, <3>3 DEF Signal
      <4>2. op = "pause"
        BY <1>2, <2>0, <4>1 DEF TypeOK
      <4>3. Current(p) = checked
        BY <1>2, <2>0, <3>2, <3>3, <4>1, CurrentFacts, ProcessFacts
      <4> QED BY <3>1, <4>1, <4>2, <4>3 DEF Current
    <3>4. CASE p = checked.pid /\ stopper' = stopper
      <4>1. p \in alive BY <3>1
      <4>2. CASE paused' = paused /\ strays' = strays
        BY <2>1, <3>1, <3>4, <4>2
      <4>3. CASE /\ stopper' = [stopper EXCEPT ![p] = IF op = "pause" THEN "us" ELSE "nobody"]
                 /\ strays' = IF gen[p] = checked.gen THEN strays ELSE strays \cup {p}
                 /\ paused' = IF op = "pause" THEN paused \cup {checked}
                              ELSE paused \ {checked}
        <5>1. op = "pause" BY <1>2, <2>0, <4>3 DEF TypeOK
        <5>2. Current(p) = checked
          BY <1>2, <2>0, <3>2, <3>4, <4>3, CurrentFacts, ProcessFacts
        <5> QED BY <3>1, <4>3, <5>1, <5>2 DEF Current
      <4> QED BY <2>6, <3>4, <4>1, <4>2, <4>3 DEF Signal
    <3>5. CASE p # checked.pid
      <4>1. stopper'[p] = stopper[p] /\ p \notin strays
        BY <1>2, <2>0, <2>6, <3>5 DEF Signal, TypeOK
      <4>2. Current(p) \in paused
        BY <1>2, <3>1, <4>1 DEF StopsAreRecorded
      <4>3. Current(p) # checked BY <1>2, <2>0, <3>5, CurrentFacts
      <4>4. paused \ {checked} \subseteq paused' BY <2>6 DEF Signal
      <4> QED BY <3>1, <4>2, <4>3, <4>4 DEF Current
    <3> QED BY <3>3, <3>4, <3>5
  <2>7. CASE EndRefresh BY <2>1, <2>7 DEF EndRefresh, machine
  <2>8. CASE Environment
    <3>1. ASSUME NEW w \in {"pause", "nothing", "disabled"}, Choose(w)
          PROVE  Current(p)' \in paused'
      BY <2>1, <3>1 DEF Choose, machine, program
    <3>2. ASSUME NEW q \in Pids, Compute(q) PROVE Current(p)' \in paused'
      BY <2>1, <3>2 DEF Compute, program
    <3>3. ASSUME NEW q \in Pids, OtherStops(q) PROVE Current(p)' \in paused'
      <4>1. p \in alive \ strays /\ stopper[p] = "us"
        BY <1>2, <2>0, <3>3 DEF OtherStops, program, TypeOK
      <4> QED BY <1>2, <3>3, <4>1 DEF OtherStops, program, StopsAreRecorded, Current
    <3>4. ASSUME NEW q \in Pids, Exit(q) PROVE Current(p)' \in paused'
      BY <1>2, <3>4 DEF Exit, program, StopsAreRecorded, Current
    <3>5. ASSUME NEW q \in Pids, Reuse(q) PROVE Current(p)' \in paused'
      <4>1. p # q BY <1>2, <2>0, <3>5 DEF Reuse, TypeOK
      <4>2. p \in alive \ strays /\ stopper[p] = "us" /\ gen'[p] = gen[p]
        BY <1>2, <2>0, <3>5, <4>1 DEF Reuse, program, TypeOK
      <4> QED BY <1>2, <3>5, <4>2 DEF Reuse, program, StopsAreRecorded, Current
    <3> QED BY <2>8, <3>1, <3>2, <3>3, <3>4, <3>5 DEF Environment
  <2>9. CASE UNCHANGED vars
    BY <2>1, <2>9 DEF vars, machine, program
  <2> QED BY <1>2, <2>2, <2>3, <2>4, <2>5, <2>6, <2>7, <2>8, <2>9 DEF Next, Refresh
<1> QED BY <1>1, <1>2, GenerationsTypes, PTL DEF Spec

-----------------------------------------------------------------------------
LEMMA CheckedStep ==
  ASSUME TypeOK, CheckedIsCurrent, [Next]_vars PROVE CheckedIsCurrent'
<1>1. ASSUME UNCHANGED <<gen, checked, reused>> PROVE CheckedIsCurrent'
  BY <1>1 DEF CheckedIsCurrent
<1>2. CASE List BY <1>1, <1>2 DEF List, machine
<1>3. CASE Sample BY <1>1, <1>3 DEF Sample, machine
<1>4. CASE Plan BY <1>1, <1>4 DEF Plan, machine
<1>5. ASSUME NEW x \in Process, Validate(x) PROVE CheckedIsCurrent'
  <2>1. CASE x \in Running
    <3>1. checked' = x /\ gen' = gen BY <1>5, <2>1 DEF Validate, machine
    <3>2. x = Current(x.pid) BY <2>1, RunningFacts
    <3>3. x.pid \in Pids BY ProcessFacts
    <3>4. x.gen = gen[x.pid] BY <3>2, <3>3, CurrentFacts
    <3> QED BY <3>1, <3>4 DEF CheckedIsCurrent
  <2>2. CASE x \notin Running
    BY <1>1, <1>5, <2>2 DEF Validate, machine
  <2> QED BY <2>1, <2>2
<1>6. CASE Signal BY <1>6 DEF Signal, CheckedIsCurrent
<1>7. CASE EndRefresh BY <1>1, <1>7 DEF EndRefresh, machine
<1>8. CASE Environment
  <2>1. ASSUME NEW w \in {"pause", "nothing", "disabled"}, Choose(w)
        PROVE  CheckedIsCurrent'
    BY <1>1, <2>1 DEF Choose, machine, program
  <2>2. ASSUME NEW q \in Pids, Compute(q) \/ OtherStops(q) \/ Exit(q)
        PROVE  CheckedIsCurrent'
    BY <1>1, <2>2 DEF Compute, OtherStops, Exit, program
  <2>3. ASSUME NEW q \in Pids, Reuse(q) PROVE CheckedIsCurrent'
    <3>1. checked' = checked BY <2>3 DEF Reuse, program
    <3>2. CASE checked.pid = q
      BY <2>3, <3>1, <3>2 DEF Reuse, CheckedIsCurrent
    <3>3. CASE checked # NoProcess /\ checked.pid # q
      <4>1. checked.pid \in Pids BY <3>3, ProcessFacts DEF TypeOK
      <4>2. gen'[checked.pid] = gen[checked.pid]
        BY <2>3, <3>3, <4>1 DEF Reuse, TypeOK
      <4> QED BY <2>3, <3>1, <3>3, <4>2 DEF Reuse, CheckedIsCurrent
    <3>4. CASE checked = NoProcess BY <3>1, <3>4 DEF CheckedIsCurrent
    <3> QED BY <3>2, <3>3, <3>4
  <2> QED BY <1>8, <2>1, <2>2, <2>3 DEF Environment
<1>9. CASE UNCHANGED vars BY <1>1, <1>9 DEF vars, machine, program
<1> QED BY <1>2, <1>3, <1>4, <1>5, <1>6, <1>7, <1>8, <1>9 DEF Next, Refresh

(* A signal reaches another process than the one it is meant for only when *)
(* the PID was given away between ValidateProcessGeneration and kill.      *)
THEOREM NoStrayWithoutReuse == Spec => StraysNeedReuse
<1>1. Init => CheckedIsCurrent BY DEF Init, CheckedIsCurrent
<1>2. TypeOK /\ CheckedIsCurrent /\ [Next]_vars => CheckedIsCurrent'
  BY CheckedStep
<1>3. CheckedIsCurrent =>
        [checked # NoProcess /\ checked' = NoProcess /\ stopper' # stopper
           => gen[checked.pid] = checked.gen \/ checked.pid \in reused]_vars
  BY DEF CheckedIsCurrent
<1> QED BY <1>1, <1>2, <1>3, GenerationsTypes, PTL DEF Spec, StraysNeedReuse

-----------------------------------------------------------------------------
(* CreditInv, the conjuncts one after the other.                           *)

LEMMA CreditInit == Init => CreditInv
<1> SUFFICES ASSUME Init PROVE CreditInv OBVIOUS
<1>1. TypeOK BY TypeInit
<1>2. ListedInTime /\ SampleIsCredited /\ NewcomerIsUncounted
  BY DEF Init, ListedInTime, SampleIsCredited, NewcomerIsUncounted
<1>3. ASSUME NEW p \in Pids PROVE credited[p] = 0 /\ spent[p] = 0
  BY DEF Init
<1>4. CreditsAreSpent
  <2> SUFFICES ASSUME NEW p \in Pids PROVE credited[p] <= spent[p]
    BY DEF CreditsAreSpent
  <2> QED BY <1>3
<1> QED BY <1>1, <1>2, <1>4 DEF CreditInv

(* The actions that neither list nor sample and leave the machine's clocks *)
(* alone.                                                                  *)
LEMMA CreditUntouched ==
  ASSUME CreditInv, TypeOK', at' # "sample",
         listed' = listed \/ listed' = {},
         UNCHANGED <<gen, used, spent, credited, previous>>
  PROVE  CreditInv'
BY DEF CreditInv, ListedInTime, CreditsAreSpent, SampleIsCredited,
       NewcomerIsUncounted, Current

LEMMA CreditUnchanged ==
  ASSUME CreditInv, TypeOK',
         UNCHANGED <<gen, used, spent, credited, previous, listed, at>>
  PROVE  CreditInv'
BY DEF CreditInv, ListedInTime, CreditsAreSpent, SampleIsCredited,
       NewcomerIsUncounted, Current

LEMMA CreditList == ASSUME CreditInv, TypeOK', List PROVE CreditInv'
<1>1. UNCHANGED <<gen, used, spent, credited, previous>> BY DEF List, machine
<1>2. listed' \subseteq Running BY DEF List
<1>3. \A x \in listed' : x = Current(x.pid) /\ x.gen <= gen[x.pid]
  <2> TAKE x \in listed'
  <2>1. x = Current(x.pid) /\ x.pid \in Pids
    BY <1>2, RunningFacts DEF CreditInv, TypeOK
  <2>2. x.gen = gen[x.pid] BY <2>1, CurrentFacts DEF CreditInv
  <2>3. gen[x.pid] \in Nat BY <2>1 DEF CreditInv, TypeOK
  <2> QED BY <2>1, <2>2, <2>3
<1> QED
  BY <1>1, <1>3 DEF CreditInv, ListedInTime, CreditsAreSpent, SampleIsCredited,
       NewcomerIsUncounted, Current

(* What a sample credits has been spent: by the process that was listed, or *)
(* by the one that took its PID since.                                     *)
LEMMA GrowthIsSpent ==
  ASSUME CreditInv, at = "sample", NEW p \in Pids, NEW d \in Growth(p)
  PROVE  credited[p] + d <= spent[p]
<1>1. PICK x \in listed, o \in previous :
         /\ x.pid = p /\ p \in alive /\ o.process = x /\ o.used \in Nat
         /\ o.used <= used[p] /\ d = used[p] - o.used
  BY GrowthFacts DEF CreditInv
<1>2. credited[p] \in Nat /\ used[p] \in Nat /\ spent[p] \in Nat
  BY DEF CreditInv, TypeOK
<1>3. CASE x = Current(p)
  <2>1. credited[p] + used[p] <= spent[p] + o.used
    BY <1>1, <1>3 DEF CreditInv, SampleIsCredited
  <2> QED BY <1>1, <1>2, <2>1
<1>4. CASE x # Current(p)
  <2>1. credited[p] + used[p] <= spent[p]
    BY <1>1, <1>4 DEF CreditInv, NewcomerIsUncounted
  <2> QED BY <1>1, <1>2, <2>1
<1> QED BY <1>3, <1>4

LEMMA CreditSample == ASSUME CreditInv, TypeOK', Sample PROVE CreditInv'
<1>1. UNCHANGED <<gen, used, spent, listed>> /\ at = "sample" /\ at' = "plan"
  BY DEF Sample, machine
<1>2. \A p \in Pids : credited[p] \in Nat /\ spent[p] \in Nat /\ used[p] \in Nat
                      /\ credited'[p] \in Nat
  BY DEF CreditInv, TypeOK
<1>3. ASSUME NEW p \in Pids PROVE credited'[p] <= spent[p]
  <2>1. credited'[p] = credited[p]
          + IF Growth(p) = {} THEN 0 ELSE CHOOSE d \in Growth(p) : TRUE
    BY DEF Sample
  <2>2. CASE Growth(p) = {}
    BY <1>2, <2>1, <2>2 DEF CreditInv, CreditsAreSpent
  <2>3. CASE Growth(p) # {}
    <3>1. PICK d \in Growth(p) : credited'[p] = credited[p] + d
      BY <2>1, <2>3
    <3> QED BY <1>1, <3>1, GrowthIsSpent
  <2> QED BY <2>2, <2>3
<1>4. \A o \in previous' : /\ o.process \in listed /\ o.process.pid \in Pids
                           /\ o.used = used[o.process.pid]
  <2>1. previous' = Samples BY DEF Sample
  <2> QED BY <2>1, SamplesFacts, ProcessFacts DEF CreditInv, TypeOK
<1>5. ListedInTime' BY <1>1, <1>4 DEF CreditInv, ListedInTime
<1>6. CreditsAreSpent' BY <1>1, <1>3 DEF CreditsAreSpent
<1>7. SampleIsCredited'
  <2> SUFFICES ASSUME NEW o \in previous'
               PROVE  /\ o.used <= used[o.process.pid]
                      /\ credited'[o.process.pid] + used[o.process.pid]
                           <= spent[o.process.pid] + o.used
    BY <1>1 DEF SampleIsCredited
  <2> QED BY <1>2, <1>3, <1>4
<1>8. NewcomerIsUncounted' BY <1>1 DEF NewcomerIsUncounted
<1> QED BY <1>5, <1>6, <1>7, <1>8 DEF CreditInv

LEMMA CreditCompute ==
  ASSUME CreditInv, TypeOK', NEW p \in Pids, Compute(p) PROVE CreditInv'
<1>1. UNCHANGED <<gen, credited, previous, listed, at>> BY DEF Compute, program
<1>2. \A q \in Pids :
        /\ credited[q] \in Nat /\ spent[q] \in Nat /\ used[q] \in Nat
        /\ \/ used'[q] = used[q] /\ spent'[q] = spent[q]
           \/ used'[q] = used[q] + 1 /\ spent'[q] = spent[q] + 1
  BY DEF Compute, CreditInv, TypeOK
<1>3. ListedInTime' BY <1>1 DEF CreditInv, ListedInTime
<1>4. CreditsAreSpent' BY <1>1, <1>2 DEF CreditInv, CreditsAreSpent
<1>5. SampleIsCredited'
  <2> SUFFICES ASSUME NEW o \in previous, o.process = Current(o.process.pid)
               PROVE  /\ o.used <= used'[o.process.pid]
                      /\ credited[o.process.pid] + used'[o.process.pid]
                           <= spent'[o.process.pid] + o.used
    BY <1>1 DEF SampleIsCredited, Current
  <2>1. o.process.pid \in Pids /\ o.used \in Nat
    BY ProcessFacts DEF CreditInv, TypeOK
  <2>2. /\ o.used <= used[o.process.pid]
        /\ credited[o.process.pid] + used[o.process.pid]
             <= spent[o.process.pid] + o.used
    BY DEF CreditInv, SampleIsCredited
  <2> QED BY <1>2, <2>1, <2>2
<1>6. NewcomerIsUncounted'
  <2> SUFFICES ASSUME at = "sample", NEW x \in listed, x # Current(x.pid)
               PROVE  credited[x.pid] + used'[x.pid] <= spent'[x.pid]
    BY <1>1 DEF NewcomerIsUncounted, Current
  <2>1. x.pid \in Pids BY ProcessFacts DEF CreditInv, TypeOK
  <2>2. credited[x.pid] + used[x.pid] <= spent[x.pid]
    BY DEF CreditInv, NewcomerIsUncounted
  <2> QED BY <1>2, <2>1, <2>2
<1> QED BY <1>3, <1>4, <1>5, <1>6 DEF CreditInv

LEMMA CreditReuse ==
  ASSUME CreditInv, TypeOK', NEW p \in Pids, Reuse(p) PROVE CreditInv'
<1>1. UNCHANGED <<spent, credited, previous, listed, at>> BY DEF Reuse, program
<1>2. \A q \in Pids : /\ gen[q] \in Nat /\ gen'[q] \in Nat
                      /\ credited[q] \in Nat /\ spent[q] \in Nat /\ used[q] \in Nat
  BY DEF CreditInv, TypeOK
<1>3. /\ gen'[p] = gen[p] + 1 /\ used'[p] = 0
      /\ \A q \in Pids \ {p} : gen'[q] = gen[q] /\ used'[q] = used[q]
  BY DEF Reuse, CreditInv, TypeOK
<1>4. \A x \in Process : x.pid \in Pids /\ x.gen \in Nat BY ProcessFacts
<1>5. ListedInTime'
  BY <1>1, <1>2, <1>3, <1>4 DEF CreditInv, ListedInTime, TypeOK
<1>6. CreditsAreSpent' BY <1>1 DEF CreditInv, CreditsAreSpent
<1>7. SampleIsCredited'
  <2> SUFFICES ASSUME NEW o \in previous, o.process = Current(o.process.pid)'
               PROVE  /\ o.used <= used'[o.process.pid]
                      /\ credited[o.process.pid] + used'[o.process.pid]
                           <= spent[o.process.pid] + o.used
    BY <1>1 DEF SampleIsCredited
  <2>1. o.process \in Process BY DEF CreditInv, TypeOK
  <2>2. o.process.gen = gen'[o.process.pid] /\ o.process.gen <= gen[o.process.pid]
    BY DEF CreditInv, ListedInTime, Current
  <2>3. o.process.pid \in Pids \ {p} BY <1>2, <1>3, <1>4, <2>1, <2>2
  <2>4. o.process = Current(o.process.pid) BY <1>3, <2>3 DEF Current
  <2> QED BY <1>3, <2>3, <2>4 DEF CreditInv, SampleIsCredited
<1>8. NewcomerIsUncounted'
  <2> SUFFICES ASSUME at = "sample", NEW x \in listed, x # Current(x.pid)'
               PROVE  credited[x.pid] + used'[x.pid] <= spent[x.pid]
    BY <1>1 DEF NewcomerIsUncounted
  <2>1. x.pid \in Pids BY <1>4 DEF CreditInv, TypeOK
  <2>2. CASE x.pid = p
    BY <1>2, <1>3, <2>1, <2>2 DEF CreditInv, CreditsAreSpent
  <2>3. CASE x.pid # p
    <3>1. x # Current(x.pid) BY <1>3, <2>1, <2>3 DEF Current
    <3> QED BY <1>3, <2>1, <2>3, <3>1 DEF CreditInv, NewcomerIsUncounted
  <2> QED BY <2>2, <2>3
<1> QED BY <1>5, <1>6, <1>7, <1>8 DEF CreditInv

(* A PID is listed and sampled once, as the machine has it once: Sample    *)
(* has no choice in what it credits.                                       *)
OnePerPid ==
  /\ \A x \in listed, y \in listed : x.pid = y.pid => x = y
  /\ \A o \in previous, q \in previous : o.process.pid = q.process.pid => o = q

LEMMA OnePerPidStep ==
  ASSUME TypeOK, OnePerPid, [Next]_vars PROVE OnePerPid'
<1>1. CASE List
  <2>1. previous' = previous /\ (listed' = Running \/ listed' = {}) BY <1>1 DEF List
  <2>2. \A x \in Running, y \in Running : x.pid = y.pid => x = y
    BY DEF Running, Current
  <2> QED BY <2>1, <2>2 DEF OnePerPid
<1>2. CASE Sample
  <2>1. listed' = listed /\ previous' = Samples BY <1>2 DEF Sample
  <2>2. \A o \in Samples, q \in Samples : o.process.pid = q.process.pid => o = q
    BY DEF Samples, OnePerPid
  <2> QED BY <2>1, <2>2 DEF OnePerPid
<1>3. CASE EndRefresh BY <1>3 DEF EndRefresh, OnePerPid
<1>4. ASSUME UNCHANGED <<listed, previous>> PROVE OnePerPid'
  BY <1>4 DEF OnePerPid
<1>5. CASE Plan \/ (\E x \in Process : Validate(x)) \/ Signal
  BY <1>4, <1>5 DEF Plan, Validate, Signal
<1>6. CASE Environment
  BY <1>4, <1>6 DEF Environment, Choose, Compute, OtherStops, Exit, Reuse, program
<1>7. CASE UNCHANGED vars BY <1>4, <1>7 DEF vars, program
<1> QED BY <1>1, <1>2, <1>3, <1>5, <1>6, <1>7 DEF Next, Refresh

LEMMA GrowthIsOne ==
  ASSUME TypeOK, OnePerPid, NEW p \in Pids, NEW d \in Growth(p), NEW e \in Growth(p)
  PROVE  d = e
<1>1. PICK x \in listed, o \in previous :
         x.pid = p /\ o.process = x /\ d = used[p] - o.used
  BY GrowthFacts
<1>2. PICK y \in listed, q \in previous :
         y.pid = p /\ q.process = y /\ e = used[p] - q.used
  BY GrowthFacts
<1> QED BY <1>1, <1>2 DEF OnePerPid

(* The samples of one process are compared with each other and with those  *)
(* of no other (the maps of CPUUsageCalculator are keyed by PID and start  *)
(* time): for a PID there is one growth at most in each Refresh.           *)
THEOREM OneGrowthPerPid ==
  Spec => [](\A p \in Pids : \A d, e \in Growth(p) : d = e)
<1>1. Init => OnePerPid BY DEF Init, OnePerPid
<1>2. TypeOK /\ OnePerPid /\ [Next]_vars => OnePerPid' BY OnePerPidStep
<1>3. TypeOK /\ OnePerPid => \A p \in Pids : \A d, e \in Growth(p) : d = e
  BY GrowthIsOne
<1> QED BY <1>1, <1>2, <1>3, GenerationsTypes, PTL DEF Spec

(* CPU time is credited once at most, whatever PIDs are given away between *)
(* the list and the samples (CPUUsageCalculator.Update).                   *)
THEOREM CreditedOnce == Spec => []CreditsAreSpent
<1>1. Init => CreditInv BY CreditInit
<1>2. ASSUME CreditInv, [Next]_vars PROVE CreditInv'
  <2>0. TypeOK' BY <1>2, TypeStep DEF CreditInv
  <2>1. CASE List BY <1>2, <2>0, <2>1, CreditList
  <2>2. CASE Sample BY <1>2, <2>0, <2>2, CreditSample
  <2>3. CASE Plan BY <1>2, <2>0, <2>3, CreditUntouched DEF Plan, machine
  <2>4. ASSUME NEW x \in Process, Validate(x) PROVE CreditInv'
    BY <1>2, <2>0, <2>4, CreditUnchanged DEF Validate, machine
  <2>5. CASE Signal BY <1>2, <2>0, <2>5, CreditUnchanged DEF Signal
  <2>6. CASE EndRefresh
    BY <1>2, <2>0, <2>6, CreditUntouched DEF EndRefresh, machine
  <2>7. CASE Environment
    <3>1. ASSUME NEW w \in {"pause", "nothing", "disabled"}, Choose(w)
          PROVE  CreditInv'
      BY <1>2, <2>0, <3>1, CreditUnchanged DEF Choose, machine, program
    <3>2. ASSUME NEW p \in Pids, OtherStops(p) \/ Exit(p) PROVE CreditInv'
      BY <1>2, <2>0, <3>2, CreditUnchanged DEF OtherStops, Exit, program
    <3>3. ASSUME NEW p \in Pids, Compute(p) PROVE CreditInv'
      BY <1>2, <2>0, <3>3, CreditCompute
    <3>4. ASSUME NEW p \in Pids, Reuse(p) PROVE CreditInv'
      BY <1>2, <2>0, <3>4, CreditReuse
    <3> QED BY <2>7, <3>1, <3>2, <3>3, <3>4 DEF Environment
  <2>8. CASE UNCHANGED vars
    BY <1>2, <2>0, <2>8, CreditUnchanged DEF vars, machine, program
  <2> QED BY <1>2, <2>1, <2>2, <2>3, <2>4, <2>5, <2>6, <2>7, <2>8 DEF Next, Refresh
<1>3. CreditInv => CreditsAreSpent BY DEF CreditInv
<1> QED BY <1>1, <1>2, <1>3, PTL DEF Spec

=============================================================================
