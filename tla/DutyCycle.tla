------------------------------ MODULE DutyCycle -----------------------------
(***************************************************************************)
(* The duty cycle of one application with a CPU limit: what                *)
(* src/internal/policy/cpu_limit.go plans from a CPU sample, what          *)
(* scheduler.go keeps of earlier plans, and the application that the cycle *)
(* acts upon, whose next sample depends on it.                             *)
(*                                                                         *)
(* Durations are counted in units of which Cycle make one cycle (10        *)
(* seconds), CPU in percent.  A sample is the share of the window since    *)
(* the last refresh that the application was let run, times its demand;    *)
(* demand changes at refreshes only.                                       *)
(***************************************************************************)
EXTENDS Naturals

CONSTANTS Cycle,     \* RunFor + StopFor
          MinRun,    \* the least RunFor
          Windows,   \* the lengths of time from one refresh to the next
          Demands,   \* the CPU percentages the application may ask for
          Targets    \* the values of AppRule.CPUPercent

ASSUME CycleAssumption == /\ Cycle \in Nat /\ MinRun \in Nat \ {0}
                          /\ MinRun < Cycle
ASSUME WindowsAssumption == Windows \subseteq Nat \ {0}
ASSUME DemandsAssumption == Demands \subseteq Nat /\ Targets \subseteq Nat

VARIABLES
  target,     \* the rule's CPUPercent
  situation,  \* what the last refresh met: see Situations
  memory,     \* AppControlRuntime: status, CPULimitTarget, CPULimitStopFor
  stopFor,    \* the cycle the limiter carries out; 0 for none
  sampled,    \* the window before the next refresh has a sample
  demand,     \* what the application asks for
  peak,       \* history: the highest demand since the cycle began ...
  base,       \* ... and the demand its plan is based on, if seen in full
  turn        \* flips with every refresh, so that none is a stutter

code == <<target, situation, memory, stopFor, sampled>>
vars == <<target, situation, memory, stopFor, sampled, demand, peak, base, turn>>

(* Management is off (by the user, or by a power or idle policy) or the    *)
(* application does not run; it is in front of a background-only rule, or  *)
(* has another rule or none; safety, a protection or a policy bars the     *)
(* rule; or the rule applies.                                              *)
Situations == {"off", "front", "barred", "applies"}

Min(x, y) == IF x < y THEN x ELSE y
Max(x, y) == IF x < y THEN y ELSE x
Minus(x, y) == IF x < y THEN 0 ELSE x - y

NoCycle == [status |-> "other", target |-> 0, stop |-> 0]

TypeOK ==
  /\ target \in Targets
  /\ situation \in Situations
  /\ memory \in [status : {"limited", "other"}, target : Nat,
                 stop : 0 .. (Cycle - MinRun)]
  /\ stopFor \in 0 .. (Cycle - MinRun)
  /\ sampled \in BOOLEAN
  /\ demand \in Demands
  /\ peak \in Demands \cup {0} /\ base \in Demands \cup {0}
  /\ turn \in BOOLEAN

Init ==
  /\ target \in Targets
  /\ situation = "off"
  /\ memory = NoCycle
  /\ stopFor = 0
  /\ sampled = FALSE
  /\ demand \in Demands
  /\ peak = 0 /\ base = 0
  /\ turn = FALSE

-----------------------------------------------------------------------------
(* CPULimitPlanner.Plan.  A CPU value is given as its product with the     *)
(* length w of the window.                                                 *)

UnderLimit(observed, w) == observed <= target * w

(* Cycle * (1 - target / observed), rounded, and cut so that MinRun is     *)
(* left.  A target of 0 stands for any below MinCPULimitPercent.           *)
PlannedStop(observed, w) ==
  IF target = 0 \/ UnderLimit(observed, w) THEN 0
  ELSE Min((2 * Cycle * (observed - target * w) + observed)
             \div (2 * observed),
           Cycle - MinRun)

PreviousActive ==
  memory.status = "limited" /\ memory.target = target /\ memory.stop > 0

(* Mutant: the new plan adds to the cycle in force.                        *)
AddedStop(observed, w) ==
  LET planned == PlannedStop(observed, w)
      previous == IF PreviousActive THEN memory.stop ELSE 0
  IN Min(planned + previous, Cycle - MinRun)

(* Mutant: the new plan replaces the cycle in force.                       *)
LatestStop(observed, w) == PlannedStop(observed, w)

(* cpuLimitDutyCycle: a cycle in force is kept unless the new plan stops   *)
(* for longer; it is also kept below the target.                           *)
NextStop(observed, w) ==
  LET planned == PlannedStop(observed, w)
      previous == IF PreviousActive THEN memory.stop ELSE 0
  IN IF planned > 0 THEN Max(previous, planned)
     ELSE IF target > 0 /\ UnderLimit(observed, w) THEN previous
     ELSE 0

-----------------------------------------------------------------------------
(* How much of a window the application was let run, for any alignment of  *)
(* the window with the cycle: of each whole cycle in it what is not        *)
(* stopped, and a part of the rest.                                        *)
RunTimes(w) ==
  LET runs == Cycle - stopFor
      rest == w % Cycle
  IN IF ~sampled THEN {0}
     ELSE IF stopFor = 0 THEN {w}
     ELSE {(w \div Cycle) * runs + part :
             part \in Minus(rest, stopFor) .. Min(rest, runs)}

(* The rule applies: the switch on rule.Mode.                              *)
Limit(observed, w) ==
  /\ situation' = "applies"
  /\ stopFor' = NextStop(observed, w)
  /\ memory' = IF NextStop(observed, w) = 0 THEN NoCycle
               ELSE [status |-> "limited", target |-> target,
                     stop |-> NextStop(observed, w)]
  /\ IF NextStop(observed, w) > 0 /\ PreviousActive
     THEN peak' = Max(peak, demand) /\ UNCHANGED base
     ELSE /\ peak' = demand
          /\ base' = IF stopFor = 0 THEN demand ELSE 0

(* restoreAllActions and an early return: memory stays as it is.           *)
ManagementOff ==
  /\ situation' = "off"
  /\ stopFor' = 0
  /\ UNCHANGED <<memory, peak, base>>

(* clearCPULimitRuntime.                                                   *)
InFront ==
  /\ situation' = "front"
  /\ stopFor' = 0
  /\ memory' = NoCycle
  /\ UNCHANGED <<peak, base>>

(* Only the status changes.                                                *)
BarredRule ==
  /\ situation' = "barred"
  /\ stopFor' = 0
  /\ memory' = [memory EXCEPT !.status = "other"]
  /\ UNCHANGED <<peak, base>>

Refresh ==
  /\ \/ \E w \in Windows : \E run \in RunTimes(w) : Limit(demand * run, w)
     \/ ManagementOff \/ InFront \/ BarredRule
  /\ sampled' = TRUE
  /\ turn' = ~turn
  /\ UNCHANGED <<target, demand>>

SetTarget(t) ==
  /\ target' = t /\ t # target
  /\ UNCHANGED <<situation, memory, stopFor, sampled, demand, peak, base, turn>>

(* The program ends and starts again, with what runtime-state.json holds.  *)
Restart ==
  /\ situation' = "off"
  /\ stopFor' = 0
  /\ sampled' = FALSE
  /\ UNCHANGED <<target, memory, demand, peak, base, turn>>

ChangeDemand(d) ==
  /\ demand' = d /\ d # demand
  /\ UNCHANGED <<code, peak, base, turn>>

Next == \/ Refresh \/ Restart
        \/ \E t \in Targets : SetTarget(t)
        \/ \E d \in Demands : ChangeDemand(d)

Spec == Init /\ [][Next]_vars

(* The ticker calls Refresh for ever.                                      *)
FairSpec == Spec /\ WF_vars(Refresh)

-----------------------------------------------------------------------------
(* Enough == stop leaves an application with this demand its target, up to *)
(* the rounding of one unit.  Tight == it leaves no more than that.        *)
Enough(stop, d, t) == Cycle * t <= (Cycle - stop) * d + d
Tight(stop, d, t) == (Cycle - stop) * d <= Cycle * t + d

(* Limiting does not starve an application: at the highest demand it had   *)
(* under this cycle, it would get its target, or runs for MinRun.  Cycles  *)
(* add up over many refreshes only to what one sample can call for.        *)
NotStarved ==
  stopFor > 0 /\ memory.target = target =>
    Enough(stopFor, peak, target) \/ stopFor = Cycle - MinRun

(* "Limit CPU caps an app to a target CPU percentage" (README): it does    *)
(* when the cycle was planned from a sample of the unlimited application   *)
(* and the demand is no higher since.                                      *)
CapHolds ==
  stopFor > 0 /\ memory.target = target /\ demand <= base =>
    Tight(stopFor, demand, target) \/ stopFor = Cycle - MinRun

(* What makes the two inductive: they hold of the remembered cycle, which  *)
(* outlives the one in force and may come back later, and the one in force *)
(* is the remembered one.                                                  *)
IInv ==
  /\ TypeOK
  /\ stopFor > 0 => memory.status = "limited" /\ memory.stop = stopFor
  /\ memory.status = "limited" =>
       /\ Enough(memory.stop, peak, memory.target)
            \/ memory.stop = Cycle - MinRun
       /\ Tight(memory.stop, base, memory.target)
            \/ memory.stop = Cycle - MinRun

(* The same for every demand: an application whose demand and rule stay as *)
(* they are is capped to its target sooner or later.                       *)
LimitKept ==
  <>[][UNCHANGED <<target, demand>>]_vars /\ <>[](situation = "applies")
    => <>[]Tight(stopFor, demand, target)

=============================================================================
