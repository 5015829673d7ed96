-------------------------- MODULE Controller_proofs -------------------------
(***************************************************************************)
(* Proofs about Controller, for any applications, processes, rules and     *)
(* safety decisions.                                                       *)
(*                                                                         *)
(* Always: the types, and that a process is under one control at a time.   *)
(* As long as saves succeed: runtime-state.json is controller.runtime.     *)
(* As long as the program is not killed and does not quit during a         *)
(* Refresh: a stopped process is remembered and does not stay stopped at   *)
(* the end, a lowered priority and a hidden window are taken back with     *)
(* their record and at the end; if saves succeed as well, all of these are *)
(* in the file when no Refresh is running and, without the rules that      *)
(* pulse, a process with the record of a pause is stopped.                 *)
(***************************************************************************)
EXTENDS Controller, TLAPS, WellFoundedInduction

USE ProcsAssumption, NoAppAssumption, AppOfAssumption, RuleChoicesAssumption,
    BornAssumption, NicenessAssumption

-----------------------------------------------------------------------------
(* The scheduler's lists are lists of actions on their application, each   *)
(* of a kind that the rule calls for.                                      *)

LEMMA ActionType ==
  ASSUME NEW type, NEW a \in Apps, NEW procs \in SUBSET Procs
  PROVE  type \in ActionTypes => Action(type, a, procs) \in Actions
BY DEF Action, Actions, ActionTypes

LEMMA IfType ==
  ASSUME NEW condition, NEW action, condition => action \in Actions
  PROVE  If(condition, action) \in Seq(Actions)
BY DEF If

LEMMA SingleType == ASSUME NEW action \in Actions PROVE <<action>> \in Seq(Actions)
OBVIOUS

LEMMA Wider ==
  ASSUME NEW S, NEW T, S \subseteq T, NEW list \in Seq(S)
  PROVE  list \in Seq(T)
OBVIOUS

Restorations(a) ==
  {x \in Actions : /\ x.app = a
                   /\ x.type \in {"resume", "restore_priority", "activate"}}

ActionsFor(a, rule, group) ==
  {x \in Actions :
     /\ x.app = a
     /\ x.type = "set_priority" => rule.mode = "priority" /\ x.nice = rule.nice
     /\ x.type \in {"hide", "hide_when_stopped"} => x.procs = group
     /\ x.type = "wake_briefly" => rule.mode = "pause" /\ rule.wakes
     /\ x.type = "limit_cpu" => rule.mode = "limit"}

LEMMA RestoreLists ==
  ASSUME NEW a \in Apps, NEW group \in SUBSET Procs, NEW rt \in RuntimeState
  PROVE  /\ RestorePauses(a, group, rt) \in Seq(Restorations(a))
         /\ RestorePriority(a, group, rt) \in Seq(Restorations(a))
         /\ RestoreHidden(a, rt) \in Seq(Restorations(a))
         /\ RestoreGroup(a, group, rt) \in Seq(Restorations(a))
         /\ \A b \in BOOLEAN : RestoreForeground(a, group, rt, b) \in Seq(Restorations(a))
<1>1. ASSUME NEW procs \in SUBSET Procs,
             NEW type \in {"resume", "restore_priority", "activate"}
      PROVE  Action(type, a, procs) \in Restorations(a)
  BY DEF Restorations, Action, Actions, ActionTypes
<1>2. RestorePauses(a, group, rt) \in Seq(Restorations(a))
  <2>1. Action("resume", a, group \cap rt.paused) \in Restorations(a)
    BY <1>1
  <2>. QED
    BY <2>1 DEF If, RestorePauses
<1>3. RestorePriority(a, group, rt) \in Seq(Restorations(a))
  <2>1. Action("restore_priority", a, group \cap Changed(rt)) \in Restorations(a)
    BY <1>1
  <2>. QED
    BY <2>1 DEF If, RestorePriority
<1>4. RestoreHidden(a, rt) \in Seq(Restorations(a))
  <2>1. rt.hidden[a] # NoProc => {rt.hidden[a]} \in SUBSET Procs
    BY DEF RuntimeState
  <2>2. rt.hidden[a] # NoProc => Action("activate", a, {rt.hidden[a]}) \in Restorations(a)
    BY <1>1, <2>1
  <2>. QED
    BY <2>2 DEF If, RestoreHidden
<1>. QED
  BY <1>2, <1>3, <1>4 DEF RestoreGroup, RestoreForeground

LEMMA RestoreTypes ==
  ASSUME NEW a \in Apps, NEW group \in SUBSET Procs, NEW rt \in RuntimeState
  PROVE  /\ RestorePauses(a, group, rt) \in Seq(Actions)
         /\ RestorePriority(a, group, rt) \in Seq(Actions)
         /\ RestoreHidden(a, rt) \in Seq(Actions)
         /\ RestoreGroup(a, group, rt) \in Seq(Actions)
         /\ \A b \in BOOLEAN : RestoreForeground(a, group, rt, b) \in Seq(Actions)
<1>1. Restorations(a) \subseteq Actions
  BY DEF Restorations
<1>. QED
  BY <1>1, RestoreLists, Wider

LEMMA ApplyList ==
  ASSUME NEW a \in Apps, NEW rule \in Rule, NEW group \in SUBSET Procs,
         NEW rt \in RuntimeState, NEW in,
         rule.mode \in {"pause", "priority", "limit", "hide", "quit"},
         NEW S, S = ActionsFor(a, rule, group)
  PROVE  Apply(a, rule, group, rt, in) \in Seq(S)
<1>0. Restorations(a) \subseteq S
  BY DEF Restorations, ActionsFor
<1>1. /\ RestorePauses(a, group, rt) \in Seq(S)
      /\ RestorePriority(a, group, rt) \in Seq(S)
      /\ RestoreHidden(a, rt) \in Seq(S)
      /\ RestoreGroup(a, group, rt) \in Seq(S)
  BY <1>0, RestoreLists, Wider
<1>2. /\ \A type \in {"pause", "hide", "hide_when_stopped", "quit"} :
           Action(type, a, group) \in S
      /\ rule.mode = "pause" /\ rule.wakes => Action("wake_briefly", a, group) \in S
      /\ rule.mode = "limit" => Action("limit_cpu", a, group) \in S
      /\ rule.mode = "priority" =>
           [Action("set_priority", a, group) EXCEPT !.nice = rule.nice] \in S
  BY DEF ActionsFor, Action, Actions, ActionTypes, Rule
<1>3. CASE rule.mode = "pause"
  <2>1. /\ If(rule.wakes /\ a \in in.wakeDue, Action("wake_briefly", a, group)) \in Seq(S)
        /\ If(rule.hideWhenStopped, Action("hide_when_stopped", a, group)) \in Seq(S)
        /\ <<Action("pause", a, group)>> \in Seq(S)
    <3>1. rule.wakes /\ a \in in.wakeDue => Action("wake_briefly", a, group) \in S
      BY <1>2, <1>3
    <3>2. /\ rule.hideWhenStopped => Action("hide_when_stopped", a, group) \in S
          /\ Action("pause", a, group) \in S
      BY <1>2
    <3>. QED
      BY <3>1, <3>2 DEF If
  <2>. QED
    BY <1>1, <1>3, <2>1 DEF Apply
<1>4. CASE rule.mode = "priority"
  <2>. DEFINE lowered == [Action("set_priority", a, group) EXCEPT !.nice = rule.nice]
              last == If(\E p \in group : rt.changes[p].target # rule.nice, lowered)
  <2>1. lowered \in S
    BY <1>2, <1>4
  <2>2. last \in Seq(S)
    BY <2>1 DEF If
  <2>3. Apply(a, rule, group, rt, in) =
          RestorePauses(a, group, rt) \o RestoreHidden(a, rt) \o last
    BY <1>4 DEF Apply
  <2>. HIDE DEF last
  <2>. QED
    BY <1>1, <2>2, <2>3
<1>5. CASE rule.mode = "limit"
  <2>1. Action("limit_cpu", a, group) \in S
    BY <1>2, <1>5
  <2>2. If(a \in in.overLimit, Action("limit_cpu", a, group)) \in Seq(S)
    BY <2>1 DEF If
  <2>. QED
    BY <1>1, <1>5, <2>2 DEF Apply
<1>6. CASE rule.mode = "hide"
  <2>1. Action("hide", a, group) \in S
    BY <1>2
  <2>2. <<Action("hide", a, group)>> \in Seq(S)
    BY <2>1
  <2>. QED
    BY <1>1, <1>6, <2>2 DEF Apply
<1>7. CASE rule.mode = "quit"
  <2>1. Action("quit", a, group) \in S
    BY <1>2
  <2>2. <<Action("quit", a, group)>> \in Seq(S)
    BY <2>1
  <2>. QED
    BY <1>1, <1>7, <2>2 DEF Apply
<1>. QED
  BY <1>3, <1>4, <1>5, <1>6, <1>7

LEMMA NoRuleType == NoRule \in Rule
BY DEF NoRule, Rule, Modes

(* Restorations, where nothing is applied; otherwise what the rule says,   *)
(* for an application that has processes.                                  *)
LEMMA PlanLists ==
  ASSUME NEW rt \in RuntimeState, NEW in,
         in.rules \in [Apps -> Rule], in.groups \in [Apps -> SUBSET Procs],
         NEW a \in Apps
  PROVE  \/ Plan(rt, in)[a] \in Seq(Restorations(a))
         \/ /\ in.groups[a] # {}
            /\ Plan(rt, in)[a] \in Seq(ActionsFor(a, in.rules[a], in.groups[a]))
<1>. DEFINE rule == in.rules[a]
            group == in.groups[a]
            S == ActionsFor(a, rule, group)
<1>1. RestoreAll(a, rt) \in Seq(Restorations(a)) /\ <<>> \in Seq(Restorations(a))
  <2>1. {p \in Procs : AppOf[p] = a} \in SUBSET Procs
    OBVIOUS
  <2>2. RestoreGroup(a, {p \in Procs : AppOf[p] = a}, rt) \in Seq(Restorations(a))
    BY <2>1, RestoreLists
  <2>. QED
    BY <2>2 DEF RestoreAll
<1>2. rule \in Rule /\ group \in SUBSET Procs
  OBVIOUS
<1>3. /\ RestoreGroup(a, group, rt) \in Seq(Restorations(a))
      /\ \A b \in BOOLEAN : RestoreForeground(a, group, rt, b) \in Seq(Restorations(a))
      /\ RestoresPriorityInForeground(rule) \in BOOLEAN
  BY <1>2, RestoreLists DEF RestoresPriorityInForeground
<1>. DEFINE foreground == in.front = a
            inForeground == IF foreground
                            THEN RestoreForeground(a, group, rt,
                                   RestoresPriorityInForeground(rule))
                            ELSE <<>>
<1>4. inForeground \in Seq(Restorations(a))
  BY <1>3
<1>0. Restorations(a) \subseteq S
  BY DEF Restorations, ActionsFor
<1>8. inForeground \in Seq(S)
  <2>. HIDE DEF inForeground, S
  <2>. QED
    BY <1>0, <1>4, Wider
<1>9. PlanGroup(a, rt, in) \in Seq(Restorations(a)) \cup Seq(S)
  <2>1. CASE foreground /\ ~AppliesInForeground(rule)
    <3>1. PlanGroup(a, rt, in) = RestoreForeground(a, group, rt, TRUE)
      BY <2>1 DEF PlanGroup
    <3>. QED
      BY <1>3, <3>1
  <2>2. CASE rule.mode \in {"none", "observe"} /\ ~foreground
    <3>1. PlanGroup(a, rt, in) = RestoreGroup(a, group, rt)
      BY <2>2 DEF PlanGroup
    <3>. QED
      BY <1>3, <3>1
  <2>3. CASE /\ ~(foreground /\ ~AppliesInForeground(rule))
             /\ ~(rule.mode \in {"none", "observe"} /\ ~foreground)
    <3>1. rule.mode \in {"pause", "priority", "limit", "hide", "quit"}
      BY <1>2, <2>3 DEF AppliesInForeground, Rule, Modes
    <3>2. Apply(a, rule, group, rt, in) \in Seq(S)
      BY <1>2, <3>1, ApplyList
    <3>3. PlanGroup(a, rt, in) = inForeground \o (IF Barred(a, rule, in) THEN <<>>
                                                  ELSE Apply(a, rule, group, rt, in))
      BY <2>3 DEF PlanGroup
    <3>. HIDE DEF inForeground, S
    <3>. QED
      BY <1>8, <3>2, <3>3
  <2>. QED
    BY <2>1, <2>2, <2>3
<1>. HIDE DEF S
<1>. QED
  BY <1>1, <1>9 DEF Plan, S

LEMMA PlanType ==
  ASSUME NEW rt \in RuntimeState, NEW in,
         in.rules \in [Apps -> Rule], in.groups \in [Apps -> SUBSET Procs]
  PROVE  Plan(rt, in) \in Plans
<1> SUFFICES ASSUME NEW a \in Apps PROVE Plan(rt, in)[a] \in Seq(Actions)
  <2>1. Plan(rt, in) = [a \in Apps |-> Plan(rt, in)[a]]
    BY DEF Plan
  <2>. QED
    BY <2>1 DEF Plans
<1>1. Restorations(a) \subseteq Actions
  BY DEF Restorations
<1>2. ActionsFor(a, in.rules[a], in.groups[a]) \subseteq Actions
  BY DEF ActionsFor
<1>. QED
  BY <1>1, <1>2, PlanLists, Wider

-----------------------------------------------------------------------------
(* What one action does.                                                   *)

Pair == [os : Machine, rt : RuntimeState]

(* A process that is stopped and not among the others has a record.        *)
Recorded(s, others) == s.os.stopped \subseteq s.rt.paused \cup others

LEMMA SetPriorityType ==
  ASSUME NEW machine \in Machine, NEW procs \in SUBSET Procs,
         NEW value \in [procs -> Nat]
  PROVE  /\ SetPriority(machine, value) \in Machine
         /\ SetPriority(machine, value).stopped = machine.stopped
<1>. DEFINE nice == [p \in Procs |->
                       IF p \in DOMAIN value /\ 0 < value[p] /\ value[p] < Background
                       THEN value[p] ELSE machine.nice[p]]
            background == (machine.background \cup
                             {p \in DOMAIN value : value[p] >= Background})
                            \ {p \in DOMAIN value : value[p] = 0}
<1>1. machine.nice \in [Procs -> Nat] /\ machine.background \in SUBSET Procs
  BY DEF Machine
<1>2. nice \in [Procs -> Nat]
  BY <1>1
<1>3. background \in SUBSET Procs
  BY <1>1
<1>4. SetPriority(machine, value) =
        [machine EXCEPT !.nice = nice, !.background = background]
  BY DEF SetPriority
<1>. HIDE DEF nice, background
<1>. QED
  BY <1>2, <1>3, <1>4 DEF Machine

LEMMA PauseKeeps ==
  ASSUME NEW s \in Pair, NEW procs \in SUBSET Procs, NEW others, Recorded(s, others)
  PROVE  PauseGroup(s, procs) \in Pair /\ Recorded(PauseGroup(s, procs), others)
BY DEF PauseGroup, Pair, Recorded, Machine, RuntimeState

LEMMA ResumeKeeps ==
  ASSUME NEW s \in Pair, NEW procs \in SUBSET Procs, NEW others, Recorded(s, others)
  PROVE  ResumeGroup(s, procs) \in Pair /\ Recorded(ResumeGroup(s, procs), others)
BY DEF ResumeGroup, Pair, Recorded, Machine, RuntimeState

LEMMA WakeKeeps ==
  ASSUME NEW s \in Pair, NEW procs \in SUBSET Procs, NEW others, Recorded(s, others)
  PROVE  WakeGroupBriefly(s, procs) \in Pair /\ Recorded(WakeGroupBriefly(s, procs), others)
BY DEF WakeGroupBriefly, Pair, Recorded, Machine

LEMMA SetPriorityKeeps ==
  ASSUME NEW s \in Pair, NEW procs \in SUBSET Procs, NEW target \in Nat,
         NEW others, Recorded(s, others)
  PROVE  /\ SetPriorityGroup(s, procs, target) \in Pair
         /\ Recorded(SetPriorityGroup(s, procs, target), others)
<1>. DEFINE live == procs \cap s.os.alive
            value == [p \in live |-> target]
            changes == [p \in Procs |->
                          IF p \in live
                          THEN [original |-> s.os.nice[p], target |-> target]
                          ELSE IF p \in procs THEN NoChange ELSE s.rt.changes[p]]
<1>1. /\ s.os \in Machine /\ s.rt \in RuntimeState
      /\ s.os.nice \in [Procs -> Nat]
      /\ s.rt.changes \in [Procs -> [original : Nat, target : Nat]]
  BY DEF Pair, Machine, RuntimeState
<1>2. value \in [live -> Nat] /\ live \in SUBSET Procs
  OBVIOUS
<1>3. SetPriority(s.os, value) \in Machine /\ SetPriority(s.os, value).stopped = s.os.stopped
  BY <1>1, <1>2, SetPriorityType
<1>4. changes \in [Procs -> [original : Nat, target : Nat]]
  BY <1>1 DEF NoChange
<1>5. SetPriorityGroup(s, procs, target) =
        [os |-> SetPriority(s.os, value), rt |-> [s.rt EXCEPT !.changes = changes]]
  BY DEF SetPriorityGroup
<1>. HIDE DEF value, changes
<1>. QED
  BY <1>1, <1>3, <1>4, <1>5 DEF Pair, Recorded, RuntimeState

LEMMA RestorePriorityKeeps ==
  ASSUME NEW s \in Pair, NEW procs \in SUBSET Procs, NEW others, Recorded(s, others)
  PROVE  /\ RestorePriorityGroup(s, procs) \in Pair
         /\ Recorded(RestorePriorityGroup(s, procs), others)
<1>. DEFINE recorded == procs \cap Changed(s.rt)
            live == recorded \cap s.os.alive
            value == [p \in live |-> s.rt.changes[p].original]
            changes == [p \in Procs |-> IF p \in recorded THEN NoChange
                                        ELSE s.rt.changes[p]]
<1>1. /\ s.os \in Machine /\ s.rt \in RuntimeState
      /\ s.rt.changes \in [Procs -> [original : Nat, target : Nat]]
  BY DEF Pair, RuntimeState
<1>2. live \in SUBSET Procs /\ value \in [live -> Nat]
  BY <1>1
<1>3. SetPriority(s.os, value) \in Machine /\ SetPriority(s.os, value).stopped = s.os.stopped
  BY <1>1, <1>2, SetPriorityType
<1>4. changes \in [Procs -> [original : Nat, target : Nat]]
  BY <1>1 DEF NoChange
<1>5. RestorePriorityGroup(s, procs) =
        [os |-> SetPriority(s.os, value), rt |-> [s.rt EXCEPT !.changes = changes]]
  BY DEF RestorePriorityGroup
<1>. HIDE DEF value, changes
<1>. QED
  BY <1>1, <1>3, <1>4, <1>5 DEF Pair, Recorded, RuntimeState

LEMMA HideKeeps ==
  ASSUME NEW s \in Pair, NEW a \in Apps, NEW procs, NEW others, Recorded(s, others)
  PROVE  HideGroup(s, a, procs) \in Pair /\ Recorded(HideGroup(s, a, procs), others)
<1>. DEFINE p == FirstProc(procs)
<1>1. CASE p \in s.os.alive
  <2>. DEFINE machine == [s.os EXCEPT !.concealed = @ \cup {p},
                                      !.front = IF @ = a THEN NoApp ELSE @]
              rt == [s.rt EXCEPT !.hidden[a] = p]
  <2>1. HideGroup(s, a, procs) = [os |-> machine, rt |-> rt]
    BY <1>1 DEF HideGroup
  <2>2. p \in Procs
    BY <1>1 DEF Pair, Machine
  <2>. HIDE DEF p
  <2>3. machine \in Machine /\ machine.stopped = s.os.stopped
    BY <2>2 DEF Pair, Machine
  <2>4. rt \in RuntimeState /\ rt.paused = s.rt.paused
    BY <2>2 DEF Pair, RuntimeState
  <2>. HIDE DEF machine, rt
  <2>. QED
    BY <2>1, <2>3, <2>4 DEF Pair, Recorded
<1>2. CASE p \notin s.os.alive
  BY <1>2 DEF HideGroup
<1>. QED
  BY <1>1, <1>2

LEMMA ActivateKeeps ==
  ASSUME NEW s \in Pair, NEW a \in Apps, NEW procs, NEW others, Recorded(s, others)
  PROVE  ActivateGroup(s, a, procs) \in Pair /\ Recorded(ActivateGroup(s, a, procs), others)
<1>. DEFINE p == IF s.rt.hidden[a] # NoProc THEN s.rt.hidden[a] ELSE FirstProc(procs)
            machine == IF p \in s.os.alive
                       THEN [s.os EXCEPT !.concealed = @ \ {p}, !.front = a]
                       ELSE s.os
            rt == [s.rt EXCEPT !.hidden[a] = NoProc]
<1>1. ActivateGroup(s, a, procs) = [os |-> machine, rt |-> rt]
  BY DEF ActivateGroup
<1>. HIDE DEF p
<1>2. machine \in Machine /\ machine.stopped = s.os.stopped
  BY DEF Pair, Machine
<1>3. rt \in RuntimeState /\ rt.paused = s.rt.paused
  BY DEF Pair, RuntimeState
<1>. HIDE DEF machine, rt
<1>. QED
  BY <1>1, <1>2, <1>3 DEF Pair, Recorded

LEMMA ExecuteKeeps ==
  ASSUME NEW s \in Pair, NEW action \in Actions, NEW others, Recorded(s, others)
  PROVE  Execute(s, action) \in Pair /\ Recorded(Execute(s, action), others)
<1>. DEFINE a == action.app
            procs == action.procs
<1>1. a \in Apps /\ procs \in SUBSET Procs /\ action.nice \in Nat
      /\ action.type \in ActionTypes
  BY DEF Actions
<1>2. CASE action.type = "pause"
  BY <1>1, <1>2, PauseKeeps DEF Execute
<1>3. CASE action.type = "resume"
  <2>. DEFINE resumed == ResumeGroup(s, procs)
  <2>1. resumed \in Pair /\ Recorded(resumed, others)
    BY <1>1, ResumeKeeps
  <2>2. Execute(s, action) = IF resumed.rt.hidden[a] # NoProc
                             THEN ActivateGroup(resumed, a, procs) ELSE resumed
    BY <1>3 DEF Execute
  <2>. HIDE DEF resumed
  <2>. QED
    BY <1>1, <2>1, <2>2, ActivateKeeps
<1>4. CASE action.type = "wake_briefly"
  BY <1>1, <1>4, WakeKeeps DEF Execute
<1>5. CASE action.type = "set_priority"
  BY <1>1, <1>5, SetPriorityKeeps DEF Execute
<1>6. CASE action.type = "restore_priority"
  BY <1>1, <1>6, RestorePriorityKeeps DEF Execute
<1>7. CASE action.type \in {"hide_when_stopped", "hide"}
  BY <1>1, <1>7, HideKeeps DEF Execute
<1>8. CASE action.type = "activate"
  BY <1>1, <1>8, ActivateKeeps DEF Execute
<1>9. CASE action.type \in {"limit_cpu", "quit"}
  BY <1>9 DEF Execute
<1>. QED
  BY <1>1, <1>2, <1>3, <1>4, <1>5, <1>6, <1>7, <1>8, <1>9 DEF ActionTypes

(* Only a pause stops anything, and a resume continues what is recorded.   *)
LEMMA ExecuteStops ==
  ASSUME NEW s \in Pair, NEW action \in Actions, action.type # "pause"
  PROVE  /\ Execute(s, action).os.stopped \subseteq s.os.stopped
         /\ action.type = "resume" =>
              Execute(s, action).os.stopped \cap action.procs \cap s.rt.paused = {}
<1>. DEFINE a == action.app
            procs == action.procs
<1>1. a \in Apps /\ procs \in SUBSET Procs /\ action.type \in ActionTypes
  BY DEF Actions
<1>2. \A t \in Pair, q \in SUBSET Procs :
        ActivateGroup(t, a, q).os.stopped = t.os.stopped
  BY DEF ActivateGroup, Pair, Machine
<1>3. CASE action.type = "resume"
  <2>. DEFINE resumed == ResumeGroup(s, procs)
  <2>1. resumed \in Pair
    BY <1>1, ResumeKeeps DEF Recorded
  <2>2. resumed.os.stopped = s.os.stopped \ (procs \cap s.rt.paused)
    BY DEF ResumeGroup, Pair, Machine
  <2>3. Execute(s, action) = IF resumed.rt.hidden[a] # NoProc
                             THEN ActivateGroup(resumed, a, procs) ELSE resumed
    BY <1>3 DEF Execute
  <2>. HIDE DEF resumed
  <2>4. Execute(s, action).os.stopped = resumed.os.stopped
    BY <1>1, <1>2, <2>1, <2>3
  <2>. QED
    BY <2>2, <2>4
<1>4. CASE action.type = "wake_briefly"
  BY <1>4 DEF Execute, WakeGroupBriefly, Pair, Machine
<1>5. CASE action.type \in {"set_priority", "restore_priority"}
  BY <1>5 DEF Execute, SetPriorityGroup, RestorePriorityGroup, SetPriority,
              Pair, Machine
<1>6. CASE action.type \in {"hide_when_stopped", "hide"}
  BY <1>6 DEF Execute, HideGroup, Pair, Machine
<1>7. CASE action.type = "activate"
  BY <1>1, <1>2, <1>7 DEF Execute
<1>8. CASE action.type \in {"limit_cpu", "quit"}
  BY <1>8 DEF Execute
<1>. QED
  BY <1>1, <1>3, <1>4, <1>5, <1>6, <1>7, <1>8 DEF ActionTypes

-----------------------------------------------------------------------------
(* Types.                                                                  *)

LEMMA EmptyTypes ==
  /\ EmptyRuntime \in RuntimeState
  /\ NoPlan \in Plans
  /\ Nothing \in [Apps -> SUBSET Procs]
  /\ IdleRefresh \in RefreshState
  /\ IdleRefresh.at = "idle"
<1>1. EmptyRuntime \in RuntimeState
  BY DEF EmptyRuntime, RuntimeState, NoChange
<1>2. NoPlan \in Plans /\ Nothing \in [Apps -> SUBSET Procs]
  BY DEF NoPlan, Plans, Nothing
<1>. QED
  BY <1>1, <1>2 DEF IdleRefresh, RefreshState

LEMMA InitType == Init => TypeOK
<1>. SUFFICES ASSUME Init PROVE TypeOK
  OBVIOUS
<1>1. os \in Machine
  BY DEF Init, Machine
<1>. QED
  BY <1>1, EmptyTypes DEF Init, TypeOK

LEMMA RefreshKeepsTypes == TypeOK /\ Refresh => TypeOK'
<1>. SUFFICES ASSUME TypeOK, Refresh PROVE TypeOK'
  OBVIOUS
<1>1. CASE BeginRefresh
  <2>1. refresh' \in RefreshState
    BY <1>1 DEF BeginRefresh, TypeOK, RefreshState
  <2>. QED
    BY <1>1, <2>1 DEF BeginRefresh, TypeOK, config, outside
<1>2. CASE Observe
  <2>1. PICK policy \in {"open", "block", "restore"}, audio \in BOOLEAN,
             settling \in SUBSET Apps,
             wakeDue \in SUBSET {a \in Apps : refresh.rules[a].wakes},
             overLimit \in SUBSET {a \in Apps : refresh.rules[a].mode = "limit"} :
          LET in == [management |-> refresh.management,
                     rules |-> refresh.rules,
                     groups |-> [a \in Apps |-> Group(a)],
                     front |-> FrontmostApp(refresh.rules, os.front),
                     policy |-> policy, audio |-> audio, settling |-> settling,
                     wakeDue |-> wakeDue, overLimit |-> overLimit]
              plan == Plan(refresh.runtime, in)
          IN refresh' = [refresh EXCEPT
                           !.at = "execute",
                           !.plan = plan,
                           !.requests = LimitRequests(plan, in.groups),
                           !.save = SavesImmediately(plan)]
    BY <1>2 DEF Observe
  <2>. DEFINE in == [management |-> refresh.management,
                     rules |-> refresh.rules,
                     groups |-> [a \in Apps |-> Group(a)],
                     front |-> FrontmostApp(refresh.rules, os.front),
                     policy |-> policy, audio |-> audio, settling |-> settling,
                     wakeDue |-> wakeDue, overLimit |-> overLimit]
              plan == Plan(refresh.runtime, in)
  <2>2. in.groups \in [Apps -> SUBSET Procs]
    BY DEF Group, TypeOK, Machine
  <2>3. in.rules \in [Apps -> Rule]
    BY NoRuleType DEF TypeOK, RefreshState
  <2>. HIDE DEF in
  <2>4. plan \in Plans
    BY <2>2, <2>3, PlanType DEF TypeOK, RefreshState
  <2>. HIDE DEF plan
  <2>5. /\ LimitRequests(plan, in.groups) \in [Apps -> SUBSET Procs]
        /\ SavesImmediately(plan) \in BOOLEAN
    BY <2>2 DEF LimitRequests, SavesImmediately
  <2>6. refresh' = [refresh EXCEPT
                      !.at = "execute",
                      !.plan = plan,
                      !.requests = LimitRequests(plan, in.groups),
                      !.save = SavesImmediately(plan)]
    BY <2>1 DEF in, plan
  <2>7. refresh' \in RefreshState
    BY <2>4, <2>5, <2>6 DEF TypeOK, RefreshState
  <2>. QED
    BY <1>2, <2>7 DEF Observe, TypeOK, config, outside
<1>3. ASSUME NEW a \in Apps, ExecuteAction(a) PROVE TypeOK'
  <2>. DEFINE s == [os |-> os, rt |-> refresh.runtime]
              after == Execute(s, Head(refresh.plan[a]))
  <2>1. s \in Pair /\ Recorded(s, os.stopped)
    BY DEF TypeOK, RefreshState, Pair, Recorded
  <2>2. /\ refresh.plan \in Plans
        /\ Head(refresh.plan[a]) \in Actions
        /\ Tail(refresh.plan[a]) \in Seq(Actions)
    BY <1>3 DEF ExecuteAction, TypeOK, RefreshState, Plans
  <2>3. after.os \in Machine /\ after.rt \in RuntimeState
    BY <2>1, <2>2, ExecuteKeeps DEF Pair
  <2>4. /\ os' = after.os
        /\ refresh' = [refresh EXCEPT !.runtime = after.rt,
                                      !.plan[a] = Tail(@)]
    BY <1>3 DEF ExecuteAction
  <2>. HIDE DEF s, after
  <2>5. [refresh.plan EXCEPT ![a] = Tail(@)] \in Plans
    BY <2>2 DEF Plans
  <2>6. refresh' \in RefreshState
    BY <2>3, <2>4, <2>5 DEF TypeOK, RefreshState
  <2>. QED
    BY <1>3, <2>3, <2>4, <2>6 DEF ExecuteAction, TypeOK, config
<1>4. CASE UpdateLimiter
  <2>1. refresh' \in RefreshState /\ limited' \in [Apps -> SUBSET Procs]
    BY <1>4 DEF UpdateLimiter, TypeOK, RefreshState
  <2>2. os' \in Machine
    BY <1>4 DEF UpdateLimiter, TypeOK, Machine
  <2>. QED
    BY <1>4, <2>1, <2>2 DEF UpdateLimiter, TypeOK, config
<1>5. CASE Commit
  <2>1. runtime' \in RuntimeState /\ disk' \in RuntimeState
    BY <1>5 DEF Commit, SaveRuntime, TypeOK, RefreshState
  <2>. QED
    BY <1>5, <2>1, EmptyTypes DEF Commit, TypeOK, config
<1>. QED
  BY <1>1, <1>2, <1>3, <1>4, <1>5 DEF Refresh

LEMMA RestoreKeepsTypes ==
  ASSUME TypeOK, NEW a \in Apps, RestoreAction(a)
  PROVE  TypeOK'
<1>. DEFINE s == [os |-> os, rt |-> runtime]
            after == Execute(s, Head(restoring[a]))
<1>1. s \in Pair /\ Recorded(s, os.stopped)
  BY DEF TypeOK, Pair, Recorded
<1>2. Head(restoring[a]) \in Actions /\ Tail(restoring[a]) \in Seq(Actions)
  BY DEF RestoreAction, TypeOK, Plans
<1>3. after.os \in Machine /\ after.rt \in RuntimeState
  BY <1>1, <1>2, ExecuteKeeps DEF Pair
<1>4. os' = after.os /\ runtime' = after.rt
  BY DEF RestoreAction
<1>. HIDE DEF s, after
<1>5. restoring' \in Plans
  BY <1>2 DEF RestoreAction, TypeOK, Plans
<1>. QED
  BY <1>3, <1>4, <1>5 DEF RestoreAction, TypeOK, config

LEMMA StepKeepsTypes == TypeOK /\ [Next]_vars => TypeOK'
<1>. SUFFICES ASSUME TypeOK, [Next]_vars PROVE TypeOK'
  OBVIOUS
<1>1. CASE Refresh
  BY <1>1, RefreshKeepsTypes
<1>2. CASE ToggleManagement
  BY <1>2 DEF ToggleManagement, TypeOK, outside
<1>3. ASSUME NEW a \in Apps, NEW rule \in RuleChoices \cup {NoRule}, SetRule(a, rule)
      PROVE  TypeOK'
  BY <1>3 DEF SetRule, TypeOK, outside
<1>4. ASSUME NEW a \in Apps \cup {NoApp}, SwitchTo(a) PROVE TypeOK'
  <2>1. os' \in Machine
    BY <1>4 DEF SwitchTo, TypeOK, Machine
  <2>. QED
    BY <1>4, <2>1 DEF SwitchTo, TypeOK, config
<1>5. CASE Shutdown
  <2>1. os' \in Machine
    BY <1>5 DEF Shutdown, TypeOK, Machine
  <2>2. restoring' \in Plans
    BY <1>5, RestoreTypes DEF Shutdown, TypeOK, Plans, RestoreAll
  <2>. QED
    BY <1>5, <2>1, <2>2, EmptyTypes DEF Shutdown, TypeOK, config
<1>6. CASE Start
  BY <1>6 DEF Start, TypeOK, config, outside
<1>7. ASSUME NEW a \in Apps, RestoreAction(a) PROVE TypeOK'
  BY <1>7, RestoreKeepsTypes
<1>8. CASE SaveAndQuit
  BY <1>8 DEF SaveAndQuit, SaveRuntime, TypeOK, config
<1>9. ASSUME NEW p \in Procs, LimiterStop(p) \/ LimiterContinue(p) PROVE TypeOK'
  <2>1. os' \in Machine
    BY <1>9 DEF LimiterStop, LimiterContinue, TypeOK, Machine
  <2>. QED
    BY <1>9, <2>1 DEF LimiterStop, LimiterContinue, TypeOK, config
<1>10. ASSUME NEW p \in Procs, Spawn(p) PROVE TypeOK'
  <2>1. os' \in Machine
    BY <1>10 DEF Spawn, TypeOK, Machine
  <2>. QED
    BY <1>10, <2>1 DEF Spawn, TypeOK, config
<1>11. ASSUME NEW p \in Procs, Exit(p) PROVE TypeOK'
  <2>1. os' \in Machine
    BY <1>11 DEF Exit, TypeOK, Machine
  <2>. QED
    BY <1>11, <2>1 DEF Exit, TypeOK, config
<1>12. CASE End
  BY <1>12, EmptyTypes DEF End, TypeOK, config, outside
<1>13. CASE UNCHANGED vars
  BY <1>13 DEF vars, TypeOK
<1>. QED
  BY <1>1, <1>2, <1>3, <1>4, <1>5, <1>6, <1>7, <1>8, <1>9, <1>10, <1>11, <1>12,
     <1>13 DEF Next, User

(* The controller's state keeps its types, in every configuration: with    *)
(* crashes and with a quit during a Refresh as well.                       *)
THEOREM TypeCorrect == Spec => []TypeOK
<1>. QED
  BY InitType, StepKeepsTypes, PTL DEF Spec

-----------------------------------------------------------------------------
(* Where a stopped process is remembered.                                  *)

(* Without a quit during a Refresh, none runs once shutdown has begun.     *)
NoRefreshAfterQuit ==
  program # "on" => refresh.at = "idle" /\ limited = Nothing

(* While the program is on: in the runtime state that the Refresh holds,   *)
(* or in controller.runtime between two of them, or in the limiter.        *)
HeldWhileOn ==
  program = "on" =>
    os.stopped \subseteq
      (IF refresh.at = "idle" THEN runtime.paused ELSE refresh.runtime.paused)
        \cup Limited

(* During shutdown: an action that resumes it is still to come, and none   *)
(* that stops anything is.                                                 *)
ResumeIsComing ==
  program = "restoring" =>
    /\ os.stopped \subseteq runtime.paused
    /\ \A p \in os.stopped : \E i \in DOMAIN restoring[AppOf[p]] :
         /\ restoring[AppOf[p]][i].type = "resume"
         /\ p \in restoring[AppOf[p]][i].procs
    /\ \A a \in Apps : \A i \in DOMAIN restoring[a] :
         restoring[a][i].type # "pause"

(* After shutdown nothing is stopped.                                      *)
NothingStopped == program \in {"quitting", "off"} => os.stopped = {}

IInv == /\ TypeOK
        /\ NoRefreshAfterQuit
        /\ HeldWhileOn
        /\ ResumeIsComing
        /\ NothingStopped

LEMMA InitIInv == Init => IInv
BY InitType DEF Init, IInv, NoRefreshAfterQuit, HeldWhileOn, ResumeIsComing,
                NothingStopped, IdleRefresh

LEMMA RefreshKeepsIInv ==
  ASSUME ~QuitOverlaps, IInv, Refresh
  PROVE  IInv'
<1>1. TypeOK'
  BY RefreshKeepsTypes DEF IInv
<1>2. program = "on" /\ program' = "on"
  BY DEF Refresh, BeginRefresh, Observe, ExecuteAction, UpdateLimiter, Commit,
         IInv, NoRefreshAfterQuit, TypeOK
<1>3. SUFFICES HeldWhileOn'
  BY <1>1, <1>2 DEF IInv, NoRefreshAfterQuit, ResumeIsComing, NothingStopped
<1>4. CASE BeginRefresh
  BY <1>2, <1>4 DEF BeginRefresh, IInv, HeldWhileOn, Limited, TypeOK,
                    RefreshState, outside
<1>5. CASE Observe
  BY <1>2, <1>5 DEF Observe, IInv, HeldWhileOn, Limited, TypeOK, RefreshState,
                    outside
<1>6. ASSUME NEW a \in Apps, ExecuteAction(a) PROVE HeldWhileOn'
  <2>. DEFINE s == [os |-> os, rt |-> refresh.runtime]
              after == Execute(s, Head(refresh.plan[a]))
  <2>1. refresh.at = "execute"
    BY <1>6 DEF ExecuteAction
  <2>2. s \in Pair /\ Recorded(s, Limited)
    BY <1>2, <2>1 DEF IInv, HeldWhileOn, TypeOK, RefreshState, Pair, Recorded
  <2>3. Head(refresh.plan[a]) \in Actions
    BY <1>6 DEF ExecuteAction, IInv, TypeOK, RefreshState, Plans
  <2>4. Recorded(after, Limited)
    BY <2>2, <2>3, ExecuteKeeps
  <2>5. /\ os' = after.os
        /\ refresh' = [refresh EXCEPT !.runtime = after.rt,
                                      !.plan[a] = Tail(@)]
        /\ limited' = limited
    BY <1>6 DEF ExecuteAction
  <2>. HIDE DEF s, after
  <2>6. refresh'.at = "execute" /\ refresh'.runtime = after.rt
    BY <2>1, <2>5 DEF IInv, TypeOK, RefreshState
  <2>. QED
    BY <2>4, <2>5, <2>6 DEF HeldWhileOn, Recorded, Limited
<1>7. CASE UpdateLimiter
  <2>1. /\ refresh.at = "execute" /\ refresh'.at = "commit"
        /\ refresh'.runtime = refresh.runtime
    BY <1>7 DEF UpdateLimiter, IInv, TypeOK, RefreshState
  <2>2. os'.stopped = os.stopped \ UNION {limited[a] \cup limited'[a] :
                           a \in {b \in Apps : limited'[b] # limited[b]}}
    BY <1>7 DEF UpdateLimiter, IInv, TypeOK, Machine
  <2>3. os.stopped \subseteq refresh.runtime.paused \cup Limited
    BY <1>2, <2>1 DEF IInv, HeldWhileOn
  <2>4. ASSUME NEW p \in os'.stopped, p \in Limited PROVE p \in Limited'
    BY <2>2, <2>4 DEF Limited
  <2>. QED
    BY <2>1, <2>2, <2>3, <2>4 DEF HeldWhileOn
<1>8. CASE Commit
  BY <1>2, <1>8 DEF Commit, IInv, HeldWhileOn, Limited, IdleRefresh
<1>. QED
  BY <1>4, <1>5, <1>6, <1>7, <1>8 DEF Refresh, IInv

(* The parts of a concatenation: the second follows the first.             *)
LEMMA Parts ==
  ASSUME NEW x \in Seq(Actions), NEW y \in Seq(Actions)
  PROVE  /\ x \o y \in Seq(Actions)
         /\ \A i \in DOMAIN x : i \in DOMAIN (x \o y) /\ (x \o y)[i] = x[i]
         /\ \A j \in DOMAIN y : /\ j + Len(x) \in DOMAIN (x \o y)
                                /\ (x \o y)[j + Len(x)] = y[j]
         /\ \A i \in DOMAIN (x \o y) :
              \/ i \in DOMAIN x /\ (x \o y)[i] = x[i]
              \/ /\ i > Len(x)
                 /\ \E j \in DOMAIN y : (x \o y)[i] = y[j]
         /\ Len(x \o y) = Len(x) + Len(y)
<1>1. /\ x \o y \in Seq(Actions) /\ DOMAIN x = 1..Len(x) /\ DOMAIN y = 1..Len(y)
      /\ DOMAIN (x \o y) = 1..(Len(x) + Len(y))
      /\ Len(x) \in Nat /\ Len(y) \in Nat
      /\ Len(x \o y) = Len(x) + Len(y)
  OBVIOUS
<1>2. \A i \in 1..(Len(x) + Len(y)) :
        (x \o y)[i] = IF i <= Len(x) THEN x[i] ELSE y[i - Len(x)]
  OBVIOUS
<1>3. ASSUME NEW i \in 1..(Len(x) + Len(y)), i > Len(x)
      PROVE  i - Len(x) \in DOMAIN y /\ (x \o y)[i] = y[i - Len(x)]
  BY <1>1, <1>2, <1>3
<1>4. \A i \in DOMAIN x : i \in DOMAIN (x \o y) /\ (x \o y)[i] = x[i]
  BY <1>1, <1>2
<1>5. \A j \in DOMAIN y : /\ j + Len(x) \in DOMAIN (x \o y)
                          /\ (x \o y)[j + Len(x)] = y[j]
  BY <1>1, <1>2
<1>6. \A i \in DOMAIN (x \o y) :
        \/ i \in DOMAIN x /\ (x \o y)[i] = x[i]
        \/ /\ i > Len(x)
           /\ \E j \in DOMAIN y : (x \o y)[i] = y[j]
  <2> SUFFICES ASSUME NEW i \in 1..(Len(x) + Len(y))
               PROVE  \/ i \in DOMAIN x /\ (x \o y)[i] = x[i]
                      \/ /\ i > Len(x)
                         /\ \E j \in DOMAIN y : (x \o y)[i] = y[j]
    BY <1>1
  <2>1. CASE i <= Len(x)
    BY <1>1, <1>4, <2>1
  <2>2. CASE i > Len(x)
    BY <1>3, <2>2
  <2>. QED
    BY <1>1, <2>1, <2>2
<1>. QED
  BY <1>1, <1>4, <1>5, <1>6

(* What shutdown has to do: it resumes whatever is recorded as paused.     *)
LEMMA RestoreAllResumes ==
  ASSUME NEW rt \in RuntimeState, NEW a \in Apps
  PROVE  /\ \A i \in DOMAIN RestoreAll(a, rt) : RestoreAll(a, rt)[i].type # "pause"
         /\ \A p \in rt.paused : AppOf[p] = a =>
              \E i \in DOMAIN RestoreAll(a, rt) :
                /\ RestoreAll(a, rt)[i].type = "resume"
                /\ p \in RestoreAll(a, rt)[i].procs
<1>. DEFINE group == {p \in Procs : AppOf[p] = a}
            first == RestorePauses(a, group, rt)
            second == RestorePriority(a, group, rt)
            third == RestoreHidden(a, rt)
<1>1. /\ first \in Seq(Actions) /\ second \in Seq(Actions) /\ third \in Seq(Actions)
      /\ RestoreAll(a, rt) = first \o second \o third
  BY RestoreTypes DEF RestoreAll, RestoreGroup
<1>2. /\ \A i \in DOMAIN first : first[i].type # "pause"
      /\ \A i \in DOMAIN second : second[i].type # "pause"
      /\ \A i \in DOMAIN third : third[i].type # "pause"
  BY DEF RestorePauses, RestorePriority, RestoreHidden, If, Action
<1>3. \A p \in rt.paused : AppOf[p] = a =>
        /\ 1 \in DOMAIN first
        /\ first[1].type = "resume" /\ p \in first[1].procs
  BY DEF RestorePauses, If, Action, RuntimeState
<1>. HIDE DEF first, second, third
<1>4. /\ first \o second \in Seq(Actions)
      /\ \A i \in DOMAIN (first \o second) : (first \o second)[i].type # "pause"
      /\ \A i \in DOMAIN first : /\ i \in DOMAIN (first \o second)
                                /\ (first \o second)[i] = first[i]
  BY <1>1, <1>2, Parts
<1>5. /\ \A i \in DOMAIN RestoreAll(a, rt) : RestoreAll(a, rt)[i].type # "pause"
      /\ \A i \in DOMAIN first : /\ i \in DOMAIN RestoreAll(a, rt)
                                /\ RestoreAll(a, rt)[i] = first[i]
  BY <1>1, <1>2, <1>4, Parts
<1>. QED
  BY <1>3, <1>5

LEMMA ShutdownKeepsIInv ==
  ASSUME ~QuitOverlaps, IInv, Shutdown
  PROVE  IInv'
<1>1. TypeOK'
  BY StepKeepsTypes DEF IInv, Next, User
<1>2. program = "on" /\ refresh.at = "idle" /\ program' = "restoring"
  BY DEF Shutdown
<1>3. os'.stopped \subseteq runtime.paused
  BY <1>2 DEF Shutdown, IInv, HeldWhileOn, TypeOK, Machine
<1>4. \A a \in Apps : restoring'[a] = RestoreAll(a, runtime)
  BY DEF Shutdown
<1>5. runtime' = runtime /\ refresh' = refresh /\ limited' = Nothing
  BY DEF Shutdown
<1>6. runtime \in RuntimeState /\ runtime.paused \subseteq Procs
  BY DEF IInv, TypeOK, RuntimeState
<1>7. ResumeIsComing'
  <2>1. \A p \in os'.stopped : \E i \in DOMAIN restoring'[AppOf[p]] :
          /\ restoring'[AppOf[p]][i].type = "resume"
          /\ p \in restoring'[AppOf[p]][i].procs
    <3> SUFFICES ASSUME NEW p \in os'.stopped
                 PROVE  \E i \in DOMAIN RestoreAll(AppOf[p], runtime) :
                          /\ RestoreAll(AppOf[p], runtime)[i].type = "resume"
                          /\ p \in RestoreAll(AppOf[p], runtime)[i].procs
      BY <1>3, <1>4, <1>6
    <3>. DEFINE a == AppOf[p]
    <3>1. p \in runtime.paused /\ a \in Apps /\ AppOf[p] = a
      BY <1>3, <1>6
    <3>. QED
      BY <1>6, <3>1, RestoreAllResumes
  <2>2. \A a \in Apps : \A i \in DOMAIN restoring'[a] :
          restoring'[a][i].type # "pause"
    BY <1>4, <1>6, RestoreAllResumes
  <2>. QED
    BY <1>3, <1>5, <2>1, <2>2 DEF ResumeIsComing
<1>. QED
  BY <1>1, <1>2, <1>5, <1>7 DEF IInv, NoRefreshAfterQuit, HeldWhileOn,
                                NothingStopped

LEMMA RestoreKeepsIInv ==
  ASSUME IInv, NEW a \in Apps, RestoreAction(a)
  PROVE  IInv'
<1>. DEFINE s == [os |-> os, rt |-> runtime]
            head == Head(restoring[a])
            after == Execute(s, head)
<1>1. TypeOK'
  BY RestoreKeepsTypes DEF IInv
<1>2. /\ program = "restoring" /\ program' = "restoring"
      /\ refresh' = refresh /\ limited' = limited
      /\ restoring[a] # <<>>
      /\ restoring' = [restoring EXCEPT ![a] = Tail(@)]
      /\ os' = after.os /\ runtime' = after.rt
  BY DEF RestoreAction
<1>3. restoring \in [Apps -> Seq(Actions)]
  BY DEF IInv, TypeOK, Plans
<1>4. head \in Actions /\ head = restoring[a][1] /\ 1 \in DOMAIN restoring[a]
  BY <1>2, <1>3
<1>5. s \in Pair /\ Recorded(s, {})
  BY <1>2 DEF IInv, ResumeIsComing, TypeOK, Pair, Recorded
<1>6. Recorded(after, {})
  BY <1>4, <1>5, ExecuteKeeps
<1>7. head.type # "pause"
  BY <1>2, <1>4 DEF IInv, ResumeIsComing
<1>8. /\ after.os.stopped \subseteq os.stopped
      /\ head.type = "resume" =>
           after.os.stopped \cap head.procs \cap runtime.paused = {}
  BY <1>4, <1>5, <1>7, ExecuteStops
<1>9. os'.stopped \subseteq runtime'.paused
  BY <1>2, <1>6 DEF Recorded
<1>. HIDE DEF s, head, after
<1>10. \A i \in DOMAIN restoring'[a] : /\ i + 1 \in DOMAIN restoring[a]
                                       /\ restoring'[a][i] = restoring[a][i + 1]
  BY <1>2, <1>3
<1>11. \A b \in Apps : \A i \in DOMAIN restoring'[b] :
         restoring'[b][i].type # "pause"
  BY <1>2, <1>3, <1>10 DEF IInv, ResumeIsComing
<1>12. ASSUME NEW p \in os'.stopped
       PROVE  \E i \in DOMAIN restoring'[AppOf[p]] :
                /\ restoring'[AppOf[p]][i].type = "resume"
                /\ p \in restoring'[AppOf[p]][i].procs
  <2>1. p \in os.stopped /\ p \in Procs /\ AppOf[p] \in Apps
    BY <1>2, <1>8 DEF IInv, TypeOK, Machine
  <2>2. PICK i \in DOMAIN restoring[AppOf[p]] :
          /\ restoring[AppOf[p]][i].type = "resume"
          /\ p \in restoring[AppOf[p]][i].procs
    BY <1>2, <2>1 DEF IInv, ResumeIsComing
  <2>3. p \in runtime.paused
    BY <1>2, <2>1 DEF IInv, ResumeIsComing
  <2>4. CASE AppOf[p] = a
    <3>1. i # 1
      BY <1>2, <1>4, <1>8, <2>2, <2>3, <2>4
    <3>2. i - 1 \in DOMAIN restoring'[a] /\ restoring'[a][i - 1] = restoring[a][i]
      BY <1>2, <1>3, <2>2, <2>4, <3>1
    <3>. QED
      BY <2>2, <2>4, <3>2
  <2>5. CASE AppOf[p] # a
    BY <1>2, <1>3, <2>1, <2>2, <2>5
  <2>. QED
    BY <2>4, <2>5
<1>13. ResumeIsComing'
  BY <1>9, <1>11, <1>12 DEF ResumeIsComing
<1>. QED
  BY <1>1, <1>2, <1>13 DEF IInv, NoRefreshAfterQuit, HeldWhileOn, NothingStopped

LEMMA StepKeepsIInv ==
  ASSUME ~Crashes, ~QuitOverlaps
  PROVE  IInv /\ [Next]_vars => IInv'
<1>. SUFFICES ASSUME IInv, [Next]_vars PROVE IInv'
  OBVIOUS
<1>1. TypeOK'
  BY StepKeepsTypes DEF IInv
<1>. USE DEF IInv, NoRefreshAfterQuit, HeldWhileOn, ResumeIsComing,
             NothingStopped, Limited
<1>2. CASE Refresh
  BY <1>2, RefreshKeepsIInv
<1>3. CASE ToggleManagement
  BY <1>1, <1>3 DEF ToggleManagement, outside
<1>4. ASSUME NEW a \in Apps, NEW rule \in RuleChoices \cup {NoRule}, SetRule(a, rule)
      PROVE  IInv'
  BY <1>1, <1>4 DEF SetRule, outside
<1>5. ASSUME NEW a \in Apps \cup {NoApp}, SwitchTo(a) PROVE IInv'
  <2>1. os'.stopped = os.stopped
    BY <1>5 DEF SwitchTo, TypeOK, Machine
  <2>. QED
    BY <1>1, <1>5, <2>1 DEF SwitchTo, config
<1>6. CASE Shutdown
  BY <1>6, ShutdownKeepsIInv
<1>7. CASE Start
  BY <1>1, <1>7 DEF Start, config, outside
<1>8. ASSUME NEW a \in Apps, RestoreAction(a) PROVE IInv'
  BY <1>8, RestoreKeepsIInv
<1>9. CASE SaveAndQuit
  <2>1. os.stopped = {}
    <3> SUFFICES ASSUME NEW p \in os.stopped PROVE FALSE
      OBVIOUS
    <3>1. p \in Procs
      BY DEF TypeOK, Machine
    <3>2. restoring[AppOf[p]] = <<>>
      BY <1>9, <3>1 DEF SaveAndQuit, NoPlan
    <3>. QED
      BY <1>9, <3>2 DEF SaveAndQuit
  <2>. QED
    BY <1>1, <1>9, <2>1 DEF SaveAndQuit, config
<1>10. ASSUME NEW p \in Procs, LimiterStop(p) \/ LimiterContinue(p) PROVE IInv'
  <2>1. p \in Limited /\ os'.stopped \subseteq os.stopped \cup {p}
    BY <1>10 DEF LimiterStop, LimiterContinue, TypeOK, Machine
  <2>2. program = "on"
    BY <2>1 DEF Nothing
  <2>. QED
    BY <1>1, <1>10, <2>1, <2>2 DEF LimiterStop, LimiterContinue, config
<1>11. ASSUME NEW p \in Procs, Spawn(p) \/ Exit(p) PROVE IInv'
  <2>1. os'.stopped \subseteq os.stopped
    <3>1. CASE Spawn(p)
      BY <3>1 DEF Spawn, TypeOK, Machine
    <3>2. CASE Exit(p)
      <4>1. os'.stopped = os.stopped \ {p}
        BY <3>2 DEF Exit, TypeOK, Machine
      <4>. QED
        BY <4>1
    <3>. QED
      BY <1>11, <3>1, <3>2
  <2>. QED
    BY <1>1, <1>11, <2>1 DEF Spawn, Exit, config
<1>12. CASE End
  <2>1. program = "quitting"
    BY <1>12 DEF End
  <2>. QED
    BY <1>1, <1>12, <2>1 DEF End, IdleRefresh, config, outside
<1>13. CASE UNCHANGED vars
  BY <1>1, <1>13 DEF vars
<1>. QED
  BY <1>2, <1>3, <1>4, <1>5, <1>6, <1>7, <1>8, <1>9, <1>10, <1>11, <1>12,
     <1>13 DEF Next, User

(* While OpenTamer runs, a process that it has stopped is in one of its    *)
(* records or in the limiter's, between any two steps of a Refresh.        *)
THEOREM StoppedAreRemembered ==
  ASSUME ~Crashes, ~QuitOverlaps
  PROVE  Spec => []StoppedAreRecorded
<1>1. IInv => StoppedAreRecorded
  BY DEF IInv, HeldWhileOn, StoppedAreRecorded
<1>. QED
  BY <1>1, InitIInv, StepKeepsIInv, PTL DEF Spec

(* Once OpenTamer has quit, none of the processes it stopped is stopped,   *)
(* whichever of them started or exited while it was restoring.             *)
THEOREM EverythingRunsInTheEnd ==
  ASSUME ~Crashes, ~QuitOverlaps
  PROVE  Spec => []NothingStaysStopped
<1>1. IInv => NothingStaysStopped
  BY DEF IInv, NothingStopped, NothingStaysStopped
<1>. QED
  BY <1>1, InitIInv, StepKeepsIInv, PTL DEF Spec

-----------------------------------------------------------------------------
(* What is on disk.                                                        *)

(* While the program is on, the file says what controller.runtime says:    *)
(* a Refresh that does not save has changed nothing, and saves succeed.    *)
SaveInv ==
  /\ TypeOK
  /\ program = "off" => refresh.at = "idle"
  /\ program = "on" =>
       /\ runtime = disk
       /\ refresh.at = "observe" => refresh.runtime = runtime
       /\ refresh.at \in {"execute", "commit"} /\ ~refresh.save =>
            refresh.runtime = runtime
       /\ refresh.at = "execute" /\ ~refresh.save =>
            \A a \in Apps : \A i \in DOMAIN refresh.plan[a] :
              refresh.plan[a][i].type = "limit_cpu"

LEMMA InitSave == Init => SaveInv
BY InitType DEF Init, SaveInv, IdleRefresh

LEMMA RefreshKeepsSave ==
  ASSUME ~SavesFail
  PROVE  SaveInv /\ Refresh => SaveInv'
<1>. SUFFICES ASSUME SaveInv, Refresh PROVE SaveInv'
  OBVIOUS
<1>1. TypeOK'
  BY RefreshKeepsTypes DEF SaveInv
<1>2. program # "off" /\ program' = program
  BY DEF Refresh, BeginRefresh, Observe, ExecuteAction, UpdateLimiter, Commit
<1>3. CASE BeginRefresh
  <2>1. /\ refresh'.at = "observe" /\ refresh'.runtime = runtime
        /\ runtime' = runtime /\ disk' = disk
    BY <1>3 DEF BeginRefresh, SaveInv, TypeOK, RefreshState, outside
  <2>. QED
    BY <1>1, <1>2, <2>1 DEF SaveInv
<1>4. CASE Observe
  <2>1. PICK plan, requests :
          refresh' = [refresh EXCEPT !.at = "execute", !.plan = plan,
                                     !.requests = requests,
                                     !.save = SavesImmediately(plan)]
    BY <1>4 DEF Observe
  <2>2. /\ refresh'.at = "execute" /\ refresh'.runtime = refresh.runtime
        /\ refresh'.plan = plan /\ refresh'.save = SavesImmediately(plan)
        /\ runtime' = runtime /\ disk' = disk /\ refresh.at = "observe"
    BY <1>4, <2>1 DEF Observe, SaveInv, TypeOK, RefreshState, outside
  <2>3. ~refresh'.save => \A a \in Apps : \A i \in DOMAIN refresh'.plan[a] :
                            refresh'.plan[a][i].type = "limit_cpu"
    BY <2>2 DEF SavesImmediately
  <2>. QED
    BY <1>1, <1>2, <2>2, <2>3 DEF SaveInv
<1>5. ASSUME NEW a \in Apps, ExecuteAction(a) PROVE SaveInv'
  <2>. DEFINE s == [os |-> os, rt |-> refresh.runtime]
              list == refresh.plan[a]
              after == Execute(s, Head(list))
  <2>1. /\ refresh.at = "execute" /\ list # <<>>
        /\ refresh' = [refresh EXCEPT !.runtime = after.rt, !.plan[a] = Tail(@)]
        /\ runtime' = runtime /\ disk' = disk
    BY <1>5 DEF ExecuteAction
  <2>2. refresh.plan \in [Apps -> Seq(Actions)] /\ list \in Seq(Actions)
    BY DEF SaveInv, TypeOK, RefreshState, Plans
  <2>3. /\ Head(list) = list[1] /\ 1 \in DOMAIN list
        /\ \A i \in DOMAIN Tail(list) : /\ i + 1 \in DOMAIN list
                                        /\ Tail(list)[i] = list[i + 1]
    BY <2>1, <2>2
  <2>4. Head(list).type = "limit_cpu" => after.rt = refresh.runtime
    BY DEF Execute
  <2>. HIDE DEF after
  <2>5. /\ refresh'.at = "execute" /\ refresh'.runtime = after.rt
        /\ refresh'.save = refresh.save
        /\ refresh'.plan = [refresh.plan EXCEPT ![a] = Tail(list)]
    BY <2>1 DEF SaveInv, TypeOK, RefreshState
  <2>6. \A b \in Apps : refresh'.plan[b] = IF b = a THEN Tail(list) ELSE refresh.plan[b]
    BY <2>2, <2>5
  <2>7. CASE program = "on" /\ ~refresh.save
    <3>1. /\ refresh.runtime = runtime
          /\ \A b \in Apps : \A i \in DOMAIN refresh.plan[b] :
               refresh.plan[b][i].type = "limit_cpu"
      BY <2>1, <2>7 DEF SaveInv
    <3>2. after.rt = refresh.runtime
      BY <2>3, <2>4, <3>1
    <3>3. \A i \in DOMAIN Tail(list) : Tail(list)[i].type = "limit_cpu"
      BY <2>3, <3>1
    <3>. HIDE DEF list
    <3>4. \A b \in Apps : \A i \in DOMAIN refresh'.plan[b] :
            refresh'.plan[b][i].type = "limit_cpu"
      BY <2>6, <3>1, <3>3
    <3>. QED
      BY <1>1, <1>2, <2>1, <2>5, <2>7, <3>1, <3>2, <3>4 DEF SaveInv
  <2>8. CASE program # "on" \/ refresh.save
    BY <1>1, <1>2, <2>1, <2>5, <2>8 DEF SaveInv
  <2>. QED
    BY <2>7, <2>8
<1>6. CASE UpdateLimiter
  <2>1. /\ refresh.at = "execute" /\ refresh'.at = "commit"
        /\ refresh'.runtime = refresh.runtime /\ refresh'.save = refresh.save
        /\ runtime' = runtime /\ disk' = disk
    BY <1>6 DEF UpdateLimiter, SaveInv, TypeOK, RefreshState
  <2>. QED
    BY <1>1, <1>2, <2>1 DEF SaveInv
<1>7. CASE Commit
  <2>1. /\ refresh.at = "commit" /\ refresh'.at = "idle"
        /\ runtime' = refresh.runtime
        /\ disk' = refresh.runtime \/ (~refresh.save /\ disk' = disk)
    BY <1>7 DEF Commit, SaveRuntime, IdleRefresh
  <2>. QED
    BY <1>1, <1>2, <2>1 DEF SaveInv
<1>. QED
  BY <1>3, <1>4, <1>5, <1>6, <1>7 DEF Refresh

LEMMA StepKeepsSave ==
  ASSUME ~SavesFail
  PROVE  SaveInv /\ [Next]_vars => SaveInv'
<1>. SUFFICES ASSUME SaveInv, [Next]_vars PROVE SaveInv'
  OBVIOUS
<1>1. TypeOK'
  BY StepKeepsTypes DEF SaveInv
<1>2. CASE Refresh
  BY <1>2, RefreshKeepsSave
<1>3. ASSUME UNCHANGED <<program, runtime, refresh, disk>> PROVE SaveInv'
  BY <1>1, <1>3 DEF SaveInv
<1>4. CASE ToggleManagement
  BY <1>3, <1>4 DEF ToggleManagement, outside
<1>5. ASSUME NEW a \in Apps, NEW rule \in RuleChoices \cup {NoRule}, SetRule(a, rule)
      PROVE  SaveInv'
  BY <1>3, <1>5 DEF SetRule, outside
<1>6. ASSUME NEW a \in Apps \cup {NoApp}, SwitchTo(a) PROVE SaveInv'
  BY <1>3, <1>6 DEF SwitchTo
<1>7. CASE Shutdown
  BY <1>1, <1>7 DEF Shutdown, SaveInv
<1>8. CASE Start
  BY <1>1, <1>8 DEF Start, SaveInv, outside
<1>9. ASSUME NEW a \in Apps, RestoreAction(a) PROVE SaveInv'
  BY <1>1, <1>9 DEF RestoreAction, SaveInv
<1>10. CASE SaveAndQuit
  BY <1>1, <1>10 DEF SaveAndQuit, SaveInv
<1>11. ASSUME NEW p \in Procs, LimiterStop(p) \/ LimiterContinue(p) PROVE SaveInv'
  BY <1>3, <1>11 DEF LimiterStop, LimiterContinue
<1>12. ASSUME NEW p \in Procs, Spawn(p) \/ Exit(p) PROVE SaveInv'
  BY <1>3, <1>12 DEF Spawn, Exit
<1>13. CASE End
  BY <1>1, <1>13 DEF End, SaveInv, IdleRefresh
<1>14. CASE UNCHANGED vars
  BY <1>3, <1>14 DEF vars
<1>. QED
  BY <1>2, <1>4, <1>5, <1>6, <1>7, <1>8, <1>9, <1>10, <1>11, <1>12, <1>13,
     <1>14 DEF Next, User

(* While the program is on, runtime-state.json is what controller.runtime  *)
(* is, as long as saves succeed: a start after a crash knows what the last *)
(* completed Refresh knew.                                                 *)
THEOREM FileIsCurrent ==
  ASSUME ~SavesFail
  PROVE  Spec => [](program = "on" => disk = runtime)
<1>1. SaveInv => (program = "on" => disk = runtime)
  BY DEF SaveInv
<1>. QED
  BY <1>1, InitSave, StepKeepsSave, PTL DEF Spec

-----------------------------------------------------------------------------
(* Hidden windows and lowered priorities.                                  *)

(* The assumptions of the theorems below: PIDs grow, processes start with  *)
(* the normal priority, and rules lower it as the menu does.               *)
PidsGrow == \A p \in Born, q \in Procs \ Born : p < q
NormalPriorities ==
  /\ \A p \in Procs : Niceness[p] = 0
  /\ \A rule \in RuleChoices : rule.mode = "priority" => rule.nice >= Background

(* The runtime state that counts: that of the Refresh that is running,     *)
(* controller.runtime between two of them and during shutdown, the file    *)
(* once the shutdown is over.                                              *)
Held == IF refresh.at = "idle" THEN runtime ELSE refresh.runtime
Memory == IF program \in {"quitting", "off"} THEN disk ELSE Held

(* A process p that was recorded or chosen as the first one of a: it has   *)
(* been started, and while it lives no older process of a does.            *)
Leads(a, p, alive, later) ==
  /\ p \notin later
  /\ p \in alive => AppOf[p] = a /\ \A q \in alive : AppOf[q] = a => p <= q

(* What was done to the machine and outlives the program is in rt, with    *)
(* the priority to go back to.                                             *)
Covered(machine, rt, later) ==
  /\ machine.background \subseteq machine.alive \cap Changed(rt)
  /\ machine.concealed \subseteq machine.alive \cap {rt.hidden[a] : a \in Apps}
  /\ \A p \in Procs : machine.nice[p] = 0 /\ rt.changes[p].original = 0
  /\ \A a \in Apps : Leads(a, rt.hidden[a], machine.alive, later)

(* What a file says that is read when nothing is left to take back.        *)
Harmless(rt, alive, later) ==
  /\ \A p \in Procs : rt.changes[p].original = 0
  /\ \A a \in Apps : Leads(a, rt.hidden[a], alive, later)

(* An action on a that keeps it so.                                        *)
Behaved(a, action, alive, later) ==
  /\ action.app = a
  /\ action.type = "set_priority" => action.nice >= Background
  /\ action.type \in {"hide", "hide_when_stopped"} =>
       Leads(a, FirstProc(action.procs), alive, later)

BornInOrder ==
  /\ os.alive \cap unborn = {}
  /\ \A p \in os.alive, q \in unborn : p < q

PlanBehaves ==
  refresh.at = "execute" =>
    \A a \in Apps : \A i \in DOMAIN refresh.plan[a] :
      Behaved(a, refresh.plan[a][i], os.alive, unborn)

(* During shutdown: what takes it back is still to come.                   *)
UndoIsComing ==
  program = "restoring" =>
    /\ \A a \in Apps : restoring[a] \in Seq(Restorations(a))
    /\ \A p \in os.background : \E i \in DOMAIN restoring[AppOf[p]] :
         /\ restoring[AppOf[p]][i].type = "restore_priority"
         /\ p \in restoring[AppOf[p]][i].procs
    /\ \A p \in os.concealed : \E i \in DOMAIN restoring[AppOf[p]] :
         restoring[AppOf[p]][i].type = "activate"

NothingLeft ==
  program \in {"quitting", "off"} => os.background = {} /\ os.concealed = {}

CoverInv == /\ TypeOK
            /\ NoRefreshAfterQuit
            /\ BornInOrder
            /\ Covered(os, Memory, unborn)
            /\ PlanBehaves
            /\ UndoIsComing
            /\ NothingLeft

(* A save that fails leaves an older file, which the next start trusts.    *)
FileIsHarmless == Harmless(disk, os.alive, unborn)

-----------------------------------------------------------------------------
(* What one action does to priorities and windows.                         *)

LEMMA HideCovers ==
  ASSUME NEW s \in Pair, NEW a \in Apps, NEW procs, NEW later,
         Covered(s.os, s.rt, later),
         Leads(a, FirstProc(procs), s.os.alive, later)
  PROVE  LET t == HideGroup(s, a, procs)
         IN Covered(t.os, t.rt, later) /\ t.os.alive = s.os.alive
<1>. DEFINE p == FirstProc(procs)
            t == HideGroup(s, a, procs)
<1>1. CASE p \in s.os.alive
  <2>. DEFINE machine == [s.os EXCEPT !.concealed = @ \cup {p},
                                      !.front = IF @ = a THEN NoApp ELSE @]
              rt == [s.rt EXCEPT !.hidden[a] = p]
  <2>1. t = [os |-> machine, rt |-> rt]
    BY <1>1 DEF HideGroup
  <2>2. Leads(a, p, s.os.alive, later)
    OBVIOUS
  <2>. HIDE DEF p, t
  <2>3. /\ machine.alive = s.os.alive /\ machine.background = s.os.background
        /\ machine.nice = s.os.nice /\ machine.concealed = s.os.concealed \cup {p}
    BY DEF Pair, Machine
  <2>4. /\ rt.changes = s.rt.changes
        /\ rt.hidden[a] = p /\ \A b \in Apps \ {a} : rt.hidden[b] = s.rt.hidden[b]
    BY DEF Pair, RuntimeState
  <2>. HIDE DEF machine, rt
  <2>5. machine.concealed \subseteq machine.alive \cap {rt.hidden[b] : b \in Apps}
    <3> SUFFICES ASSUME NEW q \in s.os.concealed
                 PROVE  q \in s.os.alive /\ \E b \in Apps : q = rt.hidden[b]
      BY <1>1, <2>3, <2>4
    <3>1. PICK b \in Apps : q = s.rt.hidden[b] /\ q \in s.os.alive
      BY DEF Covered
    <3>2. CASE b = a
      <4>1. Leads(a, q, s.os.alive, later)
        BY <3>1, <3>2 DEF Covered
      <4>2. q <= p /\ p <= q
        BY <1>1, <2>2, <3>1, <4>1 DEF Leads
      <4>3. q \in Nat /\ p \in Nat
        BY <1>1, <3>1 DEF Pair, Machine
      <4>4. q = p
        BY <4>2, <4>3
      <4>. QED
        BY <2>4, <3>1, <4>4
    <3>3. CASE b # a
      BY <2>4, <3>1, <3>3
    <3>. QED
      BY <3>2, <3>3
  <2>6. \A b \in Apps : Leads(b, rt.hidden[b], machine.alive, later)
    BY <2>2, <2>3, <2>4 DEF Covered
  <2>7. Changed(rt) = Changed(s.rt)
    BY <2>4 DEF Changed
  <2>8. Covered(machine, rt, later)
    BY <2>3, <2>4, <2>5, <2>6, <2>7 DEF Covered
  <2>9. t.os = machine /\ t.rt = rt
    BY <2>1
  <2>. QED
    BY <2>3, <2>8, <2>9 DEF t
<1>2. CASE p \notin s.os.alive
  BY <1>2 DEF HideGroup
<1>. QED
  BY <1>1, <1>2

LEMMA ActivateCovers ==
  ASSUME NEW s \in Pair, NEW a \in Apps, NEW procs, NEW later,
         Covered(s.os, s.rt, later), NoProc \notin later
  PROVE  LET t == ActivateGroup(s, a, procs)
         IN /\ Covered(t.os, t.rt, later) /\ t.os.alive = s.os.alive
            /\ t.os.background = s.os.background
            /\ t.os.concealed \subseteq s.os.concealed
            /\ \A p \in t.os.concealed : AppOf[p] # a
<1>. DEFINE p == IF s.rt.hidden[a] # NoProc THEN s.rt.hidden[a] ELSE FirstProc(procs)
            machine == IF p \in s.os.alive
                       THEN [s.os EXCEPT !.concealed = @ \ {p}, !.front = a]
                       ELSE s.os
            rt == [s.rt EXCEPT !.hidden[a] = NoProc]
            t == ActivateGroup(s, a, procs)
<1>1. t = [os |-> machine, rt |-> rt]
  BY DEF ActivateGroup
<1>2. s.rt.hidden[a] # NoProc => p = s.rt.hidden[a]
  OBVIOUS
<1>. HIDE DEF p, t
<1>3. /\ machine.alive = s.os.alive /\ machine.background = s.os.background
      /\ machine.nice = s.os.nice /\ machine.concealed \subseteq s.os.concealed
      /\ p \in s.os.alive => p \notin machine.concealed
  BY DEF Pair, Machine
<1>4. /\ rt.changes = s.rt.changes
      /\ rt.hidden[a] = NoProc /\ \A b \in Apps \ {a} : rt.hidden[b] = s.rt.hidden[b]
  BY DEF Pair, RuntimeState
<1>. HIDE DEF machine, rt
<1>5. ASSUME NEW q \in machine.concealed
      PROVE  q \in s.os.alive /\ AppOf[q] # a /\ \E b \in Apps : q = rt.hidden[b]
  <2>1. PICK b \in Apps : q = s.rt.hidden[b] /\ q \in s.os.alive
    BY <1>3 DEF Covered
  <2>2. q \in Procs /\ q # NoProc
    BY <2>1 DEF Pair, Machine
  <2>3. b # a
    BY <1>2, <1>3, <2>1, <2>2
  <2>4. AppOf[q] = b
    BY <2>1 DEF Covered, Leads
  <2>. QED
    BY <1>4, <2>1, <2>3, <2>4
<1>6. Leads(a, NoProc, s.os.alive, later)
  BY DEF Leads, Pair, Machine
<1>7. \A b \in Apps : Leads(b, rt.hidden[b], machine.alive, later)
  BY <1>3, <1>4, <1>6 DEF Covered
<1>8. Changed(rt) = Changed(s.rt)
  BY <1>4 DEF Changed
<1>9. Covered(machine, rt, later)
  BY <1>3, <1>4, <1>5, <1>7, <1>8 DEF Covered
<1>10. t.os = machine /\ t.rt = rt
  BY <1>1
<1>. QED
  BY <1>3, <1>5, <1>9, <1>10 DEF t

(* The operations that leave priorities, windows and their records alone.  *)
LEMMA SameCovers ==
  ASSUME NEW s \in Pair, NEW t \in Pair, NEW later, Covered(s.os, s.rt, later),
         t.os.alive = s.os.alive, t.os.background = s.os.background,
         t.os.concealed = s.os.concealed, t.os.nice = s.os.nice,
         t.rt.changes = s.rt.changes, t.rt.hidden = s.rt.hidden
  PROVE  Covered(t.os, t.rt, later)
BY DEF Covered, Changed

LEMMA SetPriorityCovers ==
  ASSUME NEW s \in Pair, NEW procs \in SUBSET Procs, NEW target \in Nat,
         target >= Background, NEW later, Covered(s.os, s.rt, later)
  PROVE  LET t == SetPriorityGroup(s, procs, target)
         IN Covered(t.os, t.rt, later) /\ t.os.alive = s.os.alive
<1>. DEFINE live == procs \cap s.os.alive
            value == [p \in live |-> target]
            machine == SetPriority(s.os, value)
            changes == [p \in Procs |->
                          IF p \in live
                          THEN [original |-> s.os.nice[p], target |-> target]
                          ELSE IF p \in procs THEN NoChange ELSE s.rt.changes[p]]
            rt == [s.rt EXCEPT !.changes = changes]
            t == SetPriorityGroup(s, procs, target)
<1>1. t = [os |-> machine, rt |-> rt]
  BY DEF SetPriorityGroup
<1>2. DOMAIN value = live /\ \A p \in live : value[p] = target
  OBVIOUS
<1>. HIDE DEF value, t
<1>3. /\ machine.alive = s.os.alive /\ machine.concealed = s.os.concealed
      /\ \A p \in Procs : machine.nice[p] =
           IF p \in DOMAIN value /\ 0 < value[p] /\ value[p] < Background
           THEN value[p] ELSE s.os.nice[p]
      /\ machine.background = (s.os.background \cup
                                 {p \in DOMAIN value : value[p] >= Background})
                                \ {p \in DOMAIN value : value[p] = 0}
  BY DEF SetPriority, Pair, Machine
<1>4. /\ \A p \in Procs : machine.nice[p] = s.os.nice[p]
      /\ machine.background \subseteq s.os.background \cup live
  BY <1>2, <1>3 DEF Background
<1>5. rt.hidden = s.rt.hidden /\ rt.changes = changes
  BY DEF Pair, RuntimeState
<1>6. \A p \in Procs : s.os.nice[p] = 0 /\ s.rt.changes[p].original = 0
  BY DEF Covered
<1>7. \A p \in Procs : rt.changes[p] =
        IF p \in live THEN [original |-> 0, target |-> target]
        ELSE IF p \in procs THEN NoChange ELSE s.rt.changes[p]
  BY <1>5, <1>6
<1>. HIDE DEF machine, rt, changes
<1>8. \A p \in Procs : rt.changes[p].original = 0
  BY <1>6, <1>7 DEF NoChange
<1>9. s.os.background \subseteq s.os.alive \cap Changed(s.rt)
  BY DEF Covered
<1>10. ASSUME NEW p \in machine.background PROVE p \in s.os.alive \cap Changed(rt)
  <2>1. p \in s.os.alive /\ p \in Procs
    BY <1>4, <1>9 DEF Pair, Machine
  <2>2. CASE p \in live
    <3>1. rt.changes[p].target = target /\ target # 0
      BY <1>7, <2>1, <2>2 DEF Background
    <3>2. rt.changes[p] # NoChange
      BY <3>1 DEF NoChange
    <3>. QED
      BY <2>1, <3>2 DEF Changed
  <2>3. CASE p \notin live
    <3>1. p \in Changed(s.rt) /\ p \notin procs
      BY <1>4, <1>9, <2>1, <2>3
    <3>2. rt.changes[p] = s.rt.changes[p]
      BY <1>7, <2>1, <2>3, <3>1
    <3>. QED
      BY <2>1, <3>1, <3>2 DEF Changed
  <2>. QED
    BY <2>2, <2>3
<1>11. Covered(machine, rt, later)
  BY <1>3, <1>4, <1>5, <1>6, <1>8, <1>10 DEF Covered
<1>12. t.os = machine /\ t.rt = rt
  BY <1>1
<1>. QED
  BY <1>3, <1>11, <1>12 DEF t

LEMMA RestorePriorityCovers ==
  ASSUME NEW s \in Pair, NEW procs \in SUBSET Procs, NEW later,
         Covered(s.os, s.rt, later)
  PROVE  LET t == RestorePriorityGroup(s, procs)
         IN /\ Covered(t.os, t.rt, later) /\ t.os.alive = s.os.alive
            /\ t.os.background = s.os.background \ procs
            /\ t.os.concealed = s.os.concealed
<1>. DEFINE recorded == procs \cap Changed(s.rt)
            live == recorded \cap s.os.alive
            value == [p \in live |-> s.rt.changes[p].original]
            machine == SetPriority(s.os, value)
            changes == [p \in Procs |-> IF p \in recorded THEN NoChange
                                        ELSE s.rt.changes[p]]
            rt == [s.rt EXCEPT !.changes = changes]
            t == RestorePriorityGroup(s, procs)
<1>1. t = [os |-> machine, rt |-> rt]
  BY DEF RestorePriorityGroup
<1>2. DOMAIN value = live /\ \A p \in live : value[p] = 0
  BY DEF Covered
<1>. HIDE DEF value, t
<1>3. /\ machine.alive = s.os.alive /\ machine.concealed = s.os.concealed
      /\ \A p \in Procs : machine.nice[p] =
           IF p \in DOMAIN value /\ 0 < value[p] /\ value[p] < Background
           THEN value[p] ELSE s.os.nice[p]
      /\ machine.background = (s.os.background \cup
                                 {p \in DOMAIN value : value[p] >= Background})
                                \ {p \in DOMAIN value : value[p] = 0}
  BY DEF SetPriority, Pair, Machine
<1>4. /\ \A p \in Procs : machine.nice[p] = s.os.nice[p]
      /\ machine.background = s.os.background \ live
  <2>. HIDE DEF live, machine
  <2>1. \A p \in DOMAIN value : value[p] = 0
    BY <1>2
  <2>2. \A p \in DOMAIN value : ~(value[p] >= Background) /\ ~(0 < value[p])
    BY <2>1 DEF Background
  <2>3. \A p \in Procs : machine.nice[p] = s.os.nice[p]
    BY <1>3, <2>2
  <2>4. machine.background = s.os.background \ DOMAIN value
    BY <1>3, <2>1, <2>2
  <2>. QED
    BY <1>2, <2>3, <2>4
<1>5. s.os.background \subseteq s.os.alive \cap Changed(s.rt)
  BY DEF Covered
<1>6. machine.background = s.os.background \ procs
  BY <1>4, <1>5
<1>7. rt.hidden = s.rt.hidden
      /\ \A p \in Procs : rt.changes[p] = IF p \in recorded THEN NoChange
                                          ELSE s.rt.changes[p]
  BY DEF Pair, RuntimeState
<1>. HIDE DEF machine, rt
<1>8. \A p \in Procs : rt.changes[p].original = 0
  BY <1>7 DEF Covered, NoChange
<1>9. machine.background \subseteq s.os.alive \cap Changed(rt)
  BY <1>5, <1>6, <1>7 DEF Changed
<1>10. Covered(machine, rt, later)
  BY <1>3, <1>4, <1>7, <1>8, <1>9 DEF Covered
<1>11. t.os = machine /\ t.rt = rt
  BY <1>1
<1>. QED
  BY <1>3, <1>6, <1>10, <1>11 DEF t

LEMMA ExecuteCovers ==
  ASSUME NEW s \in Pair, NEW action \in Actions, NEW later,
         Covered(s.os, s.rt, later), NoProc \notin later,
         Behaved(action.app, action, s.os.alive, later)
  PROVE  LET t == Execute(s, action)
         IN Covered(t.os, t.rt, later) /\ t.os.alive = s.os.alive
<1>. DEFINE a == action.app
            procs == action.procs
            t == Execute(s, action)
<1>1. a \in Apps /\ procs \in SUBSET Procs /\ action.nice \in Nat
      /\ action.type \in ActionTypes
  BY DEF Actions
<1>2. CASE action.type = "pause"
  <2>1. t = PauseGroup(s, procs)
    BY <1>2 DEF Execute
  <2>2. t \in Pair
    BY <1>1, <2>1, PauseKeeps DEF Recorded
  <2>3. /\ t.os.alive = s.os.alive /\ t.os.background = s.os.background
        /\ t.os.concealed = s.os.concealed /\ t.os.nice = s.os.nice
        /\ t.rt.changes = s.rt.changes /\ t.rt.hidden = s.rt.hidden
    BY <2>1 DEF PauseGroup, Pair, Machine, RuntimeState
  <2>. HIDE DEF t
  <2>4. Covered(t.os, t.rt, later)
    BY <2>2, <2>3, SameCovers
  <2>. QED
    BY <2>3, <2>4 DEF t
<1>3. CASE action.type = "resume"
  <2>. DEFINE resumed == ResumeGroup(s, procs)
  <2>1. resumed \in Pair
    BY <1>1, ResumeKeeps DEF Recorded
  <2>2. /\ resumed.os.alive = s.os.alive /\ resumed.os.background = s.os.background
        /\ resumed.os.concealed = s.os.concealed /\ resumed.os.nice = s.os.nice
        /\ resumed.rt.changes = s.rt.changes /\ resumed.rt.hidden = s.rt.hidden
    BY DEF ResumeGroup, Pair, Machine, RuntimeState
  <2>3. t = IF resumed.rt.hidden[a] # NoProc
            THEN ActivateGroup(resumed, a, procs) ELSE resumed
    BY <1>3 DEF Execute
  <2>. HIDE DEF resumed, t
  <2>4. Covered(resumed.os, resumed.rt, later)
    BY <2>1, <2>2, SameCovers
  <2>5. CASE resumed.rt.hidden[a] # NoProc
    <3>1. t = ActivateGroup(resumed, a, procs)
      BY <2>3, <2>5
    <3>2. Covered(t.os, t.rt, later) /\ t.os.alive = resumed.os.alive
      BY <1>1, <2>1, <2>4, <3>1, ActivateCovers
    <3>. QED
      BY <2>2, <3>2 DEF t
  <2>6. CASE resumed.rt.hidden[a] = NoProc
    BY <2>2, <2>3, <2>4, <2>6 DEF t
  <2>. QED
    BY <2>5, <2>6
<1>4. CASE action.type = "wake_briefly"
  <2>1. t = WakeGroupBriefly(s, procs)
    BY <1>4 DEF Execute
  <2>2. t \in Pair
    BY <1>1, <2>1, WakeKeeps DEF Recorded
  <2>3. /\ t.os.alive = s.os.alive /\ t.os.background = s.os.background
        /\ t.os.concealed = s.os.concealed /\ t.os.nice = s.os.nice
        /\ t.rt.changes = s.rt.changes /\ t.rt.hidden = s.rt.hidden
    BY <2>1 DEF WakeGroupBriefly, Pair, Machine, RuntimeState
  <2>. HIDE DEF t
  <2>4. Covered(t.os, t.rt, later)
    BY <2>2, <2>3, SameCovers
  <2>. QED
    BY <2>3, <2>4 DEF t
<1>5. CASE action.type = "set_priority"
  <2>. DEFINE lowered == SetPriorityGroup(s, procs, action.nice)
  <2>1. t = lowered /\ action.nice >= Background
    BY <1>5 DEF Execute, Behaved
  <2>2. Covered(lowered.os, lowered.rt, later) /\ lowered.os.alive = s.os.alive
    BY <1>1, <2>1, SetPriorityCovers
  <2>. HIDE DEF lowered, t
  <2>. QED
    BY <2>1, <2>2 DEF t
<1>6. CASE action.type = "restore_priority"
  <2>1. t = RestorePriorityGroup(s, procs)
    BY <1>6 DEF Execute
  <2>. QED
    BY <1>1, <2>1, RestorePriorityCovers
<1>7. CASE action.type \in {"hide_when_stopped", "hide"}
  <2>1. t = HideGroup(s, a, procs) \/ t = s
    BY <1>7 DEF Execute
  <2>2. Leads(a, FirstProc(procs), s.os.alive, later)
    BY <1>7 DEF Behaved
  <2>. QED
    BY <1>1, <2>1, <2>2, HideCovers
<1>8. CASE action.type = "activate"
  <2>1. t = ActivateGroup(s, a, procs)
    BY <1>8 DEF Execute
  <2>. QED
    BY <1>1, <2>1, ActivateCovers
<1>9. CASE action.type \in {"limit_cpu", "quit"}
  BY <1>9 DEF Execute
<1>. QED
  BY <1>1, <1>2, <1>3, <1>4, <1>5, <1>6, <1>7, <1>8, <1>9 DEF ActionTypes

(* Taking back: nothing new is lowered or hidden, and what the action is   *)
(* about is not any more.                                                  *)
LEMMA RestorationUndoes ==
  ASSUME NEW s \in Pair, NEW a \in Apps, NEW action \in Restorations(a), NEW later,
         Covered(s.os, s.rt, later), NoProc \notin later
  PROVE  LET t == Execute(s, action)
         IN /\ t.os.background \subseteq s.os.background
            /\ t.os.concealed \subseteq s.os.concealed
            /\ action.type = "restore_priority" =>
                 t.os.background \cap action.procs = {}
            /\ action.type = "activate" => \A p \in t.os.concealed : AppOf[p] # a
<1>. DEFINE procs == action.procs
            t == Execute(s, action)
<1>1. /\ action.app = a /\ procs \in SUBSET Procs
      /\ action.type \in {"resume", "restore_priority", "activate"}
  BY DEF Restorations, Actions
<1>2. CASE action.type = "resume"
  <2>. DEFINE resumed == ResumeGroup(s, procs)
  <2>1. resumed \in Pair
    BY <1>1, ResumeKeeps DEF Recorded
  <2>2. /\ resumed.os.alive = s.os.alive /\ resumed.os.background = s.os.background
        /\ resumed.os.concealed = s.os.concealed /\ resumed.os.nice = s.os.nice
        /\ resumed.rt.changes = s.rt.changes /\ resumed.rt.hidden = s.rt.hidden
    BY DEF ResumeGroup, Pair, Machine, RuntimeState
  <2>3. t = IF resumed.rt.hidden[a] # NoProc
            THEN ActivateGroup(resumed, a, procs) ELSE resumed
    BY <1>1, <1>2 DEF Execute
  <2>. HIDE DEF resumed, t
  <2>4. Covered(resumed.os, resumed.rt, later)
    BY <2>1, <2>2, SameCovers
  <2>5. /\ t.os.background = s.os.background
        /\ t.os.concealed \subseteq s.os.concealed
    BY <2>1, <2>2, <2>3, <2>4, ActivateCovers
  <2>. QED
    BY <1>2, <2>5 DEF t
<1>3. CASE action.type = "restore_priority"
  <2>1. t = RestorePriorityGroup(s, procs)
    BY <1>3 DEF Execute
  <2>2. /\ t.os.background = s.os.background \ procs
        /\ t.os.concealed = s.os.concealed
    BY <1>1, <2>1, RestorePriorityCovers
  <2>. HIDE DEF t
  <2>3. /\ t.os.background \subseteq s.os.background
        /\ t.os.background \cap procs = {}
    BY <2>2
  <2>. QED
    BY <1>3, <2>2, <2>3 DEF t
<1>4. CASE action.type = "activate"
  <2>1. t = ActivateGroup(s, a, procs)
    BY <1>1, <1>4 DEF Execute
  <2>. QED
    BY <1>4, <2>1, ActivateCovers
<1>. QED
  BY <1>1, <1>2, <1>3, <1>4

-----------------------------------------------------------------------------
(* The steps.                                                              *)

(* The natural numbers are well-ordered.                                   *)
Less == {ss \in Nat \X Nat : ss[1] < ss[2]}
LEMMA LessIsWellFounded == IsWellFoundedOn(Less, Nat)
BY NatLessThanWellFounded DEF OpToRel, Less

LEMMA FirstIsLeast ==
  ASSUME NEW S \in SUBSET Procs, S # {}
  PROVE  FirstProc(S) \in S /\ \A q \in S : FirstProc(S) <= q
<1>1. S \subseteq Nat
  OBVIOUS
<1>2. PICK x \in S : \A y \in S : ~(<<y, x>> \in Less)
  BY <1>1, LessIsWellFounded, WFMin
<1>3. ASSUME NEW y \in S, y < x PROVE FALSE
  <2>1. <<y, x>> \in Less
    BY <1>1, <1>3 DEF Less
  <2>. QED
    BY <1>2, <2>1
<1>4. \A y \in S : x <= y
  BY <1>1, <1>3
<1>. QED
  BY <1>4 DEF FirstProc

LEMMA LeadsStays ==
  ASSUME NEW a, NEW p, NEW alive \in SUBSET Procs, NEW later \in SUBSET Procs,
         Leads(a, p, alive, later),
         \A x \in alive, y \in later : x < y,
         NEW q \in Procs
  PROVE  /\ Leads(a, p, alive \ {q}, later)
         /\ q \in later => Leads(a, p, alive \cup {q}, later \ {q})
<1>1. alive \subseteq Nat /\ q \in Nat
  OBVIOUS
<1>2. Leads(a, p, alive \ {q}, later)
  BY DEF Leads
<1>3. ASSUME q \in later PROVE Leads(a, p, alive \cup {q}, later \ {q})
  <2>1. p # q
    BY <1>3 DEF Leads
  <2>2. \A x \in alive : x <= q
    BY <1>1, <1>3
  <2>. QED
    BY <2>1, <2>2 DEF Leads
<1>. QED
  BY <1>2, <1>3

LEMMA InitCover ==
  ASSUME PidsGrow, NormalPriorities
  PROVE  Init => CoverInv
<1>. SUFFICES ASSUME Init PROVE CoverInv
  OBVIOUS
<1>1. TypeOK /\ NoRefreshAfterQuit /\ PlanBehaves /\ UndoIsComing /\ NothingLeft
  BY InitType DEF Init, NoRefreshAfterQuit, PlanBehaves, UndoIsComing, NothingLeft,
                  IdleRefresh
<1>2. Memory = EmptyRuntime
  BY DEF Init, Memory, Held, IdleRefresh
<1>3. /\ os.alive = Born /\ os.background = {} /\ os.concealed = {}
      /\ os.nice = Niceness /\ unborn = Procs \ Born
  BY DEF Init
<1>4. BornInOrder
  BY <1>3 DEF BornInOrder, PidsGrow
<1>5. Covered(os, EmptyRuntime, unborn)
  <2>1. \A p \in Procs : EmptyRuntime.changes[p].original = 0
    BY DEF EmptyRuntime, NoChange
  <2>2. \A a \in Apps : Leads(a, EmptyRuntime.hidden[a], os.alive, unborn)
    BY <1>3 DEF EmptyRuntime, Leads
  <2>. QED
    BY <1>3, <2>1, <2>2 DEF Covered, NormalPriorities
<1>. QED
  BY <1>1, <1>2, <1>4, <1>5 DEF CoverInv

(* The steps that change neither what lives nor what is remembered.        *)
LEMMA QuietKeepsCover ==
  ASSUME CoverInv, TypeOK', NoRefreshAfterQuit', NothingLeft',
         os'.alive = os.alive, os'.background = os.background,
         os'.nice = os.nice, os'.concealed \subseteq os.concealed,
         unborn' = unborn, Memory' = Memory,
         refresh'.at = "execute" =>
           refresh.at = "execute" /\ refresh'.plan = refresh.plan,
         program' = "restoring" => program = "restoring" /\ restoring' = restoring
  PROVE  CoverInv'
<1>1. Covered(os', Memory, unborn)
  BY DEF CoverInv, Covered
<1>2. Covered(os, Memory, unborn)'
  BY <1>1
<1>3. BornInOrder' /\ PlanBehaves' /\ UndoIsComing'
  BY DEF CoverInv, BornInOrder, PlanBehaves, UndoIsComing
<1>. QED
  BY <1>2, <1>3 DEF CoverInv

LEMMA ObserveKeepsCover ==
  ASSUME NormalPriorities, CoverInv, Observe
  PROVE  CoverInv'
<1>1. TypeOK'
  BY RefreshKeepsTypes DEF CoverInv, Refresh
<1>2. PICK policy \in {"open", "block", "restore"}, audio \in BOOLEAN,
           settling \in SUBSET Apps,
           wakeDue \in SUBSET {a \in Apps : refresh.rules[a].wakes},
           overLimit \in SUBSET {a \in Apps : refresh.rules[a].mode = "limit"} :
        LET in == [management |-> refresh.management,
                   rules |-> refresh.rules,
                   groups |-> [a \in Apps |-> Group(a)],
                   front |-> FrontmostApp(refresh.rules, os.front),
                   policy |-> policy, audio |-> audio, settling |-> settling,
                   wakeDue |-> wakeDue, overLimit |-> overLimit]
            plan == Plan(refresh.runtime, in)
        IN refresh' = [refresh EXCEPT
                         !.at = "execute",
                         !.plan = plan,
                         !.requests = LimitRequests(plan, in.groups),
                         !.save = SavesImmediately(plan)]
  BY DEF Observe
<1>. DEFINE in == [management |-> refresh.management,
                   rules |-> refresh.rules,
                   groups |-> [a \in Apps |-> Group(a)],
                   front |-> FrontmostApp(refresh.rules, os.front),
                   policy |-> policy, audio |-> audio, settling |-> settling,
                   wakeDue |-> wakeDue, overLimit |-> overLimit]
            plan == Plan(refresh.runtime, in)
            requests == LimitRequests(plan, in.groups)
            save == SavesImmediately(plan)
<1>3. refresh' = [refresh EXCEPT !.at = "execute", !.plan = plan,
                                 !.requests = requests, !.save = save]
  BY <1>2
<1>4. /\ in.groups \in [Apps -> SUBSET Procs] /\ in.rules \in [Apps -> Rule]
      /\ \A a \in Apps : in.groups[a] = Group(a) /\ in.rules[a] = refresh.rules[a]
  BY NoRuleType DEF Group, CoverInv, TypeOK, Machine, RefreshState
<1>. HIDE DEF in
<1>5. \A a \in Apps :
        \/ plan[a] \in Seq(Restorations(a))
        \/ /\ Group(a) # {}
           /\ plan[a] \in Seq(ActionsFor(a, refresh.rules[a], Group(a)))
  BY <1>4, PlanLists DEF CoverInv, TypeOK, RefreshState
<1>. HIDE DEF plan, requests, save
<1>6. /\ refresh'.at = "execute" /\ refresh'.plan = plan
      /\ refresh'.runtime = refresh.runtime /\ refresh.at = "observe"
      /\ os' = os /\ unborn' = unborn /\ program' = program /\ restoring' = restoring
      /\ disk' = disk /\ limited' = limited
  BY <1>3 DEF Observe, outside, CoverInv, TypeOK, RefreshState
<1>7. ASSUME NEW a \in Apps, Group(a) # {}
      PROVE  Leads(a, FirstProc(Group(a)), os.alive, unborn)
  <2>1. Group(a) \in SUBSET Procs
    BY DEF Group, CoverInv, TypeOK, Machine
  <2>2. /\ FirstProc(Group(a)) \in Group(a)
        /\ \A q \in Group(a) : FirstProc(Group(a)) <= q
    BY <1>7, <2>1, FirstIsLeast
  <2>. QED
    BY <2>2 DEF Group, Leads, CoverInv, BornInOrder
<1>8. ASSUME NEW a \in Apps, NEW i \in DOMAIN plan[a]
      PROVE  Behaved(a, plan[a][i], os.alive, unborn)
  <2>1. CASE plan[a] \in Seq(Restorations(a))
    <3>1. plan[a][i] \in Restorations(a)
      BY <2>1
    <3>. QED
      BY <3>1 DEF Restorations, Behaved
  <2>2. CASE Group(a) # {} /\ plan[a] \in Seq(ActionsFor(a, refresh.rules[a], Group(a)))
    <3>1. plan[a][i] \in ActionsFor(a, refresh.rules[a], Group(a))
      BY <2>2
    <3>2. refresh.rules[a].mode = "priority" => refresh.rules[a].nice >= Background
      BY DEF CoverInv, TypeOK, RefreshState, NormalPriorities, NoRule
    <3>. QED
      BY <1>7, <2>2, <3>1, <3>2 DEF ActionsFor, Behaved
  <2>. QED
    BY <1>5, <2>1, <2>2
<1>9. PlanBehaves'
  BY <1>6, <1>8 DEF PlanBehaves
<1>10. Memory' = Memory
  BY <1>6 DEF Memory, Held
<1>. QED
  BY <1>1, <1>6, <1>9, <1>10
     DEF CoverInv, NoRefreshAfterQuit, BornInOrder, UndoIsComing, NothingLeft

LEMMA ExecuteKeepsCover ==
  ASSUME CoverInv, NEW a \in Apps, ExecuteAction(a)
  PROVE  CoverInv'
<1>. DEFINE s == [os |-> os, rt |-> refresh.runtime]
            list == refresh.plan[a]
            head == Head(list)
            after == Execute(s, head)
<1>1. TypeOK'
  BY RefreshKeepsTypes DEF CoverInv, Refresh
<1>2. /\ refresh.at = "execute" /\ list # <<>>
      /\ os' = after.os
      /\ refresh' = [refresh EXCEPT !.runtime = after.rt, !.plan[a] = Tail(@)]
      /\ program' = program /\ restoring' = restoring /\ limited' = limited
      /\ disk' = disk /\ unborn' = unborn
  BY DEF ExecuteAction
<1>3. program = "on"
  BY <1>2 DEF CoverInv, NoRefreshAfterQuit
<1>4. s \in Pair /\ s.os = os /\ s.rt = refresh.runtime
  BY DEF Pair, CoverInv, TypeOK, RefreshState
<1>5. refresh.plan \in [Apps -> Seq(Actions)] /\ list \in Seq(Actions)
  BY DEF CoverInv, TypeOK, RefreshState, Plans
<1>6. /\ head \in Actions /\ head = list[1] /\ 1 \in DOMAIN list
      /\ \A i \in DOMAIN Tail(list) : /\ i + 1 \in DOMAIN list
                                      /\ Tail(list)[i] = list[i + 1]
  BY <1>2, <1>5
<1>7. Behaved(head.app, head, os.alive, unborn)
  BY <1>2, <1>6 DEF CoverInv, PlanBehaves, Behaved
<1>8. Covered(os, refresh.runtime, unborn) /\ NoProc \notin unborn
  BY <1>2, <1>3 DEF CoverInv, Memory, Held, TypeOK
<1>9. Covered(after.os, after.rt, unborn) /\ after.os.alive = os.alive
  BY <1>4, <1>6, <1>7, <1>8, ExecuteCovers
<1>. HIDE DEF s, after, head
<1>10. /\ refresh'.at = "execute" /\ refresh'.runtime = after.rt
       /\ refresh'.plan = [refresh.plan EXCEPT ![a] = Tail(list)]
  BY <1>2 DEF CoverInv, TypeOK, RefreshState
<1>11. \A b \in Apps : refresh'.plan[b] = IF b = a THEN Tail(list) ELSE refresh.plan[b]
  BY <1>5, <1>10
<1>12. \A i \in DOMAIN Tail(list) : Behaved(a, Tail(list)[i], os.alive, unborn)
  BY <1>2, <1>6 DEF CoverInv, PlanBehaves
<1>. HIDE DEF list
<1>13. PlanBehaves'
  <2>1. \A b \in Apps : \A i \in DOMAIN refresh.plan[b] :
          Behaved(b, refresh.plan[b][i], os.alive, unborn)
    BY <1>2 DEF CoverInv, PlanBehaves
  <2>2. \A b \in Apps : \A i \in DOMAIN refresh'.plan[b] :
          Behaved(b, refresh'.plan[b][i], os.alive, unborn)
    BY <1>11, <1>12, <2>1
  <2>3. os'.alive = os.alive /\ unborn' = unborn
    BY <1>2, <1>9
  <2>. QED
    BY <2>2, <2>3 DEF PlanBehaves
<1>14. Covered(os, Memory, unborn)'
  BY <1>2, <1>3, <1>9, <1>10 DEF Memory, Held
<1>15. BornInOrder'
  BY <1>2, <1>9 DEF CoverInv, BornInOrder
<1>. QED
  BY <1>1, <1>2, <1>3, <1>13, <1>14, <1>15
     DEF CoverInv, NoRefreshAfterQuit, UndoIsComing, NothingLeft

LEMMA RefreshKeepsCover ==
  ASSUME ~QuitOverlaps, NormalPriorities, CoverInv, Refresh
  PROVE  CoverInv'
<1>1. TypeOK'
  BY RefreshKeepsTypes DEF CoverInv
<1>2. program = "on" /\ program' = "on"
  BY DEF Refresh, BeginRefresh, Observe, ExecuteAction, UpdateLimiter, Commit,
         CoverInv, NoRefreshAfterQuit, TypeOK
<1>3. NoRefreshAfterQuit' /\ NothingLeft'
  BY <1>2 DEF NoRefreshAfterQuit, NothingLeft
<1>4. CASE BeginRefresh
  <2>1. /\ refresh'.at = "observe" /\ refresh'.runtime = runtime
        /\ refresh.at = "idle" /\ os' = os /\ unborn' = unborn
    BY <1>4 DEF BeginRefresh, outside, CoverInv, TypeOK, RefreshState
  <2>2. Memory' = Memory
    BY <1>2, <2>1 DEF Memory, Held
  <2>. QED
    BY <1>1, <1>2, <1>3, <2>1, <2>2, QuietKeepsCover
<1>5. CASE Observe
  BY <1>5, ObserveKeepsCover
<1>6. ASSUME NEW a \in Apps, ExecuteAction(a) PROVE CoverInv'
  BY <1>6, ExecuteKeepsCover
<1>7. CASE UpdateLimiter
  <2>1. /\ refresh.at = "execute" /\ refresh'.at = "commit"
        /\ refresh'.runtime = refresh.runtime /\ unborn' = unborn
        /\ os'.alive = os.alive /\ os'.background = os.background
        /\ os'.nice = os.nice /\ os'.concealed = os.concealed
    BY <1>7 DEF UpdateLimiter, CoverInv, TypeOK, RefreshState, Machine
  <2>2. Memory' = Memory
    BY <1>2, <2>1 DEF Memory, Held
  <2>. QED
    BY <1>1, <1>2, <1>3, <2>1, <2>2, QuietKeepsCover
<1>8. CASE Commit
  <2>1. /\ refresh.at = "commit" /\ refresh'.at = "idle"
        /\ runtime' = refresh.runtime /\ os' = os /\ unborn' = unborn
    BY <1>8 DEF Commit, IdleRefresh
  <2>2. Memory' = Memory
    BY <1>2, <2>1 DEF Memory, Held
  <2>. QED
    BY <1>1, <1>2, <1>3, <2>1, <2>2, QuietKeepsCover
<1>. QED
  BY <1>4, <1>5, <1>6, <1>7, <1>8 DEF Refresh

(* What shutdown has to do: it takes back whatever is recorded.            *)
LEMMA RestoreAllUndoes ==
  ASSUME NEW rt \in RuntimeState, NEW a \in Apps
  PROVE  /\ RestoreAll(a, rt) \in Seq(Restorations(a))
         /\ \A p \in Changed(rt) : AppOf[p] = a =>
              \E i \in DOMAIN RestoreAll(a, rt) :
                /\ RestoreAll(a, rt)[i].type = "restore_priority"
                /\ p \in RestoreAll(a, rt)[i].procs
         /\ rt.hidden[a] # NoProc =>
              \E i \in DOMAIN RestoreAll(a, rt) :
                RestoreAll(a, rt)[i].type = "activate"
<1>. DEFINE group == {p \in Procs : AppOf[p] = a}
            first == RestorePauses(a, group, rt)
            second == RestorePriority(a, group, rt)
            third == RestoreHidden(a, rt)
<1>1. group \in SUBSET Procs
  OBVIOUS
<1>2. /\ first \in Seq(Actions) /\ second \in Seq(Actions) /\ third \in Seq(Actions)
      /\ RestoreAll(a, rt) \in Seq(Restorations(a))
      /\ RestoreAll(a, rt) = (first \o second) \o third
  <2>1. RestoreGroup(a, group, rt) \in Seq(Restorations(a))
    BY <1>1, RestoreLists
  <2>2. first \in Seq(Actions) /\ second \in Seq(Actions) /\ third \in Seq(Actions)
    BY <1>1, RestoreTypes
  <2>. QED
    BY <2>1, <2>2 DEF RestoreAll, RestoreGroup
<1>3. \A p \in Changed(rt) : AppOf[p] = a =>
        /\ 1 \in DOMAIN second
        /\ second[1].type = "restore_priority" /\ p \in second[1].procs
  BY DEF RestorePriority, If, Action, Changed
<1>4. rt.hidden[a] # NoProc => 1 \in DOMAIN third /\ third[1].type = "activate"
  BY DEF RestoreHidden, If, Action
<1>. HIDE DEF first, second, third
<1>5. /\ first \o second \in Seq(Actions)
      /\ \A j \in DOMAIN second : /\ j + Len(first) \in DOMAIN (first \o second)
                                  /\ (first \o second)[j + Len(first)] = second[j]
  BY <1>2, Parts
<1>6. /\ \A i \in DOMAIN (first \o second) :
           /\ i \in DOMAIN RestoreAll(a, rt)
           /\ RestoreAll(a, rt)[i] = (first \o second)[i]
      /\ \A j \in DOMAIN third : \E i \in DOMAIN RestoreAll(a, rt) :
           RestoreAll(a, rt)[i] = third[j]
  <2>. DEFINE both == first \o second
  <2>1. both \in Seq(Actions)
    BY <1>5
  <2>. HIDE DEF both
  <2>2. /\ \A i \in DOMAIN both : /\ i \in DOMAIN (both \o third)
                                 /\ (both \o third)[i] = both[i]
        /\ \A j \in DOMAIN third : /\ j + Len(both) \in DOMAIN (both \o third)
                                  /\ (both \o third)[j + Len(both)] = third[j]
    BY <1>2, <2>1, Parts
  <2>3. RestoreAll(a, rt) = both \o third
    BY <1>2 DEF both
  <2>. QED
    BY <2>2, <2>3 DEF both
<1>7. ASSUME NEW p \in Changed(rt), AppOf[p] = a
      PROVE  \E i \in DOMAIN RestoreAll(a, rt) :
               /\ RestoreAll(a, rt)[i].type = "restore_priority"
               /\ p \in RestoreAll(a, rt)[i].procs
  BY <1>3, <1>5, <1>6, <1>7
<1>8. ASSUME rt.hidden[a] # NoProc
      PROVE  \E i \in DOMAIN RestoreAll(a, rt) :
               RestoreAll(a, rt)[i].type = "activate"
  BY <1>4, <1>6, <1>8
<1>. QED
  BY <1>2, <1>7, <1>8

LEMMA ShutdownKeepsCover ==
  ASSUME ~QuitOverlaps, CoverInv, Shutdown
  PROVE  CoverInv'
<1>1. TypeOK'
  BY StepKeepsTypes DEF CoverInv, Next, User
<1>2. /\ program = "on" /\ program' = "restoring" /\ refresh.at = "idle"
      /\ limited' = Nothing /\ runtime' = runtime /\ refresh' = refresh
      /\ unborn' = unborn /\ disk' = disk
      /\ \A a \in Apps : restoring'[a] = RestoreAll(a, runtime)
  BY DEF Shutdown
<1>3. /\ os'.alive = os.alive /\ os'.background = os.background
      /\ os'.nice = os.nice /\ os'.concealed = os.concealed
  BY DEF Shutdown, CoverInv, TypeOK, Machine
<1>4. Memory' = Memory /\ Memory = runtime
  BY <1>2 DEF Memory, Held
<1>5. Covered(os, Memory, unborn)'
  BY <1>2, <1>3, <1>4 DEF CoverInv, Covered
<1>6. runtime \in RuntimeState /\ os.background \subseteq Procs
      /\ os.concealed \subseteq Procs
  BY DEF CoverInv, TypeOK, Machine
<1>7. ASSUME NEW p \in os.background
      PROVE  \E i \in DOMAIN RestoreAll(AppOf[p], runtime) :
               /\ RestoreAll(AppOf[p], runtime)[i].type = "restore_priority"
               /\ p \in RestoreAll(AppOf[p], runtime)[i].procs
  <2>. DEFINE a == AppOf[p]
  <2>1. p \in Changed(runtime) /\ a \in Apps /\ AppOf[p] = a
    BY <1>4, <1>6 DEF CoverInv, Covered
  <2>. QED
    BY <1>6, <2>1, RestoreAllUndoes
<1>8. ASSUME NEW p \in os.concealed
      PROVE  \E i \in DOMAIN RestoreAll(AppOf[p], runtime) :
               RestoreAll(AppOf[p], runtime)[i].type = "activate"
  <2>1. PICK a \in Apps : p = runtime.hidden[a] /\ p \in os.alive
    BY <1>4 DEF CoverInv, Covered
  <2>2. AppOf[p] = a /\ runtime.hidden[a] # NoProc
    BY <1>4, <1>6, <2>1 DEF CoverInv, Covered, Leads
  <2>. QED
    BY <1>6, <2>1, <2>2, RestoreAllUndoes
<1>9. UndoIsComing'
  <2>1. \A a \in Apps : restoring'[a] \in Seq(Restorations(a))
    BY <1>2, <1>6, RestoreAllUndoes
  <2>2. \A p \in os.background \cup os.concealed :
          restoring'[AppOf[p]] = RestoreAll(AppOf[p], runtime)
    BY <1>2, <1>6
  <2>. QED
    BY <1>3, <1>7, <1>8, <2>1, <2>2 DEF UndoIsComing
<1>. QED
  BY <1>1, <1>2, <1>3, <1>5, <1>9
     DEF CoverInv, NoRefreshAfterQuit, BornInOrder, PlanBehaves, NothingLeft

LEMMA RestoreKeepsCover ==
  ASSUME CoverInv, NEW a \in Apps, RestoreAction(a)
  PROVE  CoverInv'
<1>. DEFINE s == [os |-> os, rt |-> runtime]
            list == restoring[a]
            head == Head(list)
            after == Execute(s, head)
<1>1. TypeOK'
  BY RestoreKeepsTypes DEF CoverInv
<1>2. /\ program = "restoring" /\ program' = program /\ list # <<>>
      /\ restoring' = [restoring EXCEPT ![a] = Tail(@)]
      /\ os' = after.os /\ runtime' = after.rt
      /\ refresh' = refresh /\ limited' = limited /\ disk' = disk
      /\ unborn' = unborn
  BY DEF RestoreAction
<1>3. refresh.at = "idle" /\ limited = Nothing
  BY <1>2 DEF CoverInv, NoRefreshAfterQuit
<1>4. s \in Pair /\ s.os = os /\ s.rt = runtime
  BY DEF Pair, CoverInv, TypeOK
<1>5. restoring \in [Apps -> Seq(Actions)] /\ list \in Seq(Restorations(a))
  BY <1>2 DEF CoverInv, TypeOK, Plans, UndoIsComing
<1>6. /\ head \in Restorations(a) /\ head = list[1] /\ 1 \in DOMAIN list
      /\ Tail(list) \in Seq(Restorations(a))
      /\ \A i \in DOMAIN list : i # 1 => /\ i - 1 \in DOMAIN Tail(list)
                                         /\ Tail(list)[i - 1] = list[i]
  BY <1>2, <1>5
<1>7. Covered(os, runtime, unborn) /\ NoProc \notin unborn
  BY <1>2, <1>3 DEF CoverInv, Memory, Held, TypeOK
<1>8. Covered(after.os, after.rt, unborn) /\ after.os.alive = os.alive
  <2>1. Behaved(head.app, head, os.alive, unborn) /\ head \in Actions
    BY <1>6 DEF Restorations, Behaved
  <2>. QED
    BY <1>4, <1>7, <2>1, ExecuteCovers
<1>9. /\ after.os.background \subseteq os.background
      /\ after.os.concealed \subseteq os.concealed
      /\ head.type = "restore_priority" => after.os.background \cap head.procs = {}
      /\ head.type = "activate" => \A p \in after.os.concealed : AppOf[p] # a
  BY <1>4, <1>6, <1>7, RestorationUndoes
<1>. HIDE DEF s, after, head
<1>10. \A b \in Apps : restoring'[b] = IF b = a THEN Tail(list) ELSE restoring[b]
  BY <1>2, <1>5
<1>11. os.background \subseteq Procs /\ os.concealed \subseteq Procs
  BY DEF CoverInv, TypeOK, Machine
<1>12. ASSUME NEW p \in os'.background
       PROVE  \E i \in DOMAIN restoring'[AppOf[p]] :
                /\ restoring'[AppOf[p]][i].type = "restore_priority"
                /\ p \in restoring'[AppOf[p]][i].procs
  <2>1. p \in os.background /\ AppOf[p] \in Apps
    BY <1>2, <1>9, <1>11
  <2>2. PICK i \in DOMAIN restoring[AppOf[p]] :
          /\ restoring[AppOf[p]][i].type = "restore_priority"
          /\ p \in restoring[AppOf[p]][i].procs
    BY <1>2, <2>1 DEF CoverInv, UndoIsComing
  <2>3. CASE AppOf[p] = a
    <3>1. i # 1 /\ i \in DOMAIN list /\ list[i] = restoring[AppOf[p]][i]
      BY <1>2, <1>6, <1>9, <2>2, <2>3
    <3>2. /\ i - 1 \in DOMAIN Tail(list)
          /\ Tail(list)[i - 1] = restoring[AppOf[p]][i]
      BY <1>6, <3>1
    <3>3. restoring'[AppOf[p]] = Tail(list)
      BY <1>10, <2>1, <2>3
    <3>. HIDE DEF list
    <3>. QED
      BY <2>2, <3>2, <3>3
  <2>4. CASE AppOf[p] # a
    BY <1>10, <2>1, <2>2, <2>4
  <2>. QED
    BY <2>3, <2>4
<1>13. ASSUME NEW p \in os'.concealed
       PROVE  \E i \in DOMAIN restoring'[AppOf[p]] :
                restoring'[AppOf[p]][i].type = "activate"
  <2>1. p \in os.concealed /\ AppOf[p] \in Apps
    BY <1>2, <1>9, <1>11
  <2>2. PICK i \in DOMAIN restoring[AppOf[p]] :
          restoring[AppOf[p]][i].type = "activate"
    BY <1>2, <2>1 DEF CoverInv, UndoIsComing
  <2>3. CASE AppOf[p] = a
    <3>1. i # 1 /\ i \in DOMAIN list /\ list[i] = restoring[AppOf[p]][i]
      BY <1>2, <1>6, <1>9, <2>2, <2>3
    <3>2. /\ i - 1 \in DOMAIN Tail(list)
          /\ Tail(list)[i - 1] = restoring[AppOf[p]][i]
      BY <1>6, <3>1
    <3>3. restoring'[AppOf[p]] = Tail(list)
      BY <1>10, <2>1, <2>3
    <3>. HIDE DEF list
    <3>. QED
      BY <2>2, <3>2, <3>3
  <2>4. CASE AppOf[p] # a
    BY <1>10, <2>1, <2>2, <2>4
  <2>. QED
    BY <2>3, <2>4
<1>14. \A b \in Apps : restoring'[b] \in Seq(Restorations(b))
  BY <1>2, <1>6, <1>10 DEF CoverInv, UndoIsComing
<1>15. UndoIsComing'
  BY <1>12, <1>13, <1>14 DEF UndoIsComing
<1>16. Covered(os, Memory, unborn)'
  BY <1>2, <1>3, <1>8 DEF Memory, Held
<1>17. BornInOrder'
  BY <1>2, <1>8 DEF CoverInv, BornInOrder
<1>. QED
  BY <1>1, <1>2, <1>3, <1>15, <1>16, <1>17
     DEF CoverInv, NoRefreshAfterQuit, PlanBehaves, NothingLeft

LEMMA SpawnKeepsCover ==
  ASSUME CoverInv, NEW p \in Procs, Spawn(p)
  PROVE  CoverInv'
<1>1. TypeOK'
  BY StepKeepsTypes DEF CoverInv, Next
<1>2. /\ p \in unborn /\ unborn' = unborn \ {p}
      /\ os'.alive = os.alive \cup {p} /\ os'.background = os.background
      /\ os'.nice = os.nice /\ os'.concealed = os.concealed
      /\ UNCHANGED <<program, runtime, refresh, limited, restoring, disk>>
  BY DEF Spawn, CoverInv, TypeOK, Machine
<1>3. \A q \in unborn : p <= q
  <2>1. p = FirstProc(unborn) /\ unborn \in SUBSET Procs /\ unborn # {}
    BY <1>2 DEF Spawn, CoverInv, TypeOK
  <2>. QED
    BY <2>1, FirstIsLeast
<1>4. os.alive \in SUBSET Procs /\ unborn \in SUBSET Procs
  BY DEF CoverInv, TypeOK, Machine
<1>5. BornInOrder'
  <2>1. \A q \in unborn \ {p} : p < q
    <3>1. \A q \in unborn : q \in Nat /\ p \in Nat
      BY <1>4
    <3>. QED
      BY <1>3, <3>1
  <2>. QED
    BY <1>2, <2>1 DEF CoverInv, BornInOrder
<1>6. \A a, q : Leads(a, q, os.alive, unborn) => Leads(a, q, os'.alive, unborn')
  <2>1. SUFFICES ASSUME NEW a, NEW q, Leads(a, q, os.alive, unborn)
                 PROVE  Leads(a, q, os'.alive, unborn')
    OBVIOUS
  <2>2. \A x \in os.alive, y \in unborn : x < y
    BY DEF CoverInv, BornInOrder
  <2>3. Leads(a, q, os.alive \cup {p}, unborn \ {p})
    BY <1>2, <1>4, <2>1, <2>2, LeadsStays
  <2>4. os'.alive = os.alive \cup {p} /\ unborn' = unborn \ {p}
    BY <1>2
  <2>. QED
    BY <2>3, <2>4
<1>7. Memory' = Memory
  BY <1>2 DEF Memory, Held
<1>8. Covered(os, Memory, unborn)'
  <2>1. Covered(os, Memory, unborn)
    BY DEF CoverInv
  <2>2. /\ os'.background \subseteq os'.alive \cap Changed(Memory')
        /\ os'.concealed \subseteq os'.alive \cap {Memory'.hidden[a] : a \in Apps}
        /\ \A q \in Procs : os'.nice[q] = 0 /\ Memory'.changes[q].original = 0
    BY <1>2, <1>7, <2>1 DEF Covered
  <2>3. \A a \in Apps : Leads(a, Memory'.hidden[a], os'.alive, unborn')
    BY <1>6, <1>7, <2>1 DEF Covered
  <2>. QED
    BY <2>2, <2>3 DEF Covered
<1>9. PlanBehaves'
  BY <1>2, <1>6 DEF CoverInv, PlanBehaves, Behaved
<1>. QED
  BY <1>1, <1>2, <1>5, <1>8, <1>9
     DEF CoverInv, NoRefreshAfterQuit, UndoIsComing, NothingLeft

LEMMA ExitKeepsCover ==
  ASSUME CoverInv, NEW p \in Procs, Exit(p)
  PROVE  CoverInv'
<1>1. TypeOK'
  BY StepKeepsTypes DEF CoverInv, Next
<1>2. /\ unborn' = unborn
      /\ os'.alive = os.alive \ {p} /\ os'.background = os.background \ {p}
      /\ os'.nice = os.nice /\ os'.concealed = os.concealed \ {p}
      /\ UNCHANGED <<program, runtime, refresh, limited, restoring, disk>>
  BY DEF Exit, CoverInv, TypeOK, Machine
<1>3. os.alive \in SUBSET Procs /\ unborn \in SUBSET Procs
  BY DEF CoverInv, TypeOK, Machine
<1>4. \A a, q : Leads(a, q, os.alive, unborn) => Leads(a, q, os'.alive, unborn')
  <2>1. SUFFICES ASSUME NEW a, NEW q, Leads(a, q, os.alive, unborn)
                 PROVE  Leads(a, q, os'.alive, unborn')
    OBVIOUS
  <2>2. \A x \in os.alive, y \in unborn : x < y
    BY DEF CoverInv, BornInOrder
  <2>3. Leads(a, q, os.alive \ {p}, unborn)
    BY <1>2, <1>3, <2>1, <2>2, LeadsStays
  <2>4. os'.alive = os.alive \ {p} /\ unborn' = unborn
    BY <1>2
  <2>. QED
    BY <2>3, <2>4
<1>5. Memory' = Memory
  BY <1>2 DEF Memory, Held
<1>6. Covered(os, Memory, unborn)'
  BY <1>2, <1>4, <1>5 DEF CoverInv, Covered
<1>7. PlanBehaves'
  BY <1>2, <1>4 DEF CoverInv, PlanBehaves, Behaved
<1>8. BornInOrder' /\ UndoIsComing' /\ NothingLeft'
  BY <1>2 DEF CoverInv, BornInOrder, UndoIsComing, NothingLeft
<1>. QED
  BY <1>1, <1>2, <1>6, <1>7, <1>8 DEF CoverInv, NoRefreshAfterQuit

(* A file that has been saved once, or never, stays harmless while         *)
(* processes start and exit.                                               *)
LEMMA InitHarmless == Init => FileIsHarmless
<1>. SUFFICES ASSUME Init PROVE FileIsHarmless
  OBVIOUS
<1>1. disk = EmptyRuntime /\ os.alive = Born /\ unborn = Procs \ Born
  BY DEF Init
<1>2. \A p \in Procs : EmptyRuntime.changes[p].original = 0
  BY DEF EmptyRuntime, NoChange
<1>3. \A a \in Apps : Leads(a, EmptyRuntime.hidden[a], os.alive, unborn)
  BY <1>1 DEF EmptyRuntime, Leads
<1>. QED
  BY <1>1, <1>2, <1>3 DEF FileIsHarmless, Harmless

(* Reading a file, or writing what covers the machine, keeps it so.        *)
LEMMA SaveIsHarmless ==
  ASSUME CoverInv, FileIsHarmless, os'.alive = os.alive, unborn' = unborn,
         disk' \in {disk, Memory}
  PROVE  FileIsHarmless'
<1>1. Harmless(Memory, os.alive, unborn)
  BY DEF CoverInv, Covered, Harmless
<1>2. Harmless(disk', os.alive, unborn)
  BY <1>1 DEF FileIsHarmless
<1>3. FileIsHarmless' = Harmless(disk', os'.alive, unborn')
  BY DEF FileIsHarmless, Harmless, Leads
<1>. QED
  BY <1>2, <1>3

LEMMA StepKeepsHarmless ==
  ASSUME ~Crashes, ~QuitOverlaps
  PROVE  CoverInv /\ FileIsHarmless /\ [Next]_vars => FileIsHarmless'
<1>. SUFFICES ASSUME CoverInv, FileIsHarmless, [Next]_vars PROVE FileIsHarmless'
  OBVIOUS
<1>1. ASSUME os' = os, unborn' = unborn, disk' = disk PROVE FileIsHarmless'
  BY <1>1, SaveIsHarmless
<1>2. CASE BeginRefresh \/ Observe
  BY <1>1, <1>2 DEF BeginRefresh, Observe, outside
<1>3. ASSUME NEW a \in Apps, ExecuteAction(a) PROVE FileIsHarmless'
  <2>. DEFINE s == [os |-> os, rt |-> refresh.runtime]
              list == refresh.plan[a]
              after == Execute(s, Head(list))
  <2>1. /\ refresh.at = "execute" /\ list # <<>> /\ os' = after.os
        /\ unborn' = unborn /\ disk' = disk
    BY <1>3 DEF ExecuteAction
  <2>2. list \in Seq(Actions) /\ s \in Pair
    BY DEF CoverInv, TypeOK, RefreshState, Plans, Pair
  <2>3. /\ Head(list) \in Actions /\ Head(list) = list[1] /\ 1 \in DOMAIN list
    BY <2>1, <2>2
  <2>4. Behaved(Head(list).app, Head(list), os.alive, unborn)
    BY <2>1, <2>3 DEF CoverInv, PlanBehaves, Behaved
  <2>5. Covered(os, refresh.runtime, unborn) /\ NoProc \notin unborn
    BY <2>1 DEF CoverInv, NoRefreshAfterQuit, Memory, Held, TypeOK
  <2>6. after.os.alive = os.alive
    BY <2>2, <2>3, <2>4, <2>5, ExecuteCovers
  <2>. QED
    BY <2>1, <2>6, SaveIsHarmless
<1>4. CASE UpdateLimiter
  <2>1. os'.alive = os.alive /\ unborn' = unborn /\ disk' = disk
    BY <1>4 DEF UpdateLimiter, CoverInv, TypeOK, Machine
  <2>. QED
    BY <2>1, SaveIsHarmless
<1>5. CASE Commit
  <2>1. /\ refresh.at = "commit" /\ os' = os /\ unborn' = unborn
        /\ disk' \in {disk, refresh.runtime}
    BY <1>5 DEF Commit, SaveRuntime
  <2>2. Memory = refresh.runtime
    BY <2>1 DEF Memory, Held, CoverInv, NoRefreshAfterQuit
  <2>. QED
    BY <2>1, <2>2, SaveIsHarmless
<1>6. CASE ToggleManagement \/ Start \/ End
  BY <1>1, <1>6 DEF ToggleManagement, Start, End, outside
<1>7. ASSUME NEW a \in Apps, NEW rule \in RuleChoices \cup {NoRule}, SetRule(a, rule)
      PROVE  FileIsHarmless'
  BY <1>1, <1>7 DEF SetRule, outside
<1>8. ASSUME NEW a \in Apps \cup {NoApp}, SwitchTo(a) PROVE FileIsHarmless'
  <2>1. os'.alive = os.alive /\ unborn' = unborn /\ disk' = disk
    BY <1>8 DEF SwitchTo, CoverInv, TypeOK, Machine
  <2>. QED
    BY <2>1, SaveIsHarmless
<1>9. CASE Shutdown
  <2>1. os'.alive = os.alive /\ unborn' = unborn /\ disk' = disk
    BY <1>9 DEF Shutdown, CoverInv, TypeOK, Machine
  <2>. QED
    BY <2>1, SaveIsHarmless
<1>10. ASSUME NEW a \in Apps, RestoreAction(a) PROVE FileIsHarmless'
  <2>. DEFINE s == [os |-> os, rt |-> runtime]
              list == restoring[a]
              after == Execute(s, Head(list))
  <2>1. /\ program = "restoring" /\ list # <<>> /\ os' = after.os
        /\ unborn' = unborn /\ disk' = disk
    BY <1>10 DEF RestoreAction
  <2>2. list \in Seq(Restorations(a)) /\ s \in Pair
    BY <2>1 DEF CoverInv, TypeOK, UndoIsComing, Pair
  <2>3. Head(list) \in Restorations(a)
    BY <2>1, <2>2
  <2>4. /\ Head(list) \in Actions
        /\ Behaved(Head(list).app, Head(list), os.alive, unborn)
    BY <2>3 DEF Restorations, Behaved
  <2>5. Covered(os, runtime, unborn) /\ NoProc \notin unborn
    BY <2>1 DEF CoverInv, NoRefreshAfterQuit, Memory, Held, TypeOK
  <2>6. after.os.alive = os.alive
    BY <2>2, <2>4, <2>5, ExecuteCovers
  <2>. QED
    BY <2>1, <2>6, SaveIsHarmless
<1>11. CASE SaveAndQuit
  <2>1. /\ program = "restoring" /\ os' = os /\ unborn' = unborn
        /\ disk' \in {disk, runtime}
    BY <1>11 DEF SaveAndQuit, SaveRuntime
  <2>2. Memory = runtime
    BY <2>1 DEF Memory, Held, CoverInv, NoRefreshAfterQuit
  <2>. QED
    BY <2>1, <2>2, SaveIsHarmless
<1>12. ASSUME NEW p \in Procs, LimiterStop(p) \/ LimiterContinue(p)
       PROVE  FileIsHarmless'
  <2>1. os'.alive = os.alive /\ unborn' = unborn /\ disk' = disk
    BY <1>12 DEF LimiterStop, LimiterContinue, CoverInv, TypeOK, Machine
  <2>. QED
    BY <2>1, SaveIsHarmless
<1>13. ASSUME NEW p \in Procs, Spawn(p) \/ Exit(p) PROVE FileIsHarmless'
  <2>1. /\ os.alive \in SUBSET Procs /\ unborn \in SUBSET Procs
        /\ \A x \in os.alive, y \in unborn : x < y
    BY DEF CoverInv, TypeOK, Machine, BornInOrder
  <2>2. /\ disk' = disk
        /\ \/ /\ p \in unborn /\ os'.alive = os.alive \cup {p}
              /\ unborn' = unborn \ {p}
           \/ os'.alive = os.alive \ {p} /\ unborn' = unborn
    BY <1>13 DEF Spawn, Exit, CoverInv, TypeOK, Machine
  <2>3. \A a, q : Leads(a, q, os.alive, unborn) => Leads(a, q, os'.alive, unborn')
    <3>1. SUFFICES ASSUME NEW a, NEW q, Leads(a, q, os.alive, unborn)
                   PROVE  Leads(a, q, os'.alive, unborn')
      OBVIOUS
    <3>2. /\ Leads(a, q, os.alive \ {p}, unborn)
          /\ p \in unborn => Leads(a, q, os.alive \cup {p}, unborn \ {p})
      BY <2>1, <3>1, LeadsStays
    <3>. QED
      BY <2>2, <3>2
  <2>4. \A a \in Apps : Leads(a, disk'.hidden[a], os'.alive, unborn')
    BY <2>2, <2>3 DEF FileIsHarmless, Harmless
  <2>5. \A q \in Procs : disk'.changes[q].original = 0
    BY <2>2 DEF FileIsHarmless, Harmless
  <2>. QED
    BY <2>4, <2>5 DEF FileIsHarmless, Harmless
<1>14. CASE UNCHANGED vars
  BY <1>1, <1>14 DEF vars
<1>. QED
  BY <1>2, <1>3, <1>4, <1>5, <1>6, <1>7, <1>8, <1>9, <1>10, <1>11, <1>12, <1>13,
     <1>14 DEF Next, User, Refresh

LEMMA StepKeepsCover ==
  ASSUME ~Crashes, ~QuitOverlaps, NormalPriorities
  PROVE  CoverInv /\ FileIsHarmless /\ [Next]_vars => CoverInv'
<1>. SUFFICES ASSUME CoverInv, FileIsHarmless, [Next]_vars PROVE CoverInv'
  OBVIOUS
<1>1. TypeOK'
  BY StepKeepsTypes DEF CoverInv
<1>2. CASE Refresh
  BY <1>2, RefreshKeepsCover
<1>3. ASSUME UNCHANGED <<program, runtime, refresh, limited, restoring, disk, unborn>>,
             os'.alive = os.alive, os'.background = os.background,
             os'.nice = os.nice, os'.concealed \subseteq os.concealed
      PROVE  CoverInv'
  <2>1. Memory' = Memory
    BY <1>3 DEF Memory, Held
  <2>2. NoRefreshAfterQuit' /\ NothingLeft'
    BY <1>3 DEF CoverInv, NoRefreshAfterQuit, NothingLeft
  <2>. QED
    BY <1>1, <1>3, <2>1, <2>2, QuietKeepsCover
<1>4. CASE ToggleManagement
  BY <1>3, <1>4 DEF ToggleManagement, outside
<1>5. ASSUME NEW a \in Apps, NEW rule \in RuleChoices \cup {NoRule}, SetRule(a, rule)
      PROVE  CoverInv'
  BY <1>3, <1>5 DEF SetRule, outside
<1>6. ASSUME NEW a \in Apps \cup {NoApp}, SwitchTo(a) PROVE CoverInv'
  <2>1. /\ os'.alive = os.alive /\ os'.background = os.background
        /\ os'.nice = os.nice /\ os'.concealed = os.concealed \ Group(a)
    BY <1>6 DEF SwitchTo, CoverInv, TypeOK, Machine
  <2>2. os'.concealed \subseteq os.concealed
    BY <2>1
  <2>. QED
    BY <1>3, <1>6, <2>1, <2>2 DEF SwitchTo
<1>7. CASE Shutdown
  BY <1>7, ShutdownKeepsCover
<1>8. CASE Start
  <2>1. /\ program = "off" /\ program' = "on" /\ runtime' = disk /\ os' = os
        /\ UNCHANGED <<refresh, limited, restoring, unborn>>
    BY <1>8 DEF Start, outside
  <2>2. refresh.at = "idle"
    BY <2>1 DEF CoverInv, NoRefreshAfterQuit
  <2>3. Memory' = Memory
    BY <2>1, <2>2 DEF Memory, Held
  <2>4. NoRefreshAfterQuit' /\ NothingLeft'
    BY <2>1 DEF NoRefreshAfterQuit, NothingLeft
  <2>. QED
    BY <1>1, <2>1, <2>3, <2>4, QuietKeepsCover
<1>9. ASSUME NEW a \in Apps, RestoreAction(a) PROVE CoverInv'
  BY <1>9, RestoreKeepsCover
<1>10. CASE SaveAndQuit
  <2>1. /\ program = "restoring" /\ program' = "quitting"
        /\ disk' = runtime \/ disk' = disk
        /\ restoring = NoPlan /\ os' = os
        /\ UNCHANGED <<refresh, limited, unborn>>
    BY <1>10 DEF SaveAndQuit, SaveRuntime
  <2>2. refresh.at = "idle" /\ limited = Nothing
    BY <2>1 DEF CoverInv, NoRefreshAfterQuit
  <2>3. Memory' = disk' /\ Memory = runtime
    BY <2>1, <2>2 DEF Memory, Held
  <2>4. os.background = {} /\ os.concealed = {}
    <3>1. \A p \in os.background \cup os.concealed : restoring[AppOf[p]] = <<>>
      BY <2>1 DEF NoPlan, CoverInv, TypeOK, Machine
    <3>. QED
      BY <2>1, <3>1 DEF CoverInv, UndoIsComing
  <2>5. NoRefreshAfterQuit' /\ NothingLeft'
    BY <2>1, <2>2, <2>4 DEF NoRefreshAfterQuit, NothingLeft
  <2>6. Covered(os, disk', unborn)
    BY <2>1, <2>3, <2>4 DEF CoverInv, FileIsHarmless, Harmless, Covered
  <2>7. Covered(os, Memory, unborn)'
    BY <2>1, <2>3, <2>6
  <2>. QED
    BY <1>1, <2>1, <2>2, <2>5, <2>7
       DEF CoverInv, BornInOrder, PlanBehaves, UndoIsComing
<1>11. ASSUME NEW p \in Procs, LimiterStop(p) \/ LimiterContinue(p) PROVE CoverInv'
  <2>1. /\ os'.alive = os.alive /\ os'.background = os.background
        /\ os'.nice = os.nice /\ os'.concealed = os.concealed
    BY <1>11 DEF LimiterStop, LimiterContinue, CoverInv, TypeOK, Machine
  <2>. QED
    BY <1>3, <1>11, <2>1 DEF LimiterStop, LimiterContinue
<1>12. ASSUME NEW p \in Procs, Spawn(p) \/ Exit(p) PROVE CoverInv'
  BY <1>12, SpawnKeepsCover, ExitKeepsCover
<1>13. CASE End
  <2>1. /\ program = "quitting" /\ program' = "off" /\ refresh' = IdleRefresh
        /\ limited' = Nothing /\ os' = os /\ unborn' = unborn /\ disk' = disk
    BY <1>13 DEF End, outside
  <2>2. Memory' = Memory /\ refresh'.at = "idle"
    BY <2>1 DEF Memory, IdleRefresh
  <2>3. NoRefreshAfterQuit' /\ NothingLeft'
    BY <2>1, <2>2 DEF CoverInv, NoRefreshAfterQuit, NothingLeft
  <2>. QED
    BY <1>1, <2>1, <2>2, <2>3, QuietKeepsCover
<1>14. CASE UNCHANGED vars
  BY <1>3, <1>14 DEF vars
<1>. QED
  BY <1>2, <1>4, <1>5, <1>6, <1>7, <1>8, <1>9, <1>10, <1>11, <1>12, <1>13,
     <1>14 DEF Next, User

(* Between two refreshes a crash would lose nothing: whatever is stopped,  *)
(* lowered or hidden is in the file that the next start reads.             *)
THEOREM SavedBetweenRefreshes ==
  ASSUME ~Crashes, ~QuitOverlaps, ~SavesFail, PidsGrow, NormalPriorities
  PROVE  Spec => []SavedWhenSettled
<1>1. CoverInv /\ SaveInv /\ IInv => SavedWhenSettled
  <2> SUFFICES ASSUME CoverInv, SaveInv, IInv, Settled
               PROVE  /\ os.stopped \ Limited \subseteq disk.paused
                      /\ os.background \subseteq Changed(disk)
                      /\ os.concealed \subseteq {disk.hidden[a] : a \in Apps}
    BY DEF SavedWhenSettled
  <2>1. program = "on" /\ refresh.at = "idle" /\ disk = runtime
    BY DEF Settled, SaveInv
  <2>2. Covered(os, disk, unborn)
    BY <2>1 DEF CoverInv, Memory, Held
  <2>3. os.stopped \ Limited \subseteq disk.paused
    BY <2>1 DEF IInv, HeldWhileOn
  <2>. QED
    BY <2>2, <2>3 DEF Covered
<1>. QED
  BY <1>1, InitCover, StepKeepsCover, InitHarmless,
     StepKeepsHarmless, InitSave, StepKeepsSave, InitIInv,
     StepKeepsIInv, PTL DEF Spec

(* A process whose priority OpenTamer no longer records as changed has the *)
(* priority it was started with, and no background policy.                 *)
THEOREM PrioritiesReturn ==
  ASSUME ~Crashes, ~QuitOverlaps, PidsGrow, NormalPriorities
  PROVE  Spec => []PriorityRestored
<1>1. CoverInv => PriorityRestored
  <2> SUFFICES ASSUME CoverInv, Settled, NEW p \in os.alive \ Changed(runtime)
               PROVE  p \notin os.background /\ os.nice[p] = Niceness[p]
    BY DEF PriorityRestored
  <2>1. Covered(os, runtime, unborn)
    BY DEF CoverInv, Memory, Held, Settled
  <2>2. p \in Procs
    BY DEF CoverInv, TypeOK, Machine
  <2>. QED
    BY <2>1, <2>2 DEF Covered, NormalPriorities
<1>. QED
  BY <1>1, InitCover, StepKeepsCover, InitHarmless, StepKeepsHarmless, PTL DEF Spec

(* Once OpenTamer has quit, nothing is stopped, lowered or hidden by it,   *)
(* whichever processes started or exited while it was restoring.           *)
THEOREM EverythingIsUndone ==
  ASSUME ~Crashes, ~QuitOverlaps, PidsGrow, NormalPriorities
  PROVE  Spec => []NothingLeftBehind
<1>1. CoverInv /\ IInv => NothingLeftBehind
  <2> SUFFICES ASSUME CoverInv, IInv PROVE NothingLeftBehind
    OBVIOUS
  <2>1. NothingStaysStopped
    BY DEF IInv, NothingStopped, NothingStaysStopped
  <2>2. \A p \in os.alive : os.nice[p] = Niceness[p]
    BY DEF CoverInv, Covered, NormalPriorities, TypeOK, Machine
  <2>3. program = "off" => os.background = {} /\ os.concealed = {}
    BY DEF CoverInv, NothingLeft
  <2>. QED
    BY <2>1, <2>2, <2>3 DEF NothingLeftBehind
<1>. QED
  BY <1>1, InitCover, StepKeepsCover, InitHarmless, StepKeepsHarmless, InitIInv, StepKeepsIInv, PTL DEF Spec

-----------------------------------------------------------------------------
(* What is recorded as paused is stopped.                                  *)

(* The rules that let a recorded process run on purpose: a pause that      *)
(* wakes its application now and then, and a limit, whose cycle continues  *)
(* it.                                                                     *)
NoPulses == \A rule \in RuleChoices :
              rule.mode # "limit" /\ ~(rule.mode = "pause" /\ rule.wakes)

(* Nothing but OpenTamer's own resume continues what is recorded.          *)
Steady(list) == \A i \in DOMAIN list : list[i].type # "wake_briefly"

Honest(machine, rt) == rt.paused \cap machine.alive \subseteq machine.stopped

TruthInv == /\ TypeOK
            /\ NoRefreshAfterQuit
            /\ os.alive \cap unborn = {}
            /\ Memory.paused \cap unborn = {}
            /\ Honest(os, Memory)
            /\ limited = Nothing /\ refresh.requests = Nothing
            /\ \A a \in Apps : Steady(refresh.plan[a]) /\ Steady(restoring[a])

LEMMA SteadyTail ==
  ASSUME NEW list \in Seq(Actions), list # <<>>, Steady(list)
  PROVE  Steady(Tail(list)) /\ Head(list).type # "wake_briefly"
BY DEF Steady

LEMMA RestorationsSteady ==
  ASSUME NEW a, NEW list \in Seq(Restorations(a))
  PROVE  Steady(list)
<1> SUFFICES ASSUME NEW i \in DOMAIN list PROVE list[i].type # "wake_briefly"
  BY DEF Steady
<1>1. list[i] \in Restorations(a)
  OBVIOUS
<1>. QED
  BY <1>1 DEF Restorations

(* One action: what it records it has stopped, and what it continues it    *)
(* no longer records.                                                      *)
LEMMA ExecuteStaysHonest ==
  ASSUME NEW s \in Pair, NEW action \in Actions,
         Honest(s.os, s.rt), action.type # "wake_briefly"
  PROVE  LET t == Execute(s, action)
         IN /\ Honest(t.os, t.rt) /\ t.os.alive = s.os.alive
            /\ t.rt.paused \subseteq s.rt.paused \cup s.os.alive
<1>. DEFINE a == action.app
            procs == action.procs
            t == Execute(s, action)
<1>1. a \in Apps /\ procs \in SUBSET Procs /\ action.type \in ActionTypes
  BY DEF Actions
<1>2. ASSUME NEW u \in Pair
      PROVE  LET v == ActivateGroup(u, a, procs)
             IN /\ v.os.alive = u.os.alive /\ v.os.stopped = u.os.stopped
                /\ v.rt.paused = u.rt.paused
  BY DEF ActivateGroup, Pair, Machine, RuntimeState
<1>10. ASSUME NEW value
       PROVE  /\ SetPriority(s.os, value).alive = s.os.alive
              /\ SetPriority(s.os, value).stopped = s.os.stopped
  BY DEF SetPriority, Pair, Machine
<1>3. CASE action.type = "pause"
  <2>1. t = PauseGroup(s, procs)
    BY <1>3 DEF Execute
  <2>. DEFINE fresh == (procs \ s.rt.paused) \cap s.os.alive
  <2>2. /\ t.os.alive = s.os.alive /\ t.os.stopped = s.os.stopped \cup fresh
        /\ t.rt.paused = s.rt.paused \cup fresh
    BY <2>1 DEF PauseGroup, Pair, Machine, RuntimeState
  <2>. HIDE DEF t
  <2>. QED
    BY <2>2 DEF Honest, t
<1>4. CASE action.type = "resume"
  <2>. DEFINE resumed == ResumeGroup(s, procs)
              recorded == procs \cap s.rt.paused
  <2>1. resumed \in Pair
    BY <1>1, ResumeKeeps DEF Recorded
  <2>2. /\ resumed.os.alive = s.os.alive
        /\ resumed.os.stopped = s.os.stopped \ recorded
        /\ resumed.rt.paused = s.rt.paused \ recorded
    BY DEF ResumeGroup, Pair, Machine, RuntimeState
  <2>3. t = ActivateGroup(resumed, a, procs) \/ t = resumed
    BY <1>4 DEF Execute
  <2>. HIDE DEF resumed, t
  <2>4. /\ t.os.alive = resumed.os.alive /\ t.os.stopped = resumed.os.stopped
        /\ t.rt.paused = resumed.rt.paused
    BY <1>2, <2>1, <2>3
  <2>. QED
    BY <2>2, <2>4 DEF Honest, t
<1>5. CASE action.type = "set_priority"
  <2>1. t = SetPriorityGroup(s, procs, action.nice)
    BY <1>5 DEF Execute
  <2>2. PICK value, changes :
          t = [os |-> SetPriority(s.os, value),
               rt |-> [s.rt EXCEPT !.changes = changes]]
    BY <2>1 DEF SetPriorityGroup
  <2>3. /\ t.os.alive = s.os.alive /\ t.os.stopped = s.os.stopped
        /\ t.rt.paused = s.rt.paused
    BY <1>10, <2>2 DEF Pair, RuntimeState
  <2>. HIDE DEF t
  <2>. QED
    BY <2>3 DEF Honest, t
<1>6. CASE action.type = "restore_priority"
  <2>1. t = RestorePriorityGroup(s, procs)
    BY <1>6 DEF Execute
  <2>2. PICK value, changes :
          t = [os |-> SetPriority(s.os, value),
               rt |-> [s.rt EXCEPT !.changes = changes]]
    BY <2>1 DEF RestorePriorityGroup
  <2>3. /\ t.os.alive = s.os.alive /\ t.os.stopped = s.os.stopped
        /\ t.rt.paused = s.rt.paused
    BY <1>10, <2>2 DEF Pair, RuntimeState
  <2>. HIDE DEF t
  <2>. QED
    BY <2>3 DEF Honest, t
<1>7. CASE action.type \in {"hide_when_stopped", "hide"}
  <2>1. t = HideGroup(s, a, procs) \/ t = s
    BY <1>7 DEF Execute
  <2>2. CASE t = s
    BY <2>2
  <2>3. CASE t = HideGroup(s, a, procs) /\ t # s
    <3>. DEFINE p == FirstProc(procs)
                front == IF s.os.front = a THEN NoApp ELSE s.os.front
                machine == [s.os EXCEPT !.concealed = @ \cup {p}, !.front = front]
                rt == [s.rt EXCEPT !.hidden[a] = p]
    <3>1. t = [os |-> machine, rt |-> rt]
      BY <2>3 DEF HideGroup
    <3>. HIDE DEF p, front, t
    <3>2. machine.alive = s.os.alive /\ machine.stopped = s.os.stopped
      BY DEF Pair, Machine
    <3>3. rt.paused = s.rt.paused
      BY DEF Pair, RuntimeState
    <3>. HIDE DEF machine, rt
    <3>. QED
      BY <3>1, <3>2, <3>3 DEF Honest, t
  <2>. QED
    BY <2>1, <2>2, <2>3
<1>8. CASE action.type = "activate"
  <2>1. t = ActivateGroup(s, a, procs)
    BY <1>8 DEF Execute
  <2>2. /\ t.os.alive = s.os.alive /\ t.os.stopped = s.os.stopped
        /\ t.rt.paused = s.rt.paused
    BY <1>2, <2>1
  <2>. HIDE DEF t
  <2>. QED
    BY <2>2 DEF Honest, t
<1>9. CASE action.type \in {"limit_cpu", "quit"}
  BY <1>9 DEF Execute
<1>. QED
  BY <1>1, <1>3, <1>4, <1>5, <1>6, <1>7, <1>8, <1>9 DEF ActionTypes

LEMMA InitTruth == Init => TruthInv
<1>. SUFFICES ASSUME Init PROVE TruthInv
  OBVIOUS
<1>1. TypeOK /\ NoRefreshAfterQuit /\ limited = Nothing /\ refresh.requests = Nothing
  BY InitType DEF Init, NoRefreshAfterQuit, IdleRefresh
<1>2. Memory.paused = {}
  BY DEF Init, Memory, Held, IdleRefresh, EmptyRuntime
<1>3. os.alive \cap unborn = {}
  BY DEF Init
<1>4. \A a \in Apps : Steady(refresh.plan[a]) /\ Steady(restoring[a])
  BY DEF Init, IdleRefresh, NoPlan, Steady
<1>. QED
  BY <1>1, <1>2, <1>3, <1>4 DEF TruthInv, Honest

(* The steps that execute no action.                                       *)
LEMMA QuietKeepsTruth ==
  ASSUME TruthInv, TypeOK', NoRefreshAfterQuit',
         os'.alive \cap unborn' = {}, unborn' \subseteq unborn,
         Memory'.paused \cap os'.alive \subseteq Memory.paused \cap os.alive,
         Memory'.paused \cap unborn \subseteq Memory.paused,
         os.stopped \cap os'.alive \subseteq os'.stopped,
         limited' = Nothing, refresh'.requests = Nothing,
         \A a \in Apps : Steady(refresh'.plan[a]) /\ Steady(restoring'[a])
  PROVE  TruthInv'
<1>1. Memory'.paused \cap unborn' = {}
  BY DEF TruthInv
<1>2. Honest(os', Memory')
  BY DEF TruthInv, Honest
<1>. QED
  BY <1>1, <1>2 DEF TruthInv

LEMMA ObserveKeepsTruth ==
  ASSUME NoPulses, TruthInv, Observe
  PROVE  TruthInv'
<1>1. TypeOK'
  BY RefreshKeepsTypes DEF TruthInv, Refresh
<1>2. PICK policy \in {"open", "block", "restore"}, audio \in BOOLEAN,
           settling \in SUBSET Apps,
           wakeDue \in SUBSET {a \in Apps : refresh.rules[a].wakes},
           overLimit \in SUBSET {a \in Apps : refresh.rules[a].mode = "limit"} :
        LET in == [management |-> refresh.management,
                   rules |-> refresh.rules,
                   groups |-> [a \in Apps |-> Group(a)],
                   front |-> FrontmostApp(refresh.rules, os.front),
                   policy |-> policy, audio |-> audio, settling |-> settling,
                   wakeDue |-> wakeDue, overLimit |-> overLimit]
            plan == Plan(refresh.runtime, in)
        IN refresh' = [refresh EXCEPT
                         !.at = "execute",
                         !.plan = plan,
                         !.requests = LimitRequests(plan, in.groups),
                         !.save = SavesImmediately(plan)]
  BY DEF Observe
<1>. DEFINE in == [management |-> refresh.management,
                   rules |-> refresh.rules,
                   groups |-> [a \in Apps |-> Group(a)],
                   front |-> FrontmostApp(refresh.rules, os.front),
                   policy |-> policy, audio |-> audio, settling |-> settling,
                   wakeDue |-> wakeDue, overLimit |-> overLimit]
            plan == Plan(refresh.runtime, in)
            requests == LimitRequests(plan, in.groups)
            save == SavesImmediately(plan)
<1>3. refresh' = [refresh EXCEPT !.at = "execute", !.plan = plan,
                                 !.requests = requests, !.save = save]
  BY <1>2
<1>4. /\ in.groups \in [Apps -> SUBSET Procs] /\ in.rules \in [Apps -> Rule]
      /\ \A a \in Apps : in.groups[a] = Group(a) /\ in.rules[a] = refresh.rules[a]
  BY NoRuleType DEF Group, TruthInv, TypeOK, Machine, RefreshState
<1>. HIDE DEF in
<1>5. \A a \in Apps :
        \/ plan[a] \in Seq(Restorations(a))
        \/ plan[a] \in Seq(ActionsFor(a, refresh.rules[a], Group(a)))
  BY <1>4, PlanLists DEF TruthInv, TypeOK, RefreshState
<1>. HIDE DEF plan
<1>6. ASSUME NEW a \in Apps, NEW i \in DOMAIN plan[a]
      PROVE  plan[a][i].type \notin {"wake_briefly", "limit_cpu"}
  <2>1. CASE plan[a] \in Seq(Restorations(a))
    <3>1. plan[a][i] \in Restorations(a)
      BY <2>1
    <3>. QED
      BY <3>1 DEF Restorations
  <2>2. CASE plan[a] \in Seq(ActionsFor(a, refresh.rules[a], Group(a)))
    <3>1. plan[a][i] \in ActionsFor(a, refresh.rules[a], Group(a))
      BY <2>2
    <3>2. refresh.rules[a] \in RuleChoices \cup {NoRule}
      BY DEF TruthInv, TypeOK, RefreshState
    <3>3. /\ refresh.rules[a].mode # "limit"
          /\ ~(refresh.rules[a].mode = "pause" /\ refresh.rules[a].wakes)
      BY <3>2 DEF NoPulses, NoRule
    <3>. QED
      BY <3>1, <3>3 DEF ActionsFor
  <2>. QED
    BY <1>5, <2>1, <2>2
<1>7. requests = Nothing
  BY <1>6 DEF LimitRequests, Nothing
<1>. HIDE DEF requests, save
<1>8. /\ refresh'.at = "execute" /\ refresh'.plan = plan
      /\ refresh'.runtime = refresh.runtime /\ refresh.at = "observe"
      /\ refresh'.requests = Nothing
      /\ os' = os /\ unborn' = unborn /\ program' = program /\ restoring' = restoring
      /\ disk' = disk /\ limited' = limited
  BY <1>3, <1>7 DEF Observe, outside, TruthInv, TypeOK, RefreshState
<1>9. Memory' = Memory
  BY <1>8 DEF Memory, Held
<1>10. \A a \in Apps : Steady(refresh'.plan[a]) /\ Steady(restoring'[a])
  BY <1>6, <1>8 DEF TruthInv, Steady
<1>11. NoRefreshAfterQuit' /\ os'.alive \cap unborn' = {} /\ limited' = Nothing
  BY <1>8 DEF TruthInv, NoRefreshAfterQuit
<1>. QED
  BY <1>1, <1>8, <1>9, <1>10, <1>11, QuietKeepsTruth

(* An action, executed by the Refresh on its copy or by the shutdown.      *)
LEMMA ActionKeepsTruth ==
  ASSUME TruthInv, TypeOK', NoRefreshAfterQuit',
         NEW rt \in RuntimeState, rt = Memory,
         NEW action \in Actions, action.type # "wake_briefly",
         os' = Execute([os |-> os, rt |-> rt], action).os,
         Memory' = Execute([os |-> os, rt |-> rt], action).rt,
         unborn' = unborn, limited' = limited,
         refresh'.requests = refresh.requests,
         \A a \in Apps : Steady(refresh'.plan[a]) /\ Steady(restoring'[a])
  PROVE  TruthInv'
<1>. DEFINE s == [os |-> os, rt |-> rt]
            after == Execute(s, action)
<1>1. s \in Pair /\ s.os = os /\ s.rt = rt
  BY DEF Pair, TruthInv, TypeOK
<1>2. Honest(s.os, s.rt)
  BY <1>1 DEF TruthInv
<1>3. /\ Honest(after.os, after.rt) /\ after.os.alive = os.alive
      /\ after.rt.paused \subseteq rt.paused \cup os.alive
  <2>. HIDE DEF s
  <2>. QED
    BY <1>1, <1>2, ExecuteStaysHonest
<1>4. os' = after.os /\ Memory' = after.rt
  OBVIOUS
<1>. HIDE DEF s, after
<1>5. Honest(os', Memory') /\ os'.alive = os.alive
      /\ Memory'.paused \cap unborn = {}
  BY <1>3, <1>4 DEF TruthInv
<1>. QED
  BY <1>5 DEF TruthInv

LEMMA ExecuteKeepsTruth ==
  ASSUME TruthInv, NEW a \in Apps, ExecuteAction(a)
  PROVE  TruthInv'
<1>. DEFINE list == refresh.plan[a]
            head == Head(list)
            after == Execute([os |-> os, rt |-> refresh.runtime], head)
<1>1. TypeOK'
  BY RefreshKeepsTypes DEF TruthInv, Refresh
<1>2. /\ refresh.at = "execute" /\ list # <<>>
      /\ os' = after.os
      /\ refresh' = [refresh EXCEPT !.runtime = after.rt, !.plan[a] = Tail(@)]
      /\ program' = program /\ restoring' = restoring /\ limited' = limited
      /\ disk' = disk /\ unborn' = unborn
  BY DEF ExecuteAction
<1>3. program = "on"
  BY <1>2 DEF TruthInv, NoRefreshAfterQuit
<1>4. refresh.runtime = Memory /\ refresh.runtime \in RuntimeState
  BY <1>2, <1>3 DEF Memory, Held, TruthInv, TypeOK, RefreshState
<1>5. refresh.plan \in [Apps -> Seq(Actions)] /\ list \in Seq(Actions)
  BY DEF TruthInv, TypeOK, RefreshState, Plans
<1>6. head \in Actions /\ Steady(Tail(list)) /\ head.type # "wake_briefly"
  BY <1>2, <1>5, SteadyTail DEF TruthInv
<1>7. os' = Execute([os |-> os, rt |-> refresh.runtime], head).os
  BY <1>2
<1>. HIDE DEF after, head
<1>8. /\ refresh'.at = "execute" /\ refresh'.runtime = after.rt
      /\ refresh'.requests = refresh.requests
      /\ refresh'.plan = [refresh.plan EXCEPT ![a] = Tail(list)]
  BY <1>2 DEF TruthInv, TypeOK, RefreshState
<1>9. \A b \in Apps : refresh'.plan[b] = IF b = a THEN Tail(list) ELSE refresh.plan[b]
  BY <1>5, <1>8
<1>. HIDE DEF list
<1>10. \A b \in Apps : Steady(refresh'.plan[b]) /\ Steady(restoring'[b])
  BY <1>2, <1>6, <1>9 DEF TruthInv
<1>11. Memory' = Execute([os |-> os, rt |-> refresh.runtime], head).rt
  BY <1>2, <1>3, <1>8 DEF Memory, Held, after
<1>12. NoRefreshAfterQuit'
  BY <1>2, <1>3 DEF NoRefreshAfterQuit
<1>. QED
  BY <1>1, <1>2, <1>4, <1>6, <1>7, <1>8, <1>10, <1>11, <1>12, ActionKeepsTruth

LEMMA RestoreKeepsTruth ==
  ASSUME TruthInv, NEW a \in Apps, RestoreAction(a)
  PROVE  TruthInv'
<1>. DEFINE list == restoring[a]
            head == Head(list)
            after == Execute([os |-> os, rt |-> runtime], head)
<1>1. TypeOK'
  BY RestoreKeepsTypes DEF TruthInv
<1>2. /\ program = "restoring" /\ program' = program /\ list # <<>>
      /\ restoring' = [restoring EXCEPT ![a] = Tail(@)]
      /\ os' = after.os /\ runtime' = after.rt
      /\ refresh' = refresh /\ limited' = limited /\ disk' = disk
      /\ unborn' = unborn
  BY DEF RestoreAction
<1>3. refresh.at = "idle" /\ NoRefreshAfterQuit'
  BY <1>2 DEF TruthInv, NoRefreshAfterQuit
<1>4. runtime = Memory /\ runtime \in RuntimeState
  BY <1>2, <1>3 DEF Memory, Held, TruthInv, TypeOK
<1>5. restoring \in [Apps -> Seq(Actions)] /\ list \in Seq(Actions)
  BY DEF TruthInv, TypeOK, Plans
<1>6. head \in Actions /\ Steady(Tail(list)) /\ head.type # "wake_briefly"
  BY <1>2, <1>5, SteadyTail DEF TruthInv
<1>7. os' = Execute([os |-> os, rt |-> runtime], head).os
  BY <1>2
<1>8. Memory' = Execute([os |-> os, rt |-> runtime], head).rt
  BY <1>2, <1>3 DEF Memory, Held
<1>. HIDE DEF after, head
<1>9. \A b \in Apps : restoring'[b] = IF b = a THEN Tail(list) ELSE restoring[b]
  BY <1>2, <1>5
<1>. HIDE DEF list
<1>10. \A b \in Apps : Steady(refresh'.plan[b]) /\ Steady(restoring'[b])
  BY <1>2, <1>6, <1>9 DEF TruthInv
<1>. QED
  BY <1>1, <1>2, <1>3, <1>4, <1>6, <1>7, <1>8, <1>10, ActionKeepsTruth

LEMMA RefreshKeepsTruth ==
  ASSUME ~QuitOverlaps, NoPulses, TruthInv, Refresh
  PROVE  TruthInv'
<1>1. TypeOK'
  BY RefreshKeepsTypes DEF TruthInv
<1>2. program = "on" /\ program' = "on"
  BY DEF Refresh, BeginRefresh, Observe, ExecuteAction, UpdateLimiter, Commit,
         TruthInv, NoRefreshAfterQuit, TypeOK
<1>3. NoRefreshAfterQuit'
  BY <1>2 DEF NoRefreshAfterQuit
<1>4. CASE BeginRefresh
  <2>1. /\ refresh'.at = "observe" /\ refresh'.runtime = runtime
        /\ refresh.at = "idle" /\ os' = os /\ unborn' = unborn
        /\ refresh'.requests = refresh.requests /\ refresh'.plan = refresh.plan
        /\ restoring' = restoring /\ limited' = limited
    BY <1>4 DEF BeginRefresh, outside, TruthInv, TypeOK, RefreshState
  <2>2. Memory' = Memory
    BY <1>2, <2>1 DEF Memory, Held
  <2>. QED
    BY <1>1, <1>3, <2>1, <2>2, QuietKeepsTruth DEF TruthInv
<1>5. CASE Observe
  BY <1>5, ObserveKeepsTruth
<1>6. ASSUME NEW a \in Apps, ExecuteAction(a) PROVE TruthInv'
  BY <1>6, ExecuteKeepsTruth
<1>7. CASE UpdateLimiter
  <2>1. /\ refresh.at = "execute" /\ refresh'.at = "commit"
        /\ refresh'.runtime = refresh.runtime /\ unborn' = unborn
        /\ refresh'.requests = refresh.requests /\ refresh'.plan = refresh.plan
        /\ restoring' = restoring /\ limited' = refresh.requests
        /\ os'.alive = os.alive
    BY <1>7 DEF UpdateLimiter, TruthInv, TypeOK, RefreshState, Machine
  <2>2. limited' = limited
    BY <2>1 DEF TruthInv
  <2>3. os'.stopped = os.stopped
    BY <1>7, <2>2 DEF UpdateLimiter, TruthInv, TypeOK, Machine
  <2>4. Memory' = Memory
    BY <1>2, <2>1 DEF Memory, Held
  <2>. QED
    BY <1>1, <1>3, <2>1, <2>2, <2>3, <2>4, QuietKeepsTruth DEF TruthInv
<1>8. CASE Commit
  <2>1. /\ refresh.at = "commit" /\ refresh'.at = "idle"
        /\ runtime' = refresh.runtime /\ os' = os /\ unborn' = unborn
        /\ refresh'.requests = Nothing /\ refresh'.plan = NoPlan
        /\ restoring' = restoring /\ limited' = limited
    BY <1>8 DEF Commit, IdleRefresh
  <2>2. Memory' = Memory
    BY <1>2, <2>1 DEF Memory, Held
  <2>3. \A a \in Apps : Steady(refresh'.plan[a]) /\ Steady(restoring'[a])
    BY <2>1 DEF NoPlan, Steady, TruthInv
  <2>. QED
    BY <1>1, <1>3, <2>1, <2>2, <2>3, QuietKeepsTruth DEF TruthInv
<1>. QED
  BY <1>4, <1>5, <1>6, <1>7, <1>8 DEF Refresh

LEMMA StepKeepsTruth ==
  ASSUME ~Crashes, ~QuitOverlaps, ~SavesFail, NoPulses
  PROVE  TruthInv /\ [Next]_vars => TruthInv'
<1>. SUFFICES ASSUME TruthInv, [Next]_vars PROVE TruthInv'
  OBVIOUS
<1>1. TypeOK'
  BY StepKeepsTypes DEF TruthInv
<1>2. CASE Refresh
  BY <1>2, RefreshKeepsTruth
<1>3. ASSUME UNCHANGED <<program, runtime, refresh, limited, restoring, disk, unborn>>,
             os'.alive = os.alive, os'.stopped = os.stopped
      PROVE  TruthInv'
  <2>1. Memory' = Memory /\ NoRefreshAfterQuit'
    BY <1>3 DEF Memory, Held, TruthInv, NoRefreshAfterQuit
  <2>. QED
    BY <1>1, <1>3, <2>1, QuietKeepsTruth DEF TruthInv
<1>4. CASE ToggleManagement
  BY <1>3, <1>4 DEF ToggleManagement, outside
<1>5. ASSUME NEW a \in Apps, NEW rule \in RuleChoices \cup {NoRule}, SetRule(a, rule)
      PROVE  TruthInv'
  BY <1>3, <1>5 DEF SetRule, outside
<1>6. ASSUME NEW a \in Apps \cup {NoApp}, SwitchTo(a) PROVE TruthInv'
  <2>1. os'.alive = os.alive /\ os'.stopped = os.stopped
    BY <1>6 DEF SwitchTo, TruthInv, TypeOK, Machine
  <2>. QED
    BY <1>3, <1>6, <2>1 DEF SwitchTo
<1>7. CASE Shutdown
  <2>1. /\ program = "on" /\ program' = "restoring" /\ refresh.at = "idle"
        /\ limited' = Nothing /\ runtime' = runtime /\ refresh' = refresh
        /\ unborn' = unborn /\ disk' = disk
        /\ \A a \in Apps : restoring'[a] = RestoreAll(a, runtime)
        /\ os' = [os EXCEPT !.stopped = @ \ Limited]
    BY <1>7 DEF Shutdown
  <2>2. Limited = {}
    BY DEF Limited, Nothing, TruthInv
  <2>3. os'.alive = os.alive /\ os'.stopped = os.stopped
    BY <2>1, <2>2 DEF TruthInv, TypeOK, Machine
  <2>4. Memory' = Memory /\ NoRefreshAfterQuit'
    BY <2>1 DEF Memory, Held, NoRefreshAfterQuit
  <2>5. ASSUME NEW a \in Apps PROVE Steady(restoring'[a])
    <3>1. RestoreAll(a, runtime) \in Seq(Restorations(a))
      BY RestoreAllUndoes DEF TruthInv, TypeOK
    <3>. QED
      BY <2>1, <3>1, RestorationsSteady
  <2>. QED
    BY <1>1, <2>1, <2>3, <2>4, <2>5, QuietKeepsTruth DEF TruthInv
<1>8. CASE Start
  <2>1. /\ program = "off" /\ program' = "on" /\ runtime' = disk /\ os' = os
        /\ UNCHANGED <<refresh, limited, restoring, unborn>>
    BY <1>8 DEF Start, outside
  <2>2. refresh.at = "idle"
    BY <2>1 DEF TruthInv, NoRefreshAfterQuit
  <2>3. Memory' = Memory /\ NoRefreshAfterQuit'
    BY <2>1, <2>2 DEF Memory, Held, NoRefreshAfterQuit
  <2>. QED
    BY <1>1, <2>1, <2>3, QuietKeepsTruth DEF TruthInv
<1>9. ASSUME NEW a \in Apps, RestoreAction(a) PROVE TruthInv'
  BY <1>9, RestoreKeepsTruth
<1>10. CASE SaveAndQuit
  <2>1. /\ program = "restoring" /\ program' = "quitting" /\ disk' = runtime
        /\ os' = os /\ UNCHANGED <<refresh, limited, restoring, unborn>>
    BY <1>10 DEF SaveAndQuit, SaveRuntime
  <2>2. refresh.at = "idle"
    BY <2>1 DEF TruthInv, NoRefreshAfterQuit
  <2>3. Memory' = Memory /\ NoRefreshAfterQuit'
    BY <2>1, <2>2 DEF Memory, Held, TruthInv, NoRefreshAfterQuit
  <2>. QED
    BY <1>1, <2>1, <2>3, QuietKeepsTruth DEF TruthInv
<1>11. ASSUME NEW p \in Procs, LimiterStop(p) \/ LimiterContinue(p) PROVE TruthInv'
  <2>1. p \in Limited
    BY <1>11 DEF LimiterStop, LimiterContinue
  <2>. QED
    BY <2>1 DEF Limited, Nothing, TruthInv
<1>12. ASSUME NEW p \in Procs, Spawn(p) PROVE TruthInv'
  <2>1. /\ p \in unborn /\ unborn' = unborn \ {p}
        /\ os'.alive = os.alive \cup {p} /\ os'.stopped = os.stopped
        /\ UNCHANGED <<program, runtime, refresh, limited, restoring, disk>>
    BY <1>12 DEF Spawn, TruthInv, TypeOK, Machine
  <2>2. Memory' = Memory /\ NoRefreshAfterQuit'
    BY <2>1 DEF Memory, Held, TruthInv, NoRefreshAfterQuit
  <2>3. p \notin Memory.paused
    BY <2>1 DEF TruthInv
  <2>4. Memory'.paused \cap os'.alive \subseteq Memory.paused \cap os.alive
    BY <2>1, <2>2, <2>3
  <2>5. os'.alive \cap unborn' = {} /\ unborn' \subseteq unborn
        /\ os.stopped \cap os'.alive \subseteq os'.stopped
    BY <2>1 DEF TruthInv
  <2>. QED
    BY <1>1, <2>1, <2>2, <2>4, <2>5, QuietKeepsTruth DEF TruthInv
<1>13. ASSUME NEW p \in Procs, Exit(p) PROVE TruthInv'
  <2>1. /\ unborn' = unborn
        /\ os'.alive = os.alive \ {p} /\ os'.stopped = os.stopped \ {p}
        /\ UNCHANGED <<program, runtime, refresh, limited, restoring, disk>>
    BY <1>13 DEF Exit, TruthInv, TypeOK, Machine
  <2>2. Memory' = Memory /\ NoRefreshAfterQuit'
    BY <2>1 DEF Memory, Held, TruthInv, NoRefreshAfterQuit
  <2>3. os'.alive \cap unborn' = {} /\ unborn' \subseteq unborn
        /\ os.stopped \cap os'.alive \subseteq os'.stopped
        /\ Memory'.paused \cap os'.alive \subseteq Memory.paused \cap os.alive
    BY <2>1, <2>2 DEF TruthInv
  <2>. QED
    BY <1>1, <2>1, <2>2, <2>3, QuietKeepsTruth DEF TruthInv
<1>14. CASE End
  <2>1. /\ program = "quitting" /\ program' = "off" /\ refresh' = IdleRefresh
        /\ limited' = Nothing /\ restoring' = NoPlan
        /\ os' = os /\ unborn' = unborn /\ disk' = disk
    BY <1>14 DEF End, outside
  <2>2. /\ Memory' = Memory /\ refresh'.at = "idle" /\ NoRefreshAfterQuit'
        /\ refresh'.requests = Nothing
    BY <2>1 DEF Memory, IdleRefresh, NoRefreshAfterQuit
  <2>3. \A a \in Apps : Steady(refresh'.plan[a]) /\ Steady(restoring'[a])
    BY <2>1 DEF IdleRefresh, NoPlan, Steady
  <2>. QED
    BY <1>1, <2>1, <2>2, <2>3, QuietKeepsTruth DEF TruthInv
<1>15. CASE UNCHANGED vars
  BY <1>3, <1>15 DEF vars
<1>. QED
  BY <1>2, <1>4, <1>5, <1>6, <1>7, <1>8, <1>9, <1>10, <1>11, <1>12, <1>13,
     <1>14, <1>15 DEF Next, User

(* Where rules pause for good and nothing is limited, a live process that  *)
(* OpenTamer records as paused is stopped whenever no Refresh is running.  *)
THEOREM PausedAreStopped ==
  ASSUME ~Crashes, ~QuitOverlaps, ~SavesFail, NoPulses
  PROVE  Spec => []RecordedAreStopped
<1>1. TruthInv => RecordedAreStopped
  BY DEF TruthInv, Honest, RecordedAreStopped, Settled, Memory, Held
<1>. QED
  BY <1>1, InitTruth, StepKeepsTruth, PTL DEF Spec

-----------------------------------------------------------------------------
(* A process is under one control at a time, for any applications, rules   *)
(* and safety decisions, whether or not the program is killed or quits     *)
(* during a Refresh.  The reason is the order of the actions that Evaluate *)
(* plans for one application: what takes a process back from the rule      *)
(* before comes ahead of what gives it to the present one.                 *)

-----------------------------------------------------------------------------
(* Lists of actions that take processes back in time.                      *)

Has(list, type) == \E i \in DOMAIN list : list[i].type = type

(* Before its n-th action, the list takes back every process of "procs".   *)
Undone(list, n, type, procs) ==
  \A p \in procs : \E j \in DOMAIN list :
    j < n /\ list[j].type = type /\ p \in list[j].procs

Undoes(list, type, procs) == Undone(list, Len(list) + 1, type, procs)

Restoring(list) ==
  \A i \in DOMAIN list :
    list[i].type \in {"resume", "restore_priority", "activate"}

(* A list that may follow the runtime state rt: it pauses a process only   *)
(* when its priority is back, and lowers a priority only when the process  *)
(* is resumed; both hold at its end for the processes to be limited.       *)
Prepared(a, list, rt, requested) ==
  /\ \A i \in DOMAIN list : list[i].type \in {"pause", "set_priority"} =>
       \A p \in list[i].procs : AppOf[p] = a
  /\ \A p \in requested : AppOf[p] = a
  /\ \A i \in DOMAIN list : list[i].type = "pause" =>
       /\ ~Has(list, "set_priority")
       /\ Undone(list, i, "restore_priority", list[i].procs \cap Changed(rt))
  /\ \A i \in DOMAIN list : list[i].type = "set_priority" =>
       /\ ~Has(list, "pause")
       /\ Undone(list, i, "resume", list[i].procs \cap rt.paused)
  /\ requested # {} =>
       /\ ~Has(list, "pause") /\ ~Has(list, "set_priority")
       /\ Undoes(list, "resume", requested \cap rt.paused)
       /\ Undoes(list, "restore_priority", requested \cap Changed(rt))

LEMMA UndoneInTail ==
  ASSUME NEW list \in Seq(Actions), list # <<>>, NEW n \in Nat, NEW type,
         NEW procs, NEW rest, Undone(list, n + 1, type, procs),
         rest \subseteq procs,
         Head(list).type = type => rest \cap Head(list).procs = {}
  PROVE  Undone(Tail(list), n, type, rest)
<1> SUFFICES ASSUME NEW p \in rest
             PROVE  \E j \in DOMAIN Tail(list) :
                      /\ j < n /\ Tail(list)[j].type = type
                      /\ p \in Tail(list)[j].procs
  BY DEF Undone
<1>1. PICK j \in DOMAIN list : j < n + 1 /\ list[j].type = type /\ p \in list[j].procs
  BY DEF Undone
<1>2. j # 1
  BY <1>1
<1>3. j - 1 \in DOMAIN Tail(list) /\ Tail(list)[j - 1] = list[j] /\ j - 1 < n
  BY <1>1, <1>2
<1>. QED
  BY <1>1, <1>3

LEMMA UndoneByParts ==
  ASSUME NEW x \in Seq(Actions), NEW y \in Seq(Actions), NEW type, NEW procs
  PROVE  /\ \A n \in Nat : n > Len(x) /\ Undoes(x, type, procs)
                             => Undone(x \o y, n, type, procs)
         /\ Undoes(x, type, procs) => Undoes(x \o y, type, procs)
         /\ Undoes(y, type, procs) => Undoes(x \o y, type, procs)
<1>1. Len(x) \in Nat /\ Len(y) \in Nat /\ DOMAIN x = 1..Len(x)
      /\ DOMAIN y = 1..Len(y)
  OBVIOUS
<1>2. ASSUME NEW n \in Nat, n > Len(x), Undoes(x, type, procs)
      PROVE  Undone(x \o y, n, type, procs)
  <2> SUFFICES ASSUME NEW p \in procs
               PROVE  \E j \in DOMAIN (x \o y) :
                        /\ j < n /\ (x \o y)[j].type = type
                        /\ p \in (x \o y)[j].procs
    BY DEF Undone
  <2>1. PICK j \in DOMAIN x : x[j].type = type /\ p \in x[j].procs
    BY <1>2 DEF Undoes, Undone
  <2>. QED
    BY <1>1, <1>2, <2>1, Parts
<1>3. Undoes(x, type, procs) => Undoes(x \o y, type, procs)
  <2>1. Len(x \o y) + 1 \in Nat /\ Len(x \o y) + 1 > Len(x)
    BY <1>1, Parts
  <2>. QED
    BY <1>2, <2>1 DEF Undoes
<1>4. ASSUME Undoes(y, type, procs) PROVE Undoes(x \o y, type, procs)
  <2> SUFFICES ASSUME NEW p \in procs
               PROVE  \E j \in DOMAIN (x \o y) :
                        /\ j < Len(x \o y) + 1 /\ (x \o y)[j].type = type
                        /\ p \in (x \o y)[j].procs
    BY DEF Undoes, Undone
  <2>1. PICK j \in DOMAIN y : y[j].type = type /\ p \in y[j].procs
    BY <1>4 DEF Undoes, Undone
  <2>2. j + Len(x) < Len(x \o y) + 1
    BY <1>1, <2>1, Parts
  <2>. QED
    BY <2>1, <2>2, Parts
<1>. QED
  BY <1>2, <1>3, <1>4

LEMMA RestoringParts ==
  ASSUME NEW x \in Seq(Actions), NEW y \in Seq(Actions),
         Restoring(x), Restoring(y)
  PROVE  Restoring(x \o y)
BY Parts DEF Restoring

-----------------------------------------------------------------------------
(* What one action does to the records.                                    *)

LEMMA ActionControls ==
  ASSUME NEW s \in Pair, NEW action \in Actions
  PROVE  LET rt == Execute(s, action).rt
         IN /\ rt.paused \subseteq
                 s.rt.paused \cup (IF action.type = "pause" THEN action.procs ELSE {})
            /\ Changed(rt) \subseteq
                 Changed(s.rt) \cup (IF action.type = "set_priority" THEN action.procs ELSE {})
            /\ action.type = "resume" => rt.paused \cap action.procs = {}
            /\ action.type = "restore_priority" => Changed(rt) \cap action.procs = {}
<1>. DEFINE a == action.app
            procs == action.procs
            rt == Execute(s, action).rt
<1>1. a \in Apps /\ procs \in SUBSET Procs /\ action.nice \in Nat
      /\ action.type \in ActionTypes
  BY DEF Actions
<1>2. \A t \in Pair, q \in SUBSET Procs :
        /\ ActivateGroup(t, a, q).rt.paused = t.rt.paused
        /\ ActivateGroup(t, a, q).rt.changes = t.rt.changes
  BY DEF ActivateGroup, Pair, RuntimeState
<1>3. \A q \in SUBSET Procs : /\ HideGroup(s, a, q).rt.paused = s.rt.paused
                              /\ HideGroup(s, a, q).rt.changes = s.rt.changes
  BY DEF HideGroup, Pair, RuntimeState
<1>4. CASE action.type = "pause"
  <2>1. /\ rt.paused = s.rt.paused \cup ((procs \ s.rt.paused) \cap s.os.alive)
        /\ rt.changes = s.rt.changes
    BY <1>4 DEF Execute, PauseGroup, Pair, RuntimeState
  <2>. HIDE DEF rt
  <2>. QED
    BY <1>4, <2>1 DEF Changed, rt
<1>5. CASE action.type = "resume"
  <2>. DEFINE resumed == ResumeGroup(s, procs)
  <2>1. resumed \in Pair
    BY <1>1, ResumeKeeps DEF Recorded
  <2>2. /\ resumed.rt.paused = s.rt.paused \ (procs \cap s.rt.paused)
        /\ resumed.rt.changes = s.rt.changes
    BY DEF ResumeGroup, Pair, RuntimeState
  <2>3. rt = (IF resumed.rt.hidden[a] # NoProc
              THEN ActivateGroup(resumed, a, procs) ELSE resumed).rt
    BY <1>5 DEF Execute
  <2>. HIDE DEF resumed, rt
  <2>4. rt.paused = resumed.rt.paused /\ rt.changes = resumed.rt.changes
    BY <1>1, <1>2, <2>1, <2>3
  <2>. QED
    BY <1>5, <2>2, <2>4 DEF Changed, rt
<1>6. CASE action.type = "set_priority"
  <2>1. /\ rt.paused = s.rt.paused
        /\ \A p \in Procs \ procs : rt.changes[p] = s.rt.changes[p]
    BY <1>6 DEF Execute, SetPriorityGroup, Pair, RuntimeState
  <2>. HIDE DEF rt
  <2>. QED
    BY <1>6, <2>1 DEF Changed, rt
<1>7. CASE action.type = "restore_priority"
  <2>1. /\ rt.paused = s.rt.paused
        /\ \A p \in Procs : rt.changes[p] = IF p \in procs \cap Changed(s.rt) THEN NoChange
                                            ELSE s.rt.changes[p]
    BY <1>7 DEF Execute, RestorePriorityGroup, Pair, RuntimeState
  <2>. HIDE DEF rt
  <2>. QED
    BY <1>7, <2>1 DEF Changed, rt
<1>8. CASE action.type \in {"hide_when_stopped", "hide", "activate", "wake_briefly",
                            "limit_cpu", "quit"}
  <2>1. rt.paused = s.rt.paused /\ rt.changes = s.rt.changes
    <3>1. CASE action.type = "activate"
      BY <1>1, <1>2, <3>1 DEF Execute
    <3>2. CASE action.type \in {"hide_when_stopped", "hide"}
      BY <1>1, <1>3, <3>2 DEF Execute
    <3>3. CASE action.type = "wake_briefly"
      BY <3>3 DEF Execute, WakeGroupBriefly, Pair
    <3>4. CASE action.type \in {"limit_cpu", "quit"}
      BY <3>4 DEF Execute
    <3>. QED
      BY <1>8, <3>1, <3>2, <3>3, <3>4
  <2>. HIDE DEF rt
  <2>. QED
    BY <1>8, <2>1 DEF Changed, rt
<1>. HIDE DEF rt
<1>9. /\ rt.paused \subseteq
           s.rt.paused \cup (IF action.type = "pause" THEN action.procs ELSE {})
      /\ Changed(rt) \subseteq
           Changed(s.rt) \cup (IF action.type = "set_priority" THEN action.procs ELSE {})
      /\ action.type = "resume" => rt.paused \cap action.procs = {}
      /\ action.type = "restore_priority" => Changed(rt) \cap action.procs = {}
  BY <1>1, <1>4, <1>5, <1>6, <1>7, <1>8 DEF ActionTypes, rt
<1>. QED
  BY <1>9 DEF rt

Disjoint(rt) == rt.paused \cap Changed(rt) = {}

(* The next action of a prepared list keeps the controls apart, and the    *)
(* rest of the list is prepared for what it leaves.                        *)
LEMMA NextIsPrepared ==
  ASSUME NEW a \in Apps, NEW list \in Seq(Actions), list # <<>>,
         NEW rt \in RuntimeState, NEW after \in RuntimeState, NEW requested,
         Prepared(a, list, rt, requested), Disjoint(rt),
         LET head == Head(list)
         IN /\ after.paused \subseteq
                 rt.paused \cup (IF head.type = "pause" THEN head.procs ELSE {})
            /\ Changed(after) \subseteq
                 Changed(rt) \cup (IF head.type = "set_priority" THEN head.procs ELSE {})
            /\ head.type = "resume" => after.paused \cap head.procs = {}
            /\ head.type = "restore_priority" => Changed(after) \cap head.procs = {}
  PROVE  Disjoint(after) /\ Prepared(a, Tail(list), after, requested)
<1>. DEFINE head == Head(list)
            tail == Tail(list)
<1>1. /\ after.paused \subseteq
           rt.paused \cup (IF head.type = "pause" THEN head.procs ELSE {})
      /\ Changed(after) \subseteq
           Changed(rt) \cup (IF head.type = "set_priority" THEN head.procs ELSE {})
      /\ head.type = "resume" => after.paused \cap head.procs = {}
      /\ head.type = "restore_priority" => Changed(after) \cap head.procs = {}
  OBVIOUS
<1>2. 1 \in DOMAIN list /\ head = list[1] /\ tail \in Seq(Actions)
      /\ Len(list) = Len(tail) + 1 /\ Len(tail) \in Nat
  OBVIOUS
<1>3. \A i \in DOMAIN tail : /\ i \in Nat /\ i + 1 \in DOMAIN list
                             /\ tail[i] = list[i + 1]
  OBVIOUS
<1>. HIDE DEF tail
<1>4. \A type : ~Has(list, type) => ~Has(tail, type)
  BY <1>3 DEF Has
<1>5. head.type = "pause" => head.procs \cap Changed(rt) = {}
  <2> SUFFICES ASSUME head.type = "pause", NEW p \in head.procs \cap Changed(rt)
               PROVE  FALSE
    OBVIOUS
  <2>1. Undone(list, 1, "restore_priority", list[1].procs \cap Changed(rt))
    BY <1>2 DEF Prepared
  <2>2. PICK j \in DOMAIN list : j < 1
    BY <1>2, <2>1 DEF Undone
  <2>. QED
    BY <2>2
<1>6. head.type = "set_priority" => head.procs \cap rt.paused = {}
  <2> SUFFICES ASSUME head.type = "set_priority", NEW p \in head.procs \cap rt.paused
               PROVE  FALSE
    OBVIOUS
  <2>1. Undone(list, 1, "resume", list[1].procs \cap rt.paused)
    BY <1>2 DEF Prepared
  <2>2. PICK j \in DOMAIN list : j < 1
    BY <1>2, <2>1 DEF Undone
  <2>. QED
    BY <2>2
<1>. HIDE DEF head
<1>7. Disjoint(after)
  BY <1>1, <1>5, <1>6 DEF Disjoint
<1>8. ASSUME NEW n \in Nat, NEW procs,
             Undone(list, n + 1, "restore_priority", procs \cap Changed(rt)),
             head.type # "set_priority"
      PROVE  Undone(tail, n, "restore_priority", procs \cap Changed(after))
  <2>1. /\ procs \cap Changed(after) \subseteq procs \cap Changed(rt)
        /\ head.type = "restore_priority" =>
             (procs \cap Changed(after)) \cap head.procs = {}
    BY <1>1, <1>8
  <2>. QED
    BY <1>8, <2>1, UndoneInTail DEF head, tail
<1>9. ASSUME NEW n \in Nat, NEW procs,
             Undone(list, n + 1, "resume", procs \cap rt.paused),
             head.type # "pause"
      PROVE  Undone(tail, n, "resume", procs \cap after.paused)
  <2>1. /\ procs \cap after.paused \subseteq procs \cap rt.paused
        /\ head.type = "resume" => (procs \cap after.paused) \cap head.procs = {}
    BY <1>1, <1>9
  <2>. QED
    BY <1>9, <2>1, UndoneInTail DEF head, tail
<1>10. ASSUME NEW i \in DOMAIN tail, tail[i].type = "pause"
       PROVE  /\ ~Has(tail, "set_priority")
              /\ Undone(tail, i, "restore_priority", tail[i].procs \cap Changed(after))
  <2>1. /\ ~Has(list, "set_priority")
        /\ Undone(list, i + 1, "restore_priority", tail[i].procs \cap Changed(rt))
    BY <1>3, <1>10 DEF Prepared
  <2>2. head.type # "set_priority"
    BY <1>2, <2>1 DEF Has
  <2>. QED
    BY <1>3, <1>4, <1>8, <2>1, <2>2
<1>11. ASSUME NEW i \in DOMAIN tail, tail[i].type = "set_priority"
       PROVE  /\ ~Has(tail, "pause")
              /\ Undone(tail, i, "resume", tail[i].procs \cap after.paused)
  <2>1. /\ ~Has(list, "pause")
        /\ Undone(list, i + 1, "resume", tail[i].procs \cap rt.paused)
    BY <1>3, <1>11 DEF Prepared
  <2>2. head.type # "pause"
    BY <1>2, <2>1 DEF Has
  <2>. QED
    BY <1>3, <1>4, <1>9, <2>1, <2>2
<1>12. ASSUME requested # {}
       PROVE  /\ ~Has(tail, "pause") /\ ~Has(tail, "set_priority")
              /\ Undoes(tail, "resume", requested \cap after.paused)
              /\ Undoes(tail, "restore_priority", requested \cap Changed(after))
  <2>1. /\ ~Has(list, "pause") /\ ~Has(list, "set_priority")
        /\ Undone(list, (Len(tail) + 1) + 1, "resume", requested \cap rt.paused)
        /\ Undone(list, (Len(tail) + 1) + 1, "restore_priority",
                  requested \cap Changed(rt))
    BY <1>2, <1>12 DEF Prepared, Undoes
  <2>2. head.type # "pause" /\ head.type # "set_priority"
    BY <1>2, <2>1 DEF Has
  <2>3. Len(tail) + 1 \in Nat
    BY <1>2
  <2>. QED
    BY <1>4, <1>8, <1>9, <2>1, <2>2, <2>3 DEF Undoes
<1>13. /\ \A i \in DOMAIN tail : tail[i].type \in {"pause", "set_priority"} =>
            \A p \in tail[i].procs : AppOf[p] = a
       /\ \A p \in requested : AppOf[p] = a
  BY <1>3 DEF Prepared
<1>14. Prepared(a, tail, after, requested)
  BY <1>10, <1>11, <1>12, <1>13 DEF Prepared
<1>. QED
  BY <1>7, <1>14 DEF tail

(* The lists of the other applications stay prepared as well.              *)
LEMMA OthersStayPrepared ==
  ASSUME NEW a \in Apps, NEW b \in Apps, a # b,
         NEW list \in Seq(Actions), NEW requested,
         NEW rt \in RuntimeState, NEW after \in RuntimeState,
         Prepared(b, list, rt, requested),
         \A p \in Procs : AppOf[p] = b => /\ p \in after.paused => p \in rt.paused
                                          /\ p \in Changed(after) => p \in Changed(rt)
  PROVE  Prepared(b, list, after, requested)
<1>1. \A procs, more, less, n, type :
        Undone(list, n, type, procs \cap more)
          /\ procs \cap less \subseteq procs \cap more
          => Undone(list, n, type, procs \cap less)
  BY DEF Undone
<1>2. \A procs : (\A p \in procs : AppOf[p] = b) =>
        /\ procs \cap after.paused \subseteq procs \cap rt.paused
        /\ procs \cap Changed(after) \subseteq procs \cap Changed(rt)
  BY DEF RuntimeState, Changed
<1>3. ASSUME NEW i \in DOMAIN list, list[i].type = "pause"
      PROVE  Undone(list, i, "restore_priority", list[i].procs \cap Changed(after))
  <2>1. Undone(list, i, "restore_priority", list[i].procs \cap Changed(rt))
    BY <1>3 DEF Prepared
  <2>2. \A p \in list[i].procs : AppOf[p] = b
    BY <1>3 DEF Prepared
  <2>. QED
    BY <1>1, <1>2, <2>1, <2>2
<1>4. ASSUME NEW i \in DOMAIN list, list[i].type = "set_priority"
      PROVE  Undone(list, i, "resume", list[i].procs \cap after.paused)
  <2>1. Undone(list, i, "resume", list[i].procs \cap rt.paused)
    BY <1>4 DEF Prepared
  <2>2. \A p \in list[i].procs : AppOf[p] = b
    BY <1>4 DEF Prepared
  <2>. QED
    BY <1>1, <1>2, <2>1, <2>2
<1>5. ASSUME requested # {}
      PROVE  /\ Undoes(list, "resume", requested \cap after.paused)
             /\ Undoes(list, "restore_priority", requested \cap Changed(after))
  <2>1. \A p \in requested : AppOf[p] = b
    BY DEF Prepared
  <2>2. /\ Undoes(list, "resume", requested \cap rt.paused)
        /\ Undoes(list, "restore_priority", requested \cap Changed(rt))
    BY <1>5 DEF Prepared
  <2>3. /\ requested \cap after.paused \subseteq requested \cap rt.paused
        /\ requested \cap Changed(after) \subseteq requested \cap Changed(rt)
    BY <1>2, <2>1
  <2>. QED
    BY <1>1, <2>2, <2>3 DEF Undoes
<1>. QED
  BY <1>3, <1>4, <1>5 DEF Prepared

-----------------------------------------------------------------------------
(* Evaluate plans prepared lists.                                          *)

(* cpuLimitRequests, for one list.                                         *)
Requested(list, group) == IF Has(list, "limit_cpu") THEN group ELSE {}

LEMMA RestoringIsPrepared ==
  ASSUME NEW a \in Apps, NEW list \in Seq(Actions), NEW rt \in RuntimeState,
         NEW group, Restoring(list)
  PROVE  Prepared(a, list, rt, Requested(list, group))
<1>1. ~Has(list, "limit_cpu")
  BY DEF Has, Restoring
<1>2. Requested(list, group) = {}
  BY <1>1 DEF Requested
<1>3. \A i \in DOMAIN list : list[i].type \notin {"pause", "set_priority"}
  BY DEF Restoring
<1>. QED
  BY <1>2, <1>3 DEF Prepared

(* A list x that takes back, followed by a list y that applies a rule.     *)
LEMMA PauseIsPrepared ==
  ASSUME NEW a \in Apps, NEW x \in Seq(Actions), NEW y \in Seq(Actions),
         NEW rt \in RuntimeState, NEW group, \A p \in group : AppOf[p] = a,
         Restoring(x), Undoes(x, "restore_priority", group \cap Changed(rt)),
         \A j \in DOMAIN y : /\ y[j].type \notin {"set_priority", "limit_cpu"}
                             /\ y[j].type = "pause" => y[j].procs = group
  PROVE  Prepared(a, x \o y, rt, Requested(x \o y, group))
<1>. DEFINE list == x \o y
<1>1. \A i \in DOMAIN list :
        /\ list[i].type \notin {"set_priority", "limit_cpu"}
        /\ list[i].type = "pause" => list[i].procs = group /\ i > Len(x)
  <2>1. \A i \in DOMAIN list :
          \/ i \in DOMAIN x /\ list[i] = x[i]
          \/ i > Len(x) /\ \E j \in DOMAIN y : list[i] = y[j]
    BY Parts
  <2>2. \A i \in DOMAIN x :
          x[i].type \notin {"set_priority", "limit_cpu", "pause"}
    BY DEF Restoring
  <2> HIDE DEF list
  <2>. QED
    BY <2>1, <2>2
<1>2. \A i \in DOMAIN list : i \in Nat
  OBVIOUS
<1>3. \A n \in Nat : n > Len(x) =>
        Undone(list, n, "restore_priority", group \cap Changed(rt))
  BY UndoneByParts
<1>. HIDE DEF list
<1>4. ~Has(list, "set_priority") /\ ~Has(list, "limit_cpu")
  BY <1>1 DEF Has
<1>5. Requested(list, group) = {}
  BY <1>4 DEF Requested
<1>6. ASSUME NEW i \in DOMAIN list, list[i].type = "pause"
      PROVE  Undone(list, i, "restore_priority", list[i].procs \cap Changed(rt))
  BY <1>1, <1>2, <1>3, <1>6
<1>7. \A i \in DOMAIN list : list[i].type \in {"pause", "set_priority"} =>
        \A p \in list[i].procs : AppOf[p] = a
  BY <1>1
<1>8. \A i \in DOMAIN list : list[i].type # "set_priority"
  BY <1>1
<1>9. Prepared(a, list, rt, Requested(list, group))
  BY <1>4, <1>5, <1>6, <1>7, <1>8 DEF Prepared
<1>. QED
  BY <1>9 DEF list

LEMMA PriorityIsPrepared ==
  ASSUME NEW a \in Apps, NEW x \in Seq(Actions), NEW y \in Seq(Actions),
         NEW rt \in RuntimeState, NEW group, \A p \in group : AppOf[p] = a,
         Restoring(x), Undoes(x, "resume", group \cap rt.paused),
         \A j \in DOMAIN y : y[j].type = "set_priority" /\ y[j].procs = group
  PROVE  Prepared(a, x \o y, rt, Requested(x \o y, group))
<1>. DEFINE list == x \o y
<1>1. \A i \in DOMAIN list :
        /\ list[i].type \notin {"pause", "limit_cpu"}
        /\ list[i].type = "set_priority" => list[i].procs = group /\ i > Len(x)
  <2>1. \A i \in DOMAIN list :
          \/ i \in DOMAIN x /\ list[i] = x[i]
          \/ i > Len(x) /\ \E j \in DOMAIN y : list[i] = y[j]
    BY Parts
  <2>2. \A i \in DOMAIN x : x[i].type \in {"resume", "restore_priority", "activate"}
    BY DEF Restoring
  <2>. HIDE DEF list
  <2>. QED
    BY <2>1, <2>2
<1>2. \A i \in DOMAIN list : i \in Nat
  OBVIOUS
<1>3. \A n \in Nat : n > Len(x) => Undone(list, n, "resume", group \cap rt.paused)
  BY UndoneByParts
<1>. HIDE DEF list
<1>4. ~Has(list, "pause") /\ ~Has(list, "limit_cpu")
  BY <1>1 DEF Has
<1>5. Requested(list, group) = {}
  BY <1>4 DEF Requested
<1>6. ASSUME NEW i \in DOMAIN list, list[i].type = "set_priority"
      PROVE  Undone(list, i, "resume", list[i].procs \cap rt.paused)
  BY <1>1, <1>2, <1>3, <1>6
<1>7. \A i \in DOMAIN list : list[i].type \in {"pause", "set_priority"} =>
        \A p \in list[i].procs : AppOf[p] = a
  BY <1>1
<1>8. \A i \in DOMAIN list : list[i].type # "pause"
  BY <1>1
<1>9. Prepared(a, list, rt, Requested(list, group))
  BY <1>4, <1>5, <1>6, <1>7, <1>8 DEF Prepared
<1>. QED
  BY <1>9 DEF list

LEMMA LimitIsPrepared ==
  ASSUME NEW a \in Apps, NEW x \in Seq(Actions), NEW y \in Seq(Actions),
         NEW rt \in RuntimeState, NEW group, \A p \in group : AppOf[p] = a,
         Restoring(x), Undoes(x, "resume", group \cap rt.paused),
         Undoes(x, "restore_priority", group \cap Changed(rt)),
         \A j \in DOMAIN y : y[j].type = "limit_cpu"
  PROVE  Prepared(a, x \o y, rt, Requested(x \o y, group))
<1>. DEFINE list == x \o y
<1>1. \A i \in DOMAIN list : list[i].type \notin {"pause", "set_priority"}
  <2>1. \A i \in DOMAIN list :
          \/ i \in DOMAIN x /\ list[i] = x[i]
          \/ i > Len(x) /\ \E j \in DOMAIN y : list[i] = y[j]
    BY Parts
  <2>2. \A i \in DOMAIN x : x[i].type \in {"resume", "restore_priority", "activate"}
    BY DEF Restoring
  <2>. HIDE DEF list
  <2>. QED
    BY <2>1, <2>2
<1>2. /\ Undoes(list, "resume", group \cap rt.paused)
      /\ Undoes(list, "restore_priority", group \cap Changed(rt))
  BY UndoneByParts
<1>. HIDE DEF list
<1>3. Requested(list, group) \in {{}, group}
  BY DEF Requested
<1>4. ~Has(list, "pause") /\ ~Has(list, "set_priority")
  BY <1>1 DEF Has
<1>5. Prepared(a, list, rt, group) /\ Prepared(a, list, rt, {})
  BY <1>1, <1>2, <1>4 DEF Prepared
<1>. QED
  BY <1>3, <1>5 DEF list

(* The three lists that take back what is recorded.                        *)
LEMMA RestoringLists ==
  ASSUME NEW a \in Apps, NEW group \in SUBSET Procs, NEW rt \in RuntimeState
  PROVE  /\ Restoring(<<>>)
         /\ Restoring(RestorePauses(a, group, rt))
         /\ Restoring(RestorePriority(a, group, rt))
         /\ Restoring(RestoreHidden(a, rt))
         /\ Undoes(RestorePauses(a, group, rt), "resume", group \cap rt.paused)
         /\ Undoes(RestorePriority(a, group, rt), "restore_priority",
                   group \cap Changed(rt))
<1>1. /\ Restoring(<<>>)
      /\ Restoring(RestorePauses(a, group, rt))
      /\ Restoring(RestorePriority(a, group, rt))
      /\ Restoring(RestoreHidden(a, rt))
  BY DEF Restoring, RestorePauses, RestorePriority, RestoreHidden, If, Action
<1>2. Undoes(RestorePauses(a, group, rt), "resume", group \cap rt.paused)
  BY DEF Undoes, Undone, RestorePauses, If, Action
<1>3. Undoes(RestorePriority(a, group, rt), "restore_priority",
             group \cap Changed(rt))
  BY DEF Undoes, Undone, RestorePriority, If, Action
<1>. QED
  BY <1>1, <1>2, <1>3

LEMMA RestoreGroupUndoes ==
  ASSUME NEW a \in Apps, NEW group \in SUBSET Procs, NEW rt \in RuntimeState
  PROVE  LET list == RestoreGroup(a, group, rt)
             pair == RestorePauses(a, group, rt) \o RestorePriority(a, group, rt)
         IN /\ list \in Seq(Actions) /\ Restoring(list)
            /\ Undoes(list, "resume", group \cap rt.paused)
            /\ Undoes(list, "restore_priority", group \cap Changed(rt))
            /\ pair \in Seq(Actions) /\ Restoring(pair)
            /\ Undoes(pair, "resume", group \cap rt.paused)
            /\ Undoes(pair, "restore_priority", group \cap Changed(rt))
<1>. DEFINE first == RestorePauses(a, group, rt)
            second == RestorePriority(a, group, rt)
            third == RestoreHidden(a, rt)
            pair == first \o second
<1>1. /\ first \in Seq(Actions) /\ second \in Seq(Actions) /\ third \in Seq(Actions)
      /\ RestoreGroup(a, group, rt) = pair \o third
  BY RestoreTypes DEF RestoreGroup
<1>2. /\ Restoring(first) /\ Restoring(second) /\ Restoring(third)
      /\ Undoes(first, "resume", group \cap rt.paused)
      /\ Undoes(second, "restore_priority", group \cap Changed(rt))
  BY RestoringLists
<1>. HIDE DEF first, second, third
<1>3. /\ pair \in Seq(Actions) /\ Restoring(pair)
      /\ Undoes(pair, "resume", group \cap rt.paused)
      /\ Undoes(pair, "restore_priority", group \cap Changed(rt))
  BY <1>1, <1>2, Parts, RestoringParts, UndoneByParts
<1>4. first \o second = pair
  OBVIOUS
<1>. HIDE DEF pair
<1>5. /\ pair \o third \in Seq(Actions) /\ Restoring(pair \o third)
      /\ Undoes(pair \o third, "resume", group \cap rt.paused)
      /\ Undoes(pair \o third, "restore_priority", group \cap Changed(rt))
  BY <1>1, <1>2, <1>3, Parts, RestoringParts, UndoneByParts
<1>. QED
  BY <1>1, <1>3, <1>4, <1>5 DEF first, second

(* The parts of a rule's list: x takes back what the two other kinds of    *)
(* rules did, and y applies the rule.                                      *)
Suits(x, y, group, rt) ==
  \/ /\ Undoes(x, "restore_priority", group \cap Changed(rt))
     /\ \A j \in DOMAIN y : /\ y[j].type \notin {"set_priority", "limit_cpu"}
                            /\ y[j].type = "pause" => y[j].procs = group
  \/ /\ Undoes(x, "resume", group \cap rt.paused)
     /\ \A j \in DOMAIN y : y[j].type = "set_priority" /\ y[j].procs = group
  \/ /\ Undoes(x, "resume", group \cap rt.paused)
     /\ Undoes(x, "restore_priority", group \cap Changed(rt))
     /\ \A j \in DOMAIN y : y[j].type = "limit_cpu"

Suited(list, group, rt) ==
  \E x \in Seq(Actions), y \in Seq(Actions) :
    list = x \o y /\ Restoring(x) /\ Suits(x, y, group, rt)

LEMMA SuitedIsPrepared ==
  ASSUME NEW a \in Apps, NEW w \in Seq(Actions), NEW x \in Seq(Actions),
         NEW y \in Seq(Actions), NEW rt \in RuntimeState, NEW group,
         \A p \in group : AppOf[p] = a,
         Restoring(w), Restoring(x), Suits(x, y, group, rt)
  PROVE  LET list == w \o (x \o y)
         IN Prepared(a, list, rt, Requested(list, group))
<1>. DEFINE first == w \o x
<1>1. first \in Seq(Actions) /\ Restoring(first)
  BY RestoringParts
<1>2. w \o (x \o y) = first \o y
  OBVIOUS
<1>3. \A type, procs : Undoes(x, type, procs) => Undoes(first, type, procs)
  BY UndoneByParts
<1>. HIDE DEF first
<1>4. Suits(first, y, group, rt)
  BY <1>3 DEF Suits
<1>5. Prepared(a, first \o y, rt, Requested(first \o y, group))
  BY <1>1, <1>4, PauseIsPrepared, PriorityIsPrepared, LimitIsPrepared DEF Suits
<1>. QED
  BY <1>2, <1>5

LEMMA ApplySuits ==
  ASSUME NEW a \in Apps, NEW rule \in Rule, NEW group \in SUBSET Procs,
         NEW rt \in RuntimeState, NEW in,
         rule.mode \in {"pause", "priority", "limit", "hide", "quit"}
  PROVE  Suited(Apply(a, rule, group, rt, in), group, rt)
<1>. DEFINE pauses == RestorePauses(a, group, rt)
            priorities == RestorePriority(a, group, rt)
            hidden == RestoreHidden(a, rt)
            all == RestoreGroup(a, group, rt)
<1>1. /\ pauses \in Seq(Actions) /\ priorities \in Seq(Actions)
      /\ hidden \in Seq(Actions)
  BY RestoreTypes
<1>2. /\ Restoring(pauses) /\ Restoring(priorities) /\ Restoring(hidden)
      /\ Undoes(pauses, "resume", group \cap rt.paused)
      /\ Undoes(priorities, "restore_priority", group \cap Changed(rt))
  BY RestoringLists
<1>3. /\ all \in Seq(Actions) /\ Restoring(all)
      /\ Undoes(all, "resume", group \cap rt.paused)
      /\ Undoes(all, "restore_priority", group \cap Changed(rt))
      /\ pauses \o priorities \in Seq(Actions) /\ Restoring(pauses \o priorities)
      /\ Undoes(pauses \o priorities, "restore_priority", group \cap Changed(rt))
  BY RestoreGroupUndoes
<1>4. \A type \in ActionTypes : Action(type, a, group) \in Actions
  BY ActionType
<1>5. CASE rule.mode = "pause"
  <2>. DEFINE y == IF group \subseteq rt.paused
                   THEN If(rule.wakes /\ a \in in.wakeDue,
                           Action("wake_briefly", a, group))
                   ELSE <<Action("pause", a, group)>>
                          \o If(rule.hideWhenStopped,
                                Action("hide_when_stopped", a, group))
  <2>1. /\ If(rule.wakes /\ a \in in.wakeDue, Action("wake_briefly", a, group)) \in Seq(Actions)
        /\ If(rule.hideWhenStopped, Action("hide_when_stopped", a, group)) \in Seq(Actions)
        /\ <<Action("pause", a, group)>> \in Seq(Actions)
    BY <1>4, IfType, SingleType DEF Rule, ActionTypes
  <2>2. y \in Seq(Actions)
    BY <2>1
  <2>3. \A j \in DOMAIN y : /\ y[j].type \notin {"set_priority", "limit_cpu"}
                            /\ y[j].type = "pause" => y[j].procs = group
    <3>1. CASE group \subseteq rt.paused
      BY <3>1 DEF If, Action
    <3>2. CASE ~(group \subseteq rt.paused)
      BY <3>2 DEF If, Action
    <3>. QED
      BY <3>1, <3>2
  <2>4. Apply(a, rule, group, rt, in) = priorities \o y
    BY <1>5 DEF Apply
  <2>. HIDE DEF y, priorities
  <2>. QED
    BY <1>1, <1>2, <2>2, <2>3, <2>4 DEF Suits, Suited
<1>6. CASE rule.mode = "priority"
  <2>. DEFINE lowered == [Action("set_priority", a, group) EXCEPT !.nice = rule.nice]
              y == If(\E p \in group : rt.changes[p].target # rule.nice, lowered)
              x == pauses \o hidden
  <2>1. lowered \in Actions
    BY <1>4 DEF Actions, Rule, ActionTypes
  <2>2. lowered.type = "set_priority" /\ lowered.procs = group
    BY DEF Action
  <2>3. y \in Seq(Actions)
    BY <2>1, IfType
  <2>. HIDE DEF lowered
  <2>4. \A j \in DOMAIN y : y[j].type = "set_priority" /\ y[j].procs = group
    BY <2>2 DEF If
  <2>5. Apply(a, rule, group, rt, in) = x \o y
    BY <1>6 DEF Apply, lowered
  <2>. HIDE DEF y, pauses, hidden
  <2>6. /\ x \in Seq(Actions) /\ Restoring(x)
        /\ Undoes(x, "resume", group \cap rt.paused)
    BY <1>1, <1>2, Parts, RestoringParts, UndoneByParts
  <2>. HIDE DEF x
  <2>. QED
    BY <2>3, <2>4, <2>5, <2>6 DEF Suits, Suited
<1>7. CASE rule.mode = "limit"
  <2>. DEFINE y == If(a \in in.overLimit, Action("limit_cpu", a, group))
  <2>1. y \in Seq(Actions)
    BY <1>4, IfType DEF ActionTypes
  <2>2. \A j \in DOMAIN y : y[j].type = "limit_cpu"
    BY DEF If, Action
  <2>3. Apply(a, rule, group, rt, in) = all \o y
    BY <1>7 DEF Apply
  <2>. HIDE DEF y, all
  <2>. QED
    BY <1>3, <2>1, <2>2, <2>3 DEF Suits, Suited
<1>8. CASE rule.mode \in {"hide", "quit"}
  <2>. DEFINE y == <<Action(rule.mode, a, group)>>
              x == IF rule.mode = "hide" THEN pauses \o priorities ELSE all
  <2>1. y \in Seq(Actions)
    BY <1>4, <1>8, SingleType DEF ActionTypes
  <2>2. \A j \in DOMAIN y : y[j].type \in {"hide", "quit"}
    BY <1>8 DEF Action
  <2>3. Apply(a, rule, group, rt, in) = x \o y
    BY <1>8 DEF Apply
  <2>4. x \in Seq(Actions) /\ Restoring(x)
        /\ Undoes(x, "restore_priority", group \cap Changed(rt))
    BY <1>3
  <2>. HIDE DEF x, y
  <2>. QED
    BY <2>1, <2>2, <2>3, <2>4 DEF Suits, Suited
<1>. QED
  BY <1>5, <1>6, <1>7, <1>8

LEMMA PlanGroupIsPrepared ==
  ASSUME NEW a \in Apps, NEW rt \in RuntimeState, NEW in,
         in.rules \in [Apps -> Rule], in.groups[a] \in SUBSET Procs,
         \A p \in in.groups[a] : AppOf[p] = a
  PROVE  Prepared(a, PlanGroup(a, rt, in), rt,
                  Requested(PlanGroup(a, rt, in), in.groups[a]))
<1>. DEFINE rule == in.rules[a]
            group == in.groups[a]
            foreground == in.front = a
            front == IF foreground
                     THEN RestoreForeground(a, group, rt,
                            RestoresPriorityInForeground(rule))
                     ELSE <<>>
            list == PlanGroup(a, rt, in)
<1>1. rule \in Rule /\ group \in SUBSET Procs
  OBVIOUS
<1>2. /\ RestoreGroup(a, group, rt) \in Seq(Actions)
      /\ Restoring(RestoreGroup(a, group, rt))
      /\ RestorePauses(a, group, rt) \o RestorePriority(a, group, rt) \in Seq(Actions)
      /\ Restoring(RestorePauses(a, group, rt) \o RestorePriority(a, group, rt))
  BY <1>1, RestoreGroupUndoes
<1>3. /\ RestorePauses(a, group, rt) \o <<>> \in Seq(Actions)
      /\ Restoring(RestorePauses(a, group, rt) \o <<>>)
      /\ <<>> \in Seq(Actions) /\ Restoring(<<>>)
  <2>1. /\ RestorePauses(a, group, rt) \in Seq(Actions)
        /\ Restoring(RestorePauses(a, group, rt))
    BY <1>1, RestoreTypes, RestoringLists
  <2>2. <<>> \in Seq(Actions) /\ Restoring(<<>>)
    BY DEF Restoring
  <2>. QED
    BY <2>1, <2>2, Parts, RestoringParts
<1>4. front \in Seq(Actions) /\ Restoring(front)
  BY <1>2, <1>3 DEF RestoreForeground
<1>5. ASSUME list \in Seq(Actions), Restoring(list)
      PROVE  Prepared(a, list, rt, Requested(list, group))
  BY <1>5, RestoringIsPrepared
<1>6. CASE foreground /\ ~AppliesInForeground(rule)
  <2>1. list = RestorePauses(a, group, rt) \o RestorePriority(a, group, rt)
    BY <1>6 DEF PlanGroup, RestoreForeground
  <2>. HIDE DEF list
  <2>. QED
    BY <1>2, <1>5, <2>1 DEF list
<1>7. CASE rule.mode \in {"none", "observe"} /\ ~foreground
  <2>1. list = RestoreGroup(a, group, rt)
    BY <1>7 DEF PlanGroup
  <2>. HIDE DEF list
  <2>. QED
    BY <1>2, <1>5, <2>1 DEF list
<1>8. CASE ~(foreground /\ ~AppliesInForeground(rule))
           /\ ~(rule.mode \in {"none", "observe"} /\ ~foreground)
  <2>1. rule.mode \in {"pause", "priority", "limit", "hide", "quit"}
    BY <1>1, <1>8 DEF AppliesInForeground, Rule, Modes
  <2>2. list = front \o (IF Barred(a, rule, in) THEN <<>>
                         ELSE Apply(a, rule, group, rt, in))
    BY <1>8 DEF PlanGroup
  <2>3. CASE Barred(a, rule, in)
    <3>1. list = front \o <<>>
      BY <2>2, <2>3
    <3>. HIDE DEF list, front
    <3>2. list \in Seq(Actions) /\ Restoring(list)
      BY <1>3, <1>4, <3>1, Parts, RestoringParts
    <3>. QED
      BY <1>5, <3>2 DEF list
  <2>4. CASE ~Barred(a, rule, in)
    <3>1. list = front \o Apply(a, rule, group, rt, in)
      BY <2>2, <2>4
    <3>. HIDE DEF list, front, rule, group
    <3>2. Suited(Apply(a, rule, group, rt, in), group, rt)
      BY <1>1, <2>1, ApplySuits
    <3>3. PICK x \in Seq(Actions), y \in Seq(Actions) :
            /\ Apply(a, rule, group, rt, in) = x \o y
            /\ Restoring(x) /\ Suits(x, y, group, rt)
      BY <3>2 DEF Suited
    <3>4. list = front \o (x \o y)
      BY <3>1, <3>3
    <3>5. Prepared(a, front \o (x \o y), rt, Requested(front \o (x \o y), group))
      BY <1>1, <1>4, <3>3, SuitedIsPrepared DEF group
    <3>. QED
      BY <3>4, <3>5 DEF list, group
  <2>. QED
    BY <2>3, <2>4
<1>. QED
  BY <1>6, <1>7, <1>8

LEMMA PlanIsPrepared ==
  ASSUME NEW rt \in RuntimeState, NEW in,
         in.rules \in [Apps -> Rule], in.groups \in [Apps -> SUBSET Procs],
         \A a \in Apps : \A p \in in.groups[a] : AppOf[p] = a,
         NEW a \in Apps
  PROVE  Prepared(a, Plan(rt, in)[a], rt,
                  LimitRequests(Plan(rt, in), in.groups)[a])
<1>. DEFINE list == Plan(rt, in)[a]
            group == in.groups[a]
<1>1. LimitRequests(Plan(rt, in), in.groups)[a] = Requested(list, group)
  BY DEF LimitRequests, Requested, Has
<1>2. list = IF ~in.management \/ in.policy = "restore" THEN RestoreAll(a, rt)
             ELSE IF group = {} THEN <<>> ELSE PlanGroup(a, rt, in)
  BY DEF Plan
<1>3. RestoreAll(a, rt) \in Seq(Actions) /\ Restoring(RestoreAll(a, rt))
  BY RestoreGroupUndoes DEF RestoreAll
<1>4. <<>> \in Seq(Actions) /\ Restoring(<<>>)
  BY DEF Restoring
<1>5. Prepared(a, PlanGroup(a, rt, in), rt, Requested(PlanGroup(a, rt, in), group))
  BY PlanGroupIsPrepared
<1>. HIDE DEF list
<1>6. Prepared(a, list, rt, Requested(list, group))
  BY <1>2, <1>3, <1>4, <1>5, RestoringIsPrepared
<1>. QED
  BY <1>1, <1>6 DEF list

-----------------------------------------------------------------------------
(* The inductive invariant.                                                *)

Free(rt) == Limited \cap (rt.paused \cup Changed(rt)) = {}

RecordsDisjoint == Disjoint(disk) /\ Disjoint(runtime) /\ Disjoint(refresh.runtime)

ShutdownRestores == \A a \in Apps : Restoring(restoring[a])

OffIsEmpty == program = "off" => limited = Nothing /\ refresh.at = "idle"

PlanPrepared ==
  refresh.at = "execute" =>
    \A a \in Apps :
      Prepared(a, refresh.plan[a], refresh.runtime, refresh.requests[a])

LimitedFree == /\ refresh.at = "idle" => Free(runtime)
               /\ refresh.at = "commit" => Free(refresh.runtime)

ControlInv == /\ TypeOK
              /\ RecordsDisjoint
              /\ ShutdownRestores
              /\ OffIsEmpty
              /\ PlanPrepared
              /\ LimitedFree

LEMMA EmptyDisjoint == Disjoint(EmptyRuntime)
BY DEF Disjoint, EmptyRuntime

LEMMA InitControlInv == Init => ControlInv
<1> SUFFICES ASSUME Init PROVE ControlInv
  OBVIOUS
<1>1. Limited = {}
  BY DEF Init, Limited, Nothing
<1>2. /\ runtime = EmptyRuntime /\ disk = EmptyRuntime
      /\ refresh = IdleRefresh /\ refresh.runtime = EmptyRuntime
      /\ refresh.at = "idle" /\ program = "on"
  BY DEF Init, IdleRefresh
<1>3. ShutdownRestores
  BY DEF Init, ShutdownRestores, Restoring, NoPlan
<1>. QED
  BY <1>1, <1>2, <1>3, InitType, EmptyDisjoint
     DEF ControlInv, RecordsDisjoint, OffIsEmpty, PlanPrepared, LimitedFree, Free

LEMMA BeginKeepsControl == ControlInv /\ BeginRefresh => ControlInv'
<1> SUFFICES ASSUME ControlInv, BeginRefresh PROVE ControlInv'
  OBVIOUS
<1>1. TypeOK'
  BY RefreshKeepsTypes DEF ControlInv, Refresh
<1>2. refresh'.at = "observe" /\ refresh'.runtime = runtime
  BY DEF BeginRefresh, ControlInv, TypeOK, RefreshState
<1>3. program # "off"
  BY DEF BeginRefresh
<1>. QED
  BY <1>1, <1>2, <1>3 DEF BeginRefresh, outside, ControlInv, RecordsDisjoint,
       ShutdownRestores, OffIsEmpty, PlanPrepared, LimitedFree

LEMMA ObserveKeepsControl == ControlInv /\ Observe => ControlInv'
<1> SUFFICES ASSUME ControlInv, Observe PROVE ControlInv'
  OBVIOUS
<1>1. TypeOK'
  BY RefreshKeepsTypes DEF ControlInv, Refresh
<1>2. PICK policy \in {"open", "block", "restore"}, audio \in BOOLEAN,
           settling \in SUBSET Apps,
           wakeDue \in SUBSET {a \in Apps : refresh.rules[a].wakes},
           overLimit \in SUBSET {a \in Apps : refresh.rules[a].mode = "limit"} :
        LET in == [management |-> refresh.management,
                   rules |-> refresh.rules,
                   groups |-> [a \in Apps |-> Group(a)],
                   front |-> FrontmostApp(refresh.rules, os.front),
                   policy |-> policy, audio |-> audio, settling |-> settling,
                   wakeDue |-> wakeDue, overLimit |-> overLimit]
            plan == Plan(refresh.runtime, in)
        IN refresh' = [refresh EXCEPT
                         !.at = "execute",
                         !.plan = plan,
                         !.requests = LimitRequests(plan, in.groups),
                         !.save = SavesImmediately(plan)]
  BY DEF Observe
<1>. DEFINE in == [management |-> refresh.management,
                   rules |-> refresh.rules,
                   groups |-> [a \in Apps |-> Group(a)],
                   front |-> FrontmostApp(refresh.rules, os.front),
                   policy |-> policy, audio |-> audio, settling |-> settling,
                   wakeDue |-> wakeDue, overLimit |-> overLimit]
            plan == Plan(refresh.runtime, in)
            requests == LimitRequests(plan, in.groups)
<1>3. refresh' = [refresh EXCEPT !.at = "execute", !.plan = plan,
                                 !.requests = requests,
                                 !.save = SavesImmediately(plan)]
  BY <1>2
<1>4. /\ in.groups \in [Apps -> SUBSET Procs]
      /\ \A a \in Apps : \A p \in in.groups[a] : AppOf[p] = a
  BY DEF Group, ControlInv, TypeOK, Machine
<1>5. in.rules \in [Apps -> Rule] /\ refresh.runtime \in RuntimeState
  BY RuleChoicesAssumption, NoRuleType DEF ControlInv, TypeOK, RefreshState
<1>. HIDE DEF in
<1>6. \A a \in Apps : Prepared(a, plan[a], refresh.runtime, requests[a])
  BY <1>4, <1>5, PlanIsPrepared
<1>. HIDE DEF plan, requests
<1>7. /\ refresh'.at = "execute" /\ refresh'.plan = plan
      /\ refresh'.requests = requests /\ refresh'.runtime = refresh.runtime
  BY <1>3 DEF ControlInv, TypeOK, RefreshState
<1>8. /\ disk' = disk /\ runtime' = runtime /\ restoring' = restoring
      /\ limited' = limited /\ program' = program /\ program # "off"
  BY DEF Observe, outside
<1>. QED
  BY <1>1, <1>6, <1>7, <1>8 DEF ControlInv, RecordsDisjoint,
       ShutdownRestores, OffIsEmpty, PlanPrepared, LimitedFree

LEMMA ExecuteKeepsControl ==
  ASSUME ControlInv, NEW a \in Apps, ExecuteAction(a)
  PROVE  ControlInv'
<1>. DEFINE s == [os |-> os, rt |-> refresh.runtime]
            list == refresh.plan[a]
            head == Head(list)
            after == Execute(s, head)
<1>1. TypeOK'
  BY RefreshKeepsTypes DEF ControlInv, Refresh
<1>2. /\ refresh.at = "execute" /\ program # "off"
      /\ os' = after.os
      /\ refresh' = [refresh EXCEPT !.runtime = after.rt, !.plan[a] = Tail(@)]
      /\ disk' = disk /\ runtime' = runtime /\ restoring' = restoring
      /\ limited' = limited /\ program' = program
      /\ list # <<>>
  BY DEF ExecuteAction
<1>3. /\ s \in Pair /\ s.rt = refresh.runtime
      /\ refresh.plan \in [Apps -> Seq(Actions)]
      /\ list \in Seq(Actions) /\ head \in Actions
      /\ refresh.runtime \in RuntimeState
  BY <1>2 DEF ControlInv, TypeOK, RefreshState, Plans, Pair
<1>4. after.rt \in RuntimeState
  BY <1>3, ExecuteKeeps DEF Recorded, Pair
<1>5. /\ after.rt.paused \subseteq
           refresh.runtime.paused \cup (IF head.type = "pause" THEN head.procs ELSE {})
      /\ Changed(after.rt) \subseteq
           Changed(refresh.runtime) \cup
             (IF head.type = "set_priority" THEN head.procs ELSE {})
      /\ head.type = "resume" => after.rt.paused \cap head.procs = {}
      /\ head.type = "restore_priority" => Changed(after.rt) \cap head.procs = {}
  BY <1>3, ActionControls
<1>6. \A b \in Apps : Prepared(b, refresh.plan[b], refresh.runtime, refresh.requests[b])
  BY <1>2 DEF ControlInv, PlanPrepared
<1>7. Disjoint(refresh.runtime)
  BY DEF ControlInv, RecordsDisjoint
<1>. HIDE DEF s, after
<1>8. /\ refresh'.at = "execute" /\ refresh'.runtime = after.rt
      /\ refresh'.requests = refresh.requests
      /\ refresh'.plan[a] = Tail(list)
      /\ \A b \in Apps \ {a} : refresh'.plan[b] = refresh.plan[b]
  BY <1>2, <1>3 DEF ControlInv, TypeOK, RefreshState
<1>9. /\ Disjoint(after.rt)
      /\ Prepared(a, Tail(list), after.rt, refresh.requests[a])
  <2>. DEFINE rt == refresh.runtime
              left == after.rt
  <2>1. rt \in RuntimeState /\ left \in RuntimeState /\ Disjoint(rt)
        /\ Prepared(a, list, rt, refresh.requests[a])
    BY <1>3, <1>4, <1>6, <1>7
  <2>2. /\ left.paused \subseteq
             rt.paused \cup (IF head.type = "pause" THEN head.procs ELSE {})
        /\ Changed(left) \subseteq
             Changed(rt) \cup (IF head.type = "set_priority" THEN head.procs ELSE {})
        /\ head.type = "resume" => left.paused \cap head.procs = {}
        /\ head.type = "restore_priority" => Changed(left) \cap head.procs = {}
    BY <1>5
  <2>. HIDE DEF rt, left
  <2>3. Disjoint(left) /\ Prepared(a, Tail(list), left, refresh.requests[a])
    BY <1>2, <1>3, <2>1, <2>2, NextIsPrepared
  <2>. QED
    BY <2>3 DEF left
<1>10. head.type \in {"pause", "set_priority"} =>
         \A p \in head.procs : AppOf[p] = a
  <2>1. 1 \in DOMAIN list /\ head = list[1]
    BY <1>2, <1>3
  <2>2. Prepared(a, list, refresh.runtime, refresh.requests[a])
    BY <1>6
  <2>. HIDE DEF list, head
  <2>. QED
    BY <2>1, <2>2 DEF Prepared
<1>. HIDE DEF head, list
<1>11. ASSUME NEW b \in Apps, b # a
       PROVE  Prepared(b, refresh.plan[b], after.rt, refresh.requests[b])
  <2>1. \A p \in Procs : AppOf[p] = b =>
          /\ p \in after.rt.paused => p \in refresh.runtime.paused
          /\ p \in Changed(after.rt) => p \in Changed(refresh.runtime)
    BY <1>5, <1>10, <1>11
  <2>. QED
    BY <1>3, <1>4, <1>6, <1>11, <2>1, OthersStayPrepared
<1>12. PlanPrepared'
  BY <1>8, <1>9, <1>11 DEF PlanPrepared
<1>13. RecordsDisjoint'
  BY <1>2, <1>8, <1>9 DEF ControlInv, RecordsDisjoint
<1>. QED
  BY <1>1, <1>2, <1>8, <1>12, <1>13
     DEF ControlInv, ShutdownRestores, OffIsEmpty, LimitedFree

LEMMA UpdateKeepsControl == ControlInv /\ UpdateLimiter => ControlInv'
<1> SUFFICES ASSUME ControlInv, UpdateLimiter PROVE ControlInv'
  OBVIOUS
<1>1. TypeOK'
  BY RefreshKeepsTypes DEF ControlInv, Refresh
<1>2. /\ refresh.at = "execute" /\ refresh.plan = NoPlan /\ program # "off"
      /\ limited' = refresh.requests
      /\ refresh' = [refresh EXCEPT !.at = "commit"]
      /\ disk' = disk /\ runtime' = runtime /\ restoring' = restoring
      /\ program' = program
  BY DEF UpdateLimiter
<1>3. refresh'.at = "commit" /\ refresh'.runtime = refresh.runtime
  BY <1>2 DEF ControlInv, TypeOK, RefreshState
<1>4. ASSUME NEW a \in Apps
      PROVE  refresh.requests[a] \cap (refresh.runtime.paused \cup
                                       Changed(refresh.runtime)) = {}
  <2>1. Prepared(a, <<>>, refresh.runtime, refresh.requests[a])
    BY <1>2 DEF ControlInv, PlanPrepared, NoPlan
  <2>2. DOMAIN <<>> = {}
    OBVIOUS
  <2>3. CASE refresh.requests[a] # {}
    <3>1. /\ Undoes(<<>>, "resume", refresh.requests[a] \cap refresh.runtime.paused)
          /\ Undoes(<<>>, "restore_priority",
                    refresh.requests[a] \cap Changed(refresh.runtime))
      BY <2>1, <2>3 DEF Prepared
    <3>2. \A type, procs : Undoes(<<>>, type, procs) => procs = {}
      BY <2>2 DEF Undoes, Undone
    <3>3. /\ refresh.requests[a] \cap refresh.runtime.paused = {}
          /\ refresh.requests[a] \cap Changed(refresh.runtime) = {}
      BY <3>1, <3>2
    <3>. QED
      BY <3>3
  <2>. QED
    BY <2>3
<1>5. Free(refresh.runtime)'
  BY <1>2, <1>3, <1>4 DEF Free, Limited
<1>. QED
  BY <1>1, <1>2, <1>3, <1>5
     DEF ControlInv, RecordsDisjoint, ShutdownRestores, OffIsEmpty, PlanPrepared,
         LimitedFree

LEMMA CommitKeepsControl == ControlInv /\ Commit => ControlInv'
<1> SUFFICES ASSUME ControlInv, Commit PROVE ControlInv'
  OBVIOUS
<1>1. TypeOK'
  BY RefreshKeepsTypes DEF ControlInv, Refresh
<1>2. /\ refresh.at = "commit" /\ program # "off" /\ program' = program
      /\ runtime' = refresh.runtime
      /\ disk' = refresh.runtime \/ disk' = disk
      /\ refresh' = IdleRefresh
      /\ limited' = limited /\ restoring' = restoring
  BY DEF Commit, SaveRuntime
<1>3. refresh'.at = "idle" /\ refresh'.runtime = EmptyRuntime
  BY <1>2 DEF IdleRefresh
<1>. QED
  BY <1>1, <1>2, <1>3, EmptyDisjoint
     DEF ControlInv, RecordsDisjoint, ShutdownRestores, OffIsEmpty, PlanPrepared,
         LimitedFree, Free, Limited

LEMMA ShutdownKeepsControl == ControlInv /\ Shutdown => ControlInv'
<1> SUFFICES ASSUME ControlInv, Shutdown PROVE ControlInv'
  OBVIOUS
<1>1. TypeOK'
  BY StepKeepsTypes DEF ControlInv, Next, User
<1>2. /\ limited' = Nothing /\ program' = "restoring"
      /\ restoring' = [a \in Apps |-> RestoreAll(a, runtime)]
      /\ runtime' = runtime /\ refresh' = refresh /\ disk' = disk
  BY DEF Shutdown
<1>3. Limited' = {}
  BY <1>2 DEF Limited, Nothing
<1>4. \A a \in Apps : Restoring(RestoreAll(a, runtime))
  BY RestoreGroupUndoes DEF RestoreAll, ControlInv, TypeOK
<1>. QED
  BY <1>1, <1>2, <1>3, <1>4
     DEF ControlInv, RecordsDisjoint, ShutdownRestores, OffIsEmpty, PlanPrepared,
         LimitedFree, Free

LEMMA RestoreKeepsControl ==
  ASSUME ControlInv, NEW a \in Apps, RestoreAction(a)
  PROVE  ControlInv'
<1>. DEFINE s == [os |-> os, rt |-> runtime]
            list == restoring[a]
            head == Head(list)
            after == Execute(s, head)
<1>1. TypeOK'
  BY RestoreKeepsTypes DEF ControlInv
<1>2. /\ program = "restoring" /\ program' = program
      /\ list # <<>> /\ restoring' = [restoring EXCEPT ![a] = Tail(@)]
      /\ os' = after.os /\ runtime' = after.rt
      /\ refresh' = refresh /\ limited' = limited /\ disk' = disk
  BY DEF RestoreAction
<1>3. /\ s \in Pair /\ s.rt = runtime
      /\ restoring \in [Apps -> Seq(Actions)]
      /\ list \in Seq(Actions) /\ head \in Actions
      /\ 1 \in DOMAIN list /\ head = list[1]
  BY <1>2 DEF ControlInv, TypeOK, Plans, Pair
<1>4. head.type \notin {"pause", "set_priority"}
  BY <1>3 DEF ControlInv, ShutdownRestores, Restoring
<1>5. after.rt.paused \subseteq runtime.paused /\ Changed(after.rt) \subseteq Changed(runtime)
  BY <1>3, <1>4, ActionControls
<1>. HIDE DEF s, head, after
<1>6. /\ Disjoint(runtime)'
      /\ Free(runtime) => Free(runtime)'
  BY <1>2, <1>5 DEF ControlInv, RecordsDisjoint, Disjoint, Free, Limited
<1>7. ShutdownRestores'
  <2>1. \A i \in DOMAIN Tail(list) : /\ i + 1 \in DOMAIN list
                                     /\ Tail(list)[i] = list[i + 1]
    BY <1>2, <1>3
  <2>2. Restoring(Tail(list))
    BY <2>1 DEF ControlInv, ShutdownRestores, Restoring
  <2>3. /\ restoring'[a] = Tail(list)
        /\ \A b \in Apps \ {a} : restoring'[b] = restoring[b]
    BY <1>2, <1>3
  <2>. HIDE DEF list
  <2>. QED
    BY <2>2, <2>3 DEF ControlInv, ShutdownRestores
<1>. QED
  BY <1>1, <1>2, <1>6, <1>7
     DEF ControlInv, RecordsDisjoint, OffIsEmpty, PlanPrepared, LimitedFree, Free, Limited

(* The steps that change none of the records, nor what is limited.         *)
LEMMA SameRecords ==
  ASSUME ControlInv, TypeOK', runtime' = runtime, refresh' = refresh,
         limited' = limited, restoring' = restoring,
         disk' \in {disk, runtime}, program' # "off" \/ program' = program
  PROVE  ControlInv'
BY DEF ControlInv, RecordsDisjoint, ShutdownRestores, OffIsEmpty, PlanPrepared,
       LimitedFree, Free, Limited

LEMMA StepKeepsControl == ControlInv /\ [Next]_vars => ControlInv'
<1> SUFFICES ASSUME ControlInv, [Next]_vars PROVE ControlInv'
  OBVIOUS
<1>1. TypeOK'
  BY StepKeepsTypes DEF ControlInv
<1>2. CASE Refresh
  BY <1>2, BeginKeepsControl, ObserveKeepsControl, ExecuteKeepsControl,
     UpdateKeepsControl, CommitKeepsControl DEF Refresh
<1>3. CASE ToggleManagement
  BY <1>1, <1>3, SameRecords DEF ToggleManagement, outside
<1>4. ASSUME NEW a \in Apps, NEW rule \in RuleChoices \cup {NoRule}, SetRule(a, rule)
      PROVE  ControlInv'
  BY <1>1, <1>4, SameRecords DEF SetRule, outside
<1>5. ASSUME NEW a \in Apps \cup {NoApp}, SwitchTo(a) PROVE ControlInv'
  BY <1>1, <1>5, SameRecords DEF SwitchTo
<1>6. CASE Shutdown
  BY <1>6, ShutdownKeepsControl
<1>7. CASE Start
  <2>1. Limited' = {}
    BY <1>7 DEF Start, ControlInv, OffIsEmpty, Limited, Nothing
  <2>2. /\ runtime' = disk /\ disk' = disk /\ refresh' = refresh
        /\ restoring' = restoring /\ program' = "on" /\ refresh.at = "idle"
    BY <1>7 DEF Start, outside, ControlInv, OffIsEmpty
  <2>. QED
    BY <1>1, <2>1, <2>2 DEF ControlInv, RecordsDisjoint, ShutdownRestores,
         OffIsEmpty, PlanPrepared, LimitedFree, Free
<1>8. ASSUME NEW a \in Apps, RestoreAction(a) PROVE ControlInv'
  BY <1>8, RestoreKeepsControl
<1>9. CASE SaveAndQuit
  BY <1>1, <1>9, SameRecords DEF SaveAndQuit, SaveRuntime
<1>10. ASSUME NEW p \in Procs, LimiterStop(p) \/ LimiterContinue(p) PROVE ControlInv'
  BY <1>1, <1>10, SameRecords DEF LimiterStop, LimiterContinue
<1>11. ASSUME NEW p \in Procs, Spawn(p) \/ Exit(p) PROVE ControlInv'
  BY <1>1, <1>11, SameRecords DEF Spawn, Exit
<1>12. CASE End
  <2>1. Limited' = {}
    BY <1>12 DEF End, Limited, Nothing
  <2>2. /\ runtime' = EmptyRuntime /\ disk' = disk /\ limited' = Nothing
        /\ restoring' = NoPlan /\ refresh'.at = "idle"
        /\ refresh'.runtime = EmptyRuntime
    BY <1>12 DEF End, outside, IdleRefresh
  <2>3. ShutdownRestores'
    BY <2>2 DEF ShutdownRestores, Restoring, NoPlan
  <2>. QED
    BY <1>1, <2>1, <2>2, <2>3, EmptyDisjoint
       DEF ControlInv, RecordsDisjoint, OffIsEmpty, PlanPrepared, LimitedFree, Free
<1>13. CASE UNCHANGED vars
  BY <1>1, <1>13, SameRecords DEF vars
<1>. QED
  BY <1>2, <1>3, <1>4, <1>5, <1>6, <1>7, <1>8, <1>9, <1>10, <1>11, <1>12,
     <1>13 DEF Next, User

(* Between two refreshes a process is paused, or has a lowered priority,   *)
(* or is limited, but never two of these: however the rules change, with a *)
(* crash, a restart or a quit at any point of a Refresh.                   *)
THEOREM OneControl == Spec => []OneControlAtATime
<1>1. ControlInv => OneControlAtATime
  BY DEF ControlInv, RecordsDisjoint, Disjoint, LimitedFree, Free,
         OneControlAtATime, Settled
<1>. QED
  BY <1>1, InitControlInv, StepKeepsControl, PTL DEF Spec

=============================================================================
