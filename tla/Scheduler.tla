------------------------------ MODULE Scheduler -----------------------------
(***************************************************************************)
(* The scheduler of src/internal/policy/scheduler.go: which control        *)
(* actions follow from the rules, what is observed, and what OpenTamer has *)
(* recorded as changed.  Evaluate is a pure function there; here it is     *)
(* the operator Plan.                                                      *)
(*                                                                         *)
(* Clocks appear through their tests only: "settling" applications are     *)
(* within LaunchGrace or WaitBeforeApply, "wakeDue" ones have not been     *)
(* woken for PeriodicWakeEvery, and "overLimit" ones are those for which   *)
(* cpuLimitDutyCycle answers active.                                       *)
(***************************************************************************)
EXTENDS Naturals, Sequences, FiniteSets

CONSTANTS Apps,       \* application groups, by their key
          Procs,      \* process generations, ordered as their PIDs are
          NoProc,     \* no process
          NoApp,      \* no application
          SlowOnly,   \* the applications whose safety decision is slow-only
          Blocked,    \* those whose safety decision is blocked
          Browsers,   \* those that IsBrowserLike
          AppOf       \* AppOf[p]: the group that ProcessGrouper puts p in

ASSUME ProcsAssumption == Procs \subseteq Nat /\ NoProc \notin Procs
ASSUME NoAppAssumption == NoApp \notin Apps
ASSUME AppOfAssumption == AppOf \in [Procs -> Apps]

Modes == {"observe", "pause", "priority", "limit", "hide", "quit"}

Rule == [mode : Modes \cup {"none"}, backgroundOnly : BOOLEAN, nice : Nat,
         hideWhenStopped : BOOLEAN, wakes : BOOLEAN, protectAudio : BOOLEAN,
         allowBrowserPause : BOOLEAN]

(* matchingRule found nothing.                                             *)
NoRule == [mode |-> "none", backgroundOnly |-> FALSE, nice |-> 0,
           hideWhenStopped |-> FALSE, wakes |-> FALSE, protectAudio |-> FALSE,
           allowBrowserPause |-> FALSE]

(* core.RuntimeState.  No change of priority is [target |-> 0].            *)
NoChange == [original |-> 0, target |-> 0]
EmptyRuntime == [paused |-> {},
                 changes |-> [p \in Procs |-> NoChange],
                 hidden |-> [a \in Apps |-> NoProc]]

Changed(rt) == {p \in Procs : rt.changes[p] # NoChange}

Action(type, app, procs) ==
  [type |-> type, app |-> app, procs |-> procs, nice |-> 0]

-----------------------------------------------------------------------------
(* Lists of actions; each is empty when there is nothing to restore.       *)

If(condition, action) == IF condition THEN <<action>> ELSE <<>>

RestorePauses(a, group, rt) ==
  If(group \cap rt.paused # {}, Action("resume", a, group \cap rt.paused))

RestorePriority(a, group, rt) ==
  If(group \cap Changed(rt) # {},
     Action("restore_priority", a, group \cap Changed(rt)))

RestoreHidden(a, rt) ==
  If(rt.hidden[a] # NoProc, Action("activate", a, {rt.hidden[a]}))

(* Mutant: a rule change leaves the pauses of the rule before.             *)
RestoreGroupPriority(a, group, rt) ==
  RestorePriority(a, group, rt) \o RestoreHidden(a, rt)

(* Mutant: a rule change leaves the priorities of the rule before.         *)
RestoreGroupPauses(a, group, rt) ==
  RestorePauses(a, group, rt) \o RestoreHidden(a, rt)

RestoreGroup(a, group, rt) ==
  RestorePauses(a, group, rt) \o RestorePriority(a, group, rt)
    \o RestoreHidden(a, rt)

(* Mutant: the foreground application gets its priority back only.         *)
RestoreForegroundPriority(a, group, rt, priority) ==
  IF priority THEN RestorePriority(a, group, rt) ELSE <<>>

RestoreForeground(a, group, rt, priority) ==
  RestorePauses(a, group, rt)
    \o (IF priority THEN RestorePriority(a, group, rt) ELSE <<>>)

(* Mutant: priorities are not restored.                                    *)
RestoreAllButPriority(a, rt) ==
  RestorePauses(a, {p \in Procs : AppOf[p] = a}, rt) \o RestoreHidden(a, rt)

(* restoreAllActions, one list per application: everything recorded for    *)
(* it, whether its processes are still running or not.                     *)
RestoreAll(a, rt) == RestoreGroup(a, {p \in Procs : AppOf[p] = a}, rt)

-----------------------------------------------------------------------------
AppliesInForeground(rule) ==
  rule.mode \in {"priority", "limit"} /\ ~rule.backgroundOnly

RestoresPriorityInForeground(rule) ==
  rule.mode # "priority" \/ rule.backgroundOnly

AllowsRule(a, mode) ==
  CASE mode = "observe" -> TRUE
    [] mode \in {"priority", "limit"} -> a \notin Blocked
    [] OTHER -> a \notin Blocked \cup SlowOnly

ProtectionBlocks(a, rule, audio) ==
  /\ rule.mode \in {"pause", "priority", "limit"}
  /\ \/ a \in Browsers /\ rule.mode = "pause" /\ ~rule.allowBrowserPause
     \/ rule.protectAudio /\ audio

(* Every reason for which Evaluate goes on to the next group before it     *)
(* looks at the mode: nothing is applied, and nothing is restored.         *)
Barred(a, rule, in) ==
  \/ ~AllowsRule(a, rule.mode)
  \/ ProtectionBlocks(a, rule, in.audio)
  \/ in.policy = "block"
  \/ a \in in.settling

(* The switch on rule.Mode.                                                *)
Apply(a, rule, group, rt, in) ==
  CASE rule.mode = "pause" ->
         RestorePriority(a, group, rt) \o
         (IF group \subseteq rt.paused
          THEN If(rule.wakes /\ a \in in.wakeDue,
                  Action("wake_briefly", a, group))
          ELSE <<Action("pause", a, group)>>
                 \o If(rule.hideWhenStopped,
                       Action("hide_when_stopped", a, group)))
    [] rule.mode = "priority" ->
         RestorePauses(a, group, rt) \o RestoreHidden(a, rt) \o
         If(\E p \in group : rt.changes[p].target # rule.nice,
            [Action("set_priority", a, group) EXCEPT !.nice = rule.nice])
    [] rule.mode = "limit" ->
         RestoreGroup(a, group, rt)
           \o If(a \in in.overLimit, Action("limit_cpu", a, group))
    [] rule.mode = "hide" ->
         RestorePauses(a, group, rt) \o RestorePriority(a, group, rt)
           \o <<Action("hide", a, group)>>
    [] rule.mode = "quit" ->
         RestoreGroup(a, group, rt) \o <<Action("quit", a, group)>>

(* The body of the loop over input.Groups.                                 *)
PlanGroup(a, rt, in) ==
  LET rule == in.rules[a]
      group == in.groups[a]
      foreground == in.front = a
      inForeground == IF foreground
                      THEN RestoreForeground(a, group, rt,
                             RestoresPriorityInForeground(rule))
                      ELSE <<>>
  IN CASE foreground /\ ~AppliesInForeground(rule) ->
            RestoreForeground(a, group, rt, TRUE)
       [] rule.mode \in {"none", "observe"} /\ ~foreground ->
            RestoreGroup(a, group, rt)
       [] OTHER -> inForeground \o (IF Barred(a, rule, in) THEN <<>>
                                    ELSE Apply(a, rule, group, rt, in))

(* Evaluate: the actions for each application, in order.                   *)
Plan(rt, in) ==
  [a \in Apps |->
     IF ~in.management \/ in.policy = "restore" THEN RestoreAll(a, rt)
     ELSE IF in.groups[a] = {} THEN <<>>
     ELSE PlanGroup(a, rt, in)]

(* cpuLimitRequests: the processes of every application with an action     *)
(* limit_cpu.                                                              *)
LimitRequests(plan, groups) ==
  [a \in Apps |->
     IF \E i \in DOMAIN plan[a] : plan[a][i].type = "limit_cpu"
     THEN groups[a] ELSE {}]

(* Mutant: new pauses and priorities are left to the periodic save.        *)
SavesRestorations(plan) ==
  \E a \in Apps : \E i \in DOMAIN plan[a] :
    plan[a][i].type \notin {"limit_cpu", "pause", "set_priority"}

(* shouldSaveRuntimeImmediately.                                           *)
SavesImmediately(plan) ==
  \E a \in Apps : \E i \in DOMAIN plan[a] : plan[a][i].type # "limit_cpu"

(* needsFrontmostApp, as the observation it decides on: without such a     *)
(* rule no application is known to be frontmost.                           *)
FrontmostApp(rules, front) ==
  IF \E a \in Apps : \/ rules[a].mode \in {"pause", "hide", "quit"}
                     \/ /\ rules[a].mode \in {"priority", "limit"}
                        /\ rules[a].backgroundOnly
  THEN front ELSE NoApp

(* hasControlRules.                                                        *)
HasControlRules(rules) ==
  \E a \in Apps : rules[a].mode \notin {"none", "observe"}

=============================================================================
