----------------------------- MODULE Controller -----------------------------
(***************************************************************************)
(* The controller of src/internal/app: Refresh (refresh.go), the menu      *)
(* commands (commands.go), the shutdown path (controller.go) and the files *)
(* that outlive the program, over a machine whose user switches between    *)
(* applications while their processes start and exit.                      *)
(*                                                                         *)
(* Refresh runs on the ticker's goroutine and on one per menu command, one *)
(* at a time (refreshMu).  It copies the configuration and the runtime     *)
(* state under controller.mu, works on the copies without the mutex, and   *)
(* takes it again to write the runtime state back.  Commands and shutdown  *)
(* hold controller.mu only, so they run between any two steps of Refresh.  *)
(* The CPU limiter is seen here through its calls: CPULimiter is its       *)
(* detailed model.                                                         *)
(***************************************************************************)
EXTENDS ProcessControl

CONSTANTS RuleChoices,    \* the rules that the user and config.json can set
          Born,           \* the processes that run when OpenTamer starts
          Niceness,       \* Niceness[p]: the nice value p was started with
          Crashes,        \* BOOLEAN: OpenTamer may be killed
          QuitOverlaps,   \* BOOLEAN: it may quit while a Refresh is running
          SavesFail       \* BOOLEAN: writing runtime-state.json may fail

(* A nice value of 0 lowers nothing and is left out.                       *)
ASSUME RuleChoicesAssumption ==
  /\ RuleChoices \subseteq Rule
  /\ \A rule \in RuleChoices : rule.mode = "priority" => rule.nice > 0
ASSUME BornAssumption == Born \subseteq Procs
ASSUME NicenessAssumption == Niceness \in [Procs -> Nat]

VARIABLES
  \* controller.cfg, saved in config.json at every change
  management,   \* Preferences.ManagementEnabled
  rules,        \* rules[a]: the rule that matches a, or NoRule
  \* the rest of the program
  program,      \* "on", "restoring" in shutdown, "quitting" after it, "off"
  runtime,      \* controller.runtime
  refresh,      \* the Refresh that holds refreshMu
  limited,      \* limited[a]: the processes of the limiter's entry for a
  restoring,    \* restoring[a]: the actions that shutdown still has to do
  \* outside the program
  disk,         \* runtime-state.json
  os,           \* the processes and windows of the machine
  unborn        \* processes that have not started yet

config == <<management, rules>>
outside == <<disk, os, unborn>>
vars == <<management, rules, program, runtime, refresh, limited, restoring,
          disk, os, unborn>>

Group(a) == {p \in os.alive : AppOf[p] = a}
NoPlan == [a \in Apps |-> <<>>]
Nothing == [a \in Apps |-> {}]
Limited == UNION {limited[a] : a \in Apps}

(* The local variables of Refresh.                                         *)
IdleRefresh == [at |-> "idle", management |-> FALSE,
                rules |-> [a \in Apps |-> NoRule], runtime |-> EmptyRuntime,
                plan |-> NoPlan, requests |-> Nothing, save |-> FALSE]

RuntimeState == [paused : SUBSET Procs,
                 changes : [Procs -> [original : Nat, target : Nat]],
                 hidden : [Apps -> Procs \cup {NoProc}]]

ActionTypes == {"pause", "resume", "wake_briefly", "set_priority",
                "restore_priority", "hide_when_stopped", "hide", "activate",
                "limit_cpu", "quit"}
Actions == [type : ActionTypes, app : Apps, procs : SUBSET Procs, nice : Nat]
Plans == [Apps -> Seq(Actions)]

Machine == [alive : SUBSET Procs, stopped : SUBSET Procs,
            background : SUBSET Procs, nice : [Procs -> Nat],
            concealed : SUBSET Procs, front : Apps \cup {NoApp}]

RefreshState == [at : {"idle", "observe", "execute", "commit"},
                 management : BOOLEAN,
                 rules : [Apps -> RuleChoices \cup {NoRule}],
                 runtime : RuntimeState, plan : Plans,
                 requests : [Apps -> SUBSET Procs], save : BOOLEAN]

TypeOK ==
  /\ management \in BOOLEAN
  /\ rules \in [Apps -> RuleChoices \cup {NoRule}]
  /\ program \in {"on", "restoring", "quitting", "off"}
  /\ runtime \in RuntimeState
  /\ refresh \in RefreshState
  /\ limited \in [Apps -> SUBSET Procs]
  /\ restoring \in Plans
  /\ disk \in RuntimeState
  /\ os \in Machine
  /\ unborn \subseteq Procs

Init ==
  /\ management = TRUE
  /\ rules = [a \in Apps |-> NoRule]
  /\ program = "on"
  /\ runtime = EmptyRuntime
  /\ refresh = IdleRefresh
  /\ limited = Nothing
  /\ restoring = NoPlan
  /\ disk = EmptyRuntime
  /\ os = [alive |-> Born, stopped |-> {}, background |-> {},
           nice |-> Niceness, concealed |-> {}, front |-> NoApp]
  /\ unborn = Procs \ Born

-----------------------------------------------------------------------------
(* Refresh.                                                                *)

(* The copies taken under controller.mu.                                   *)
BeginRefresh ==
  /\ refresh.at = "idle"
  /\ program = "on" \/ (program = "quitting" /\ QuitOverlaps)
  /\ refresh' = [refresh EXCEPT !.at = "observe",
                                !.management = management,
                                !.rules = rules,
                                !.runtime = runtime]
  /\ UNCHANGED <<config, program, runtime, limited, restoring, outside>>

(* What the observers report, and the scheduler's answer to it.  Audio,    *)
(* power, idle time, clocks and CPU samples are unconstrained, where a     *)
(* rule asks for them.                                                     *)
Observe ==
  /\ refresh.at = "observe" /\ program # "off"
  /\ \E policy \in {"open", "block", "restore"}, audio \in BOOLEAN,
        settling \in SUBSET Apps,
        wakeDue \in SUBSET {a \in Apps : refresh.rules[a].wakes},
        overLimit \in SUBSET {a \in Apps : refresh.rules[a].mode = "limit"} :
       LET in == [management |-> refresh.management,
                  rules |-> refresh.rules,
                  groups |-> [a \in Apps |-> Group(a)],
                  front |-> FrontmostApp(refresh.rules, os.front),
                  policy |-> policy, audio |-> audio, settling |-> settling,
                  wakeDue |-> wakeDue, overLimit |-> overLimit]
           plan == Plan(refresh.runtime, in)
       IN refresh' = [refresh EXCEPT
                        !.at = "execute",
                        !.plan = plan,
                        !.requests = LimitRequests(plan, in.groups),
                        !.save = SavesImmediately(plan)]
  /\ UNCHANGED <<config, program, runtime, limited, restoring, outside>>

(* executeActions, on the copy of the runtime state.  The lists of two     *)
(* applications touch different processes, so their order is free.         *)
ExecuteAction(a) ==
  /\ refresh.at = "execute" /\ program # "off"
  /\ refresh.plan[a] # <<>>
  /\ LET after == Execute([os |-> os, rt |-> refresh.runtime],
                          Head(refresh.plan[a]))
     IN /\ os' = after.os
        /\ refresh' = [refresh EXCEPT !.runtime = after.rt,
                                      !.plan[a] = Tail(@)]
  /\ UNCHANGED <<config, program, runtime, limited, restoring, disk, unborn>>

(* Mutant: a cycle that ends does not resume its processes.                *)
UpdateLimiterAtOnce ==
  /\ refresh.at = "execute" /\ refresh.plan = NoPlan /\ program # "off"
  /\ limited' = refresh.requests
  /\ refresh' = [refresh EXCEPT !.at = "commit"]
  /\ UNCHANGED <<config, program, runtime, restoring, outside>>

(* limiter.Update: a cycle that ends or changes its processes resumes      *)
(* them, and a cycle that begins starts by resuming its own.               *)
UpdateLimiter ==
  /\ refresh.at = "execute" /\ refresh.plan = NoPlan /\ program # "off"
  /\ limited' = refresh.requests
  /\ os' = [os EXCEPT !.stopped =
              @ \ UNION {limited[a] \cup limited'[a] :
                           a \in {b \in Apps : limited'[b] # limited[b]}}]
  /\ refresh' = [refresh EXCEPT !.at = "commit"]
  /\ UNCHANGED <<config, program, runtime, restoring, disk, unborn>>

(* saveRuntimeLocked: a save that fails is logged, no more.                *)
SaveRuntime(state) ==
  \/ disk' = state
  \/ SavesFail /\ UNCHANGED disk

(* The results are written back under controller.mu, which shutdown holds  *)
(* to its end, and saved at once if an action calls for it, or now and     *)
(* then while rules control something.                                     *)
Commit ==
  /\ refresh.at = "commit" /\ program \in {"on", "quitting"}
  /\ runtime' = refresh.runtime
  /\ \/ /\ refresh.save \/ HasControlRules(refresh.rules)
        /\ SaveRuntime(refresh.runtime)
     \/ ~refresh.save /\ UNCHANGED disk
  /\ refresh' = IdleRefresh
  /\ UNCHANGED <<config, program, limited, restoring, os, unborn>>

Refresh ==
  BeginRefresh \/ Observe \/ (\E a \in Apps : ExecuteAction(a))
    \/ UpdateLimiter \/ Commit

-----------------------------------------------------------------------------
(* Menu commands, under controller.mu.                                     *)

ToggleManagement ==
  /\ program = "on"
  /\ management' = ~management
  /\ UNCHANGED <<rules, program, runtime, refresh, limited, restoring,
                 outside>>

(* rule and disable-rule: a rule is set, or removed (NoRule).              *)
SetRule(a, rule) ==
  /\ program = "on"
  /\ rules[a] # rule
  /\ rules' = [rules EXCEPT ![a] = rule]
  /\ UNCHANGED <<management, program, runtime, refresh, limited, restoring,
                 outside>>

(* quit, and SIGTERM: shutdownLocked stops the limiter, restores whatever  *)
(* controller.runtime records, one action after the other, and saves.      *)
(* AppKit then terminates the program; a Refresh that is running goes on   *)
(* until then.                                                             *)
Shutdown ==
  /\ program = "on"
  /\ refresh.at = "idle" \/ QuitOverlaps
  /\ os' = [os EXCEPT !.stopped = @ \ Limited]
  /\ limited' = Nothing
  /\ restoring' = [a \in Apps |-> RestoreAll(a, runtime)]
  /\ program' = "restoring"
  /\ UNCHANGED <<config, runtime, refresh, disk, unborn>>

RestoreAction(a) ==
  /\ program = "restoring"
  /\ restoring[a] # <<>>
  /\ LET after == Execute([os |-> os, rt |-> runtime], Head(restoring[a]))
     IN os' = after.os /\ runtime' = after.rt
  /\ restoring' = [restoring EXCEPT ![a] = Tail(@)]
  /\ UNCHANGED <<config, program, refresh, limited, disk, unborn>>

SaveAndQuit ==
  /\ program = "restoring" /\ restoring = NoPlan
  /\ SaveRuntime(runtime)
  /\ program' = "quitting"
  /\ UNCHANGED <<config, runtime, refresh, limited, restoring, os, unborn>>

-----------------------------------------------------------------------------
(* The limiter's workers, the program's end and its next start.            *)

LimiterStop(p) ==
  /\ program # "off"
  /\ p \in (Limited \cap os.alive) \ os.stopped
  /\ os' = [os EXCEPT !.stopped = @ \cup {p}]
  /\ UNCHANGED <<config, program, runtime, refresh, limited, restoring, disk,
                 unborn>>

LimiterContinue(p) ==
  /\ program # "off"
  /\ p \in Limited \cap os.stopped
  /\ os' = [os EXCEPT !.stopped = @ \ {p}]
  /\ UNCHANGED <<config, program, runtime, refresh, limited, restoring, disk,
                 unborn>>

(* The program ends, in order or not, and everything in memory with it.    *)
End ==
  /\ program = "quitting" \/ (program \in {"on", "restoring"} /\ Crashes)
  /\ program' = "off"
  /\ runtime' = EmptyRuntime
  /\ refresh' = IdleRefresh
  /\ limited' = Nothing
  /\ restoring' = NoPlan
  /\ UNCHANGED <<config, outside>>

(* NewController loads what the last run saved.                            *)
Start ==
  /\ program = "off"
  /\ program' = "on"
  /\ runtime' = disk
  /\ UNCHANGED <<config, refresh, limited, restoring, outside>>

-----------------------------------------------------------------------------
(* The user and the applications.                                          *)

(* NoApp stands for the applications that have no group here.              *)
SwitchTo(a) ==
  /\ Group(a) # {} \/ a = NoApp
  /\ os.front # a
  /\ os' = [os EXCEPT !.front = a, !.concealed = @ \ Group(a)]
  /\ UNCHANGED <<config, program, runtime, refresh, limited, restoring, disk,
                 unborn>>

(* PIDs grow; that they wrap around is left out.                           *)
Spawn(p) ==
  /\ p \in unborn /\ p = FirstProc(unborn)
  /\ unborn' = unborn \ {p}
  /\ os' = [os EXCEPT !.alive = @ \cup {p}]
  /\ UNCHANGED <<config, program, runtime, refresh, limited, restoring, disk>>

Exit(p) ==
  /\ p \in os.alive
  /\ os' = [os EXCEPT !.alive = @ \ {p},
                      !.stopped = @ \ {p},
                      !.background = @ \ {p},
                      !.concealed = @ \ {p},
                      !.front = IF Group(@) = {p} THEN NoApp ELSE @]
  /\ UNCHANGED <<config, program, runtime, refresh, limited, restoring, disk,
                 unborn>>

User == \/ ToggleManagement
        \/ \E a \in Apps, rule \in RuleChoices \cup {NoRule} : SetRule(a, rule)
        \/ \E a \in Apps \cup {NoApp} : SwitchTo(a)
        \/ Shutdown \/ Start

Next == \/ Refresh
        \/ User
        \/ (\E a \in Apps : RestoreAction(a)) \/ SaveAndQuit
        \/ \E p \in Procs : LimiterStop(p) \/ LimiterContinue(p)
        \/ \E p \in Procs : Spawn(p) \/ Exit(p)
        \/ End

Spec == Init /\ [][Next]_vars

(* The ticker calls Refresh again and again, Refresh runs to its end, and  *)
(* the limiter ends its stops (CPULimiter!StopsEnd).  Nothing makes the    *)
(* user or the applications act.                                           *)
Fairness ==
  /\ WF_vars(Refresh)
  /\ \A p \in Procs : WF_vars(LimiterContinue(p))

FairSpec == Spec /\ Fairness

-----------------------------------------------------------------------------
Settled == program = "on" /\ refresh.at = "idle"

(* Between two refreshes, what is recorded as paused is stopped: the menu  *)
(* shows "paused" for it and PauseGroup will not stop it again.            *)
RecordedAreStopped ==
  Settled => runtime.paused \cap os.alive \subseteq os.stopped

(* A stopped process is remembered somewhere in the program, so that a     *)
(* later refresh, or the limiter, can resume it.                           *)
StoppedAreRecorded ==
  program = "on" => os.stopped \subseteq
                      runtime.paused \cup refresh.runtime.paused \cup Limited

(* When no refresh is running, runtime-state.json covers every change that *)
(* would outlive the program: a crash then is followed by a restart that   *)
(* knows of them (shouldSaveRuntimeImmediately).                           *)
SavedWhenSettled ==
  Settled => /\ os.stopped \ Limited \subseteq disk.paused
             /\ os.background \subseteq Changed(disk)
             /\ os.concealed \subseteq {disk.hidden[a] : a \in Apps}

(* A process is under one control at a time: the switch on rule.Mode takes *)
(* back what the rule before it did.                                       *)
OneControlAtATime ==
  Settled => /\ runtime.paused \cap Changed(runtime) = {}
             /\ Limited \cap (runtime.paused \cup Changed(runtime)) = {}

(* Nothing stays stopped when OpenTamer has exited.                        *)
NothingStaysStopped == program = "off" => os.stopped = {}

(* What OpenTamer changed is undone when it has exited (README, "restore   *)
(* anything it changed when ... the app exits").                           *)
NothingLeftBehind ==
  /\ NothingStaysStopped
  /\ program = "off" => /\ os.background = {}
                        /\ os.concealed = {}
                        /\ \A p \in os.alive : os.nice[p] = Niceness[p]

(* A process without a record has the priority it was started with.        *)
PriorityRestored ==
  Settled => \A p \in os.alive \ Changed(runtime) :
               p \notin os.background /\ os.nice[p] = Niceness[p]

(* "resumes it when you return to it" (README): an application that stays  *)
(* in front runs, again and again, whatever happens to the rules.          *)
ForegroundRuns ==
  \A p \in Procs :
    <>[](program = "on" /\ os.front = AppOf[p]) => []<>(p \notin os.stopped)

(* Removing the rule of an application lets it run for good, at its own    *)
(* priority.                                                               *)
RuleRemovalRestores ==
  \A p \in Procs :
    <>[](program = "on" /\ rules[AppOf[p]] = NoRule)
      => <>[](p \notin os.stopped \cup os.background)

(* Disabling management restores every application.                        *)
DisablingRestores ==
  <>[](program = "on" /\ ~management)
    => <>[](os.stopped = {} /\ os.background = {} /\ os.concealed = {})

=============================================================================
