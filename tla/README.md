# OpenTamer in TLA+

Models, model checks and proofs for [OpenTamer](../src/README.md), a macOS menu
bar utility that pauses, slows and limits applications. The program is a single
Go process with several goroutines, a timer, a user who clicks while it works,
and a machine whose processes come and go. Its duty is to leave the machine the
way it found it; that is what most of the properties here are about.

## The system

| Component | State | Operations | Talks to |
|---|---|---|---|
| Controller (`internal/app/controller.go`, `refresh.go`) | config, runtime state, statistics, what the last refresh observed; two mutexes, `mu` and `refreshMu` | `Refresh` from the ticker and after every command, `Shutdown`, saving | everything below, by calls |
| Menu commands (`internal/app/commands.go`, `internal/ui/preferences.go`) | the config | toggle management, set, clear and remove rules, preferences, quit | called by AppKit; run under `mu`, then start a `Refresh` |
| Scheduler (`internal/policy/scheduler.go`, `protection.go`) | none: a function of rules, observations and runtime state | `Evaluate` | called by `Refresh` and by shutdown |
| Group process control (`internal/app/process_control.go`) | the records of the runtime state | pause, resume, wake, set and restore priority, hide, activate, quit | signals, `taskpolicy`, AppKit |
| CPU limiter (`internal/app/cpu_limiter.go`) | a map of entries, one worker goroutine each | `Update`, `StopAll`, the workers' run and stop phases | SIGSTOP and SIGCONT |
| CPU limit planner (`internal/policy/cpu_limit.go`) | none | `Plan`: target and observation to a duty cycle | called by the scheduler |
| High CPU alerts (`internal/app/high_cpu.go`, `macos/notify`) | a clock per application, a queue of 16 notices | `Update` at every refresh, a goroutine that delivers | notification center |
| Rules (`internal/core/rules.go`, `identity.go`) | the list of rules | matching, upsert, removal, tracking locations | commands, scheduler |
| Config store (`internal/config`) | `config.json`, `runtime-state.json`, `stats.json` | load with migration, atomic save | disk |
| Grouping and CPU observation (`internal/observe`) | previous counters, a history | group processes, compute percentages | `Refresh` |
| System policy (`scheduler.go`, `macos/policy`) | none | power, idle and wake guards | `Refresh` |
| View state and menu bar (`app/view_state.go`, `ui/menu_bar.go`, `macos/menu`) | the view state last received, an open panel, an open menu | build rows, update through the main queue, menus that tick their own items | built by `Refresh`, sends commands |
| macOS adapters | native handles | list, look up, sample and signal processes, priorities, windows | outside |

What is hard here:

* **Concurrency.** `Refresh` copies state under `mu`, works for a long time
  without it, and writes back. Commands and shutdown run in between. The
  workers of the limiter signal the same processes on their own clocks.
* **Ordering.** The actions of a plan, the limiter's update, the commit and the
  save follow each other, and each of them changes what the others rely on.
* **Failure.** Processes exit at any step; signals and saves fail and are only
  logged; the program may be killed between a signal and the save that would
  remember it.
* **Sequences.** Rules change while earlier rules are in force, in front and in
  the background, barred by audio or power policy or not.

### What makes each part correct

* **CPU limiter**: no SIGSTOP is forgotten, whatever a worker was doing when its
  request changed or ended; a SIGCONT that fails is sent again while the cycle
  goes on; one worker per application; a change wakes a sleeping worker; `Update`
  and `StopAll` return.
* **Controller, scheduler, process control**: what is recorded as changed is
  changed, what is changed is recorded and saved, one control at a time per
  process, everything is undone when the program exits in order, and the
  application in front runs.
* **CPU limit planner**: an application over its target is brought down to it,
  and never further.
* **High CPU alerts**: sustained use is noticed once per cooldown, and shown again
  and again although single notices are lost.
* **Rules and commands**: one rule per application, never one that safety
  forbids; each row does what its check marks say; a click on one application
  leaves the others alone.
* **Config store**: a save is all or nothing, a restart finds what was saved, and
  an older file keeps every preference and rule it spells out.
* **Grouping**: every process is in exactly one group and the right one, whatever
  the order of the process list, and a group is as protected as its most
  protected member.
* **Process generations**: whatever PIDs are reused, CPU time is not counted
  twice, and no signal is sent on the strength of an old record or list.
* **Menu bar**: it never falls back to an older state, what the user clicked is
  what is configured, and an open panel catches up.

## Modules

| Module | Models | Uses |
|---|---|---|
| `CPULimiter` | `cpu_limiter.go`: the map, the mutex's holder, the workers | |
| `LimiterContract` | what the limiter promises, without locks, phases and timers | |
| `CPULimiter_proofs` | theorems about `CPULimiter` | `CPULimiter` |
| `Scheduler` | `Evaluate` as an operator from observations to lists of actions | |
| `ProcessControl` | what an action does to the machine and to the records | `Scheduler` |
| `Controller` | `Refresh` by steps, commands, shutdown, restart, over a machine with a user | `ProcessControl` |
| `Controller_proofs` | theorems about `Controller` | `Controller` |
| `Generations` | the list, sampling, validation and signals of one `Refresh` while PIDs are reused and calls fail | |
| `Generations_proofs` | theorems about `Generations` | `Generations` |
| `Grouping` | `ProcessGrouper.Group` by its loops, and the safety of a group | |
| `Grouping_proofs` | theorems about `Grouping` | `Grouping` |
| `RuleBook` | identities, tracking places, rule commands, rows of the menus, as operators | |
| `ConfigStore` | reading, upgrading and writing `config.json`, preference commands, as operators | `RuleBook` |
| `Settings` | the configuration over clicks, saves, crashes and starts | `ConfigStore` |
| `Settings_proofs` | theorems about `Settings` | `Settings` |
| `Menu` | view states on their way to the menu bar, the panel, a menu that stays open | |
| `Menu_proofs` | theorems about `Menu` | `Menu` |
| `DutyCycle` | `Plan`, the memory of earlier plans, and the limited application | |
| `DutyCycle_proofs` | theorems about `DutyCycle` | `DutyCycle` |
| `Alerts` | detector, queue, delivering goroutine | |
| `Alerts_proofs` | theorems about `Alerts` | `Alerts` |
| `MC...` | instances for TLC | the module they are named for |

### CPULimiter

`entries` is `limiter.entries`; `at`, `want`, `todo` and `subject` are the
position and the arguments of the one call that holds `limiter.mu`; `pc`,
`request`, `cancelled`, `updated`, `armed` and `left` are a worker's position,
its request, its two channels, the duration its timer was set to and the
processes it has yet to signal. One signal is one step, so a request can change
between two of them. A worker's phase ends in `PhaseEnds` (its timer),
`SeeUpdate` (the token) or `SeeCancel`; where the code's `select` has several
ready, all are enabled. Durations are values that differ or not; their length
plays no role. A second caller would wait for the mutex and is not modelled.

Every signal may fail. A SIGSTOP that fails (`Stop`) leaves the process running. A
SIGCONT that fails, or is skipped because the process cannot be looked up
(`Refused` in `Continue`), is logged, and the worker goes on as if it had arrived:
a worker that ends then closes `done`, and the limiter forgets a process that is
still stopped. `refused` holds the stopped processes for which this was the last
attempt. The properties are stated with it: what is stopped has a worker that
will send SIGCONT, or its last SIGCONT failed (`StoppedIsOwned`,
`QuietWhenEmpty`), and such a failure is made good by the next phase as long as
there is one (`RefusedIsRetried`).

`LimiterContract` says the same without locks: a cycle opens, its processes are
stopped and continued, which they may refuse, and it closes with its last SIGCONT,
leaving stopped only what refused or another cycle covers. `RefinesContract` maps
an entry's processes to a cycle while its worker may still signal.

### Scheduler, ProcessControl, Controller

`Plan(runtime, in)` is `Evaluate`: for every application the list of actions, in
the order in which the code appends them. An application's group of processes,
the frontmost one, audio, power and idle policy, grace periods, wake clocks and
whether a limit has a cycle are inputs; `Observe` leaves them unconstrained
where a rule asks for them. `Execute(s, action)` carries an action out on the
machine (`os`) and the records (`rt`). A nice value and the background policy of
`taskpolicy` are two things, as they are in macOS.

`Controller` gives `Refresh` the steps that other goroutines can come between:
the copies under `mu` (`BeginRefresh`), evaluation, each action, the limiter's
update, and the commit with the save. Commands and shutdown take `mu` only.
Shutdown is a sequence too: it plans from `controller.runtime` (`Shutdown`),
executes the plan action by action (`RestoreAction`, with `restoring` for what is
left of it) and saves (`SaveAndQuit`); `mu` is held throughout, so commands and
the commit of a refresh wait. The
limiter appears by its calls and by two actions that stop and resume any process
of a cycle; here a signal to a living process succeeds, so what a failing SIGCONT
of the limiter leaves behind is in `CPULimiter` only. Three constants are
switches: `Crashes` lets the program die at any step, `QuitOverlaps` lets it quit
while a refresh is running, `SavesFail` lets any save of `runtime-state.json` fail
(`SaveRuntime`), which the code logs, no more.

### DutyCycle

The rule's target, the memory (`AppControlRuntime`), the cycle in force, and an
application that asks for `demand` and gets the part of it that the cycle leaves.
`RunTimes` is how long the cycle let it run in a window `w`, for every alignment
of the two: its share of each whole cycle that fits in, and a part of the rest.
The window is chosen anew at each refresh from `Windows`. The sample is the time
run times the demand. CPU values are kept as products with the window, which makes
the arithmetic exact; the code uses floating point and rounds to nanoseconds, the
model rounds to its unit. `Situations` other than
"applies" are the branches of `Evaluate` that leave the memory alone, clear it,
or change its status only. `peak` and `base` are history.

### Alerts

Ages count refreshes and stop where the code's comparison does. `Refresh` raises
notices and `Post` hands them over one by one, so the goroutine runs in between.
The user may answer the authorization, refuse it, or leave it open past the
timeout. A load "both" stands for two groups that share an AppID.

### Generations

A process is a PID and a generation, its start time. `List`, `Sample`, `Plan`,
`Validate`, `Signal` and `EndRefresh` are the system calls of a `Refresh`;
between any two of them processes exit, and their PIDs go to others. `Usage` is
`CPUUsageCalculator.Update`, keyed by generation while the kernel answers by PID.
Validation and signal are two calls, as in the code, so a signal may stray: the
window is there, and what the properties say is how narrow it is. A failing list,
as in the code, is an empty one; a failing SIGCONT keeps the record. `spent`,
`credited`, `strays` and `reused` are history.

### Grouping

One behaviour is one call of `Group`, with all inputs of the instance. Each of
the four loops is an action; the third, which joins children to their parents,
is one action per pass, which goes over the list in its order. `home` is
`pidToGroup`, `added` the groups. `Direct` and `Application` say without loops
and orders what should come out. How strings of paths and bundles match is
reduced to `fits`, a relation between processes and hints.

### RuleBook, ConfigStore, Settings

`Matches`, `Key`, `Effective`, `UpsertRule` and the others are the functions of
those names; a command gives the new configuration and whether it is saved. The
rows of the menus are part of it because they carry the keys that commands
receive and the check marks that say what a click will do. `Upsert` refuses what
`upsertRule` refuses (`Refused`): an empty identity, which no group has, and a
limit without a target of at least the smallest one. A rule's `target` says whether
it has such a target; the menus' limits do unless the value is too low, those of an
edited file may not. Of the preferences
there is one of each sort. An optional field of the file is a set with at most
one element, which makes "absent", "false" and "zero" three things.

`Settings` is what becomes of them: commands under `mu`, each with a save by
temporary file and rename that may fail, a crash at any point, and the load of
`NewController` with its upgrade of older files. The groups that a click meets are
chosen at the click, since any refresh may have come before; a command looks at the
group of its key only. `durable` and `failed` are history.

Commands find rules by match, rows and un-ticking by key. `ClearKeys` are the keys
of applications that no identity with another key matches; `CheckMarksWork` and
`ClicksAreContained` are about their rows. `OneRulePerApp` and the others are
about all.

### Menu

`Refresh` is reduced to the wait for `refreshMu`, the building of the state under
`mu`, and the dispatch. `queue` is AppKit's main queue; a menu that is up runs
inside a block of that queue, so the blocks behind it wait. The panel shows the
state it was drawn from; the preferences menu is built from the state at the
click that opens it and from then on changes its own check marks
(`updateMenuItem`, `markMenuItem`, `clearPreferencePresetItems`). One switch of
the panel, one check mark and one choice with an "Off" stand for the rest.

## Runs

Twelve runs, ten of which pass and two of which show a disagreement.

| Run | Question | Instance and why it is enough |
|---|---|---|
| `limiter_safety` | Does the limiter ever lose a SIGSTOP but for a failing signal, or let two workers meet? | 2 applications, 2 processes, 2 workers, 1 duration, with symmetry: two keys, a request that changes its processes, a worker that is replaced |
| `limiter_live` | Are wake-ups kept, do stops end, are failed SIGCONTs sent again, do calls return? | 2 applications, 1 process, 2 durations: a duration that changes while a worker sleeps, a process under one worker after the other |
| `controller_restore` | Is what is recorded in force, and what is in force saved? | 1 application whose helper process starts later; every rule but the limit |
| `controller_live` | And if saves fail: is a stopped process always remembered, and under one control? Is everything undone, does the front application run, and does removing a rule or disabling management restore? | 1 application, 2 processes, background-only rules that pause with wakes and hiding, lower, and limit; any save may fail, also at quitting, and a start reads the older file |
| `duty_cap` | Does the planner starve or let go of an application? | units of 100 ms, cycle 100, windows of 30 (3 s, the default interval), 130 (more than a cycle and no multiple of it) and 300 (30 s, an interval of the menu, three cycles), 5 demands, 3 targets with 0; at least 10 units to run, so that the cut applies |
| `alerts` | Is sustained use noticed, spaced, shown? | 2 applications and a queue of 2, which is empty, half full and full; 2 refreshes to a notice, 3 to the next |
| `settings` | Are rules unique, clicks contained, settings kept? | an application with a bundle and a path, one that only its path names, which matches it under another key, and one with a name only, whose key is the clear one; 3 levels of safety, one preference that is accepted and one of each sort that is refused, 5 files (missing, garbled, newer, older with a rule by path, edited by hand with a limit without a target), 1 failing save |
| `grouping` | Does each process get into the right group, in any order? | 3 processes with all parents (cycles too) and all matches, 5 lists of applications, 4 orders; the third process may be missing |
| `generations` | What can go wrong when PIDs are reused and calls fail? | 1 PID with 3 generations, so that a record can be two generations old; 1 failing call |
| `menu` | Do the menu bar, the panel and the check marks tell the truth? | the ticker and 2 goroutines of commands, 2 commands, 1 tick; 2 presets, and a level that no preset has |
| `limit_to_pause`, `quit_overlaps` | see Findings | the smallest instance that has the behaviour |

Every bound is a constant of a `.cfg`: no state constraint, and no definition is
replaced. The state spaces are finite because ages and durations are capped and
processes are born once. Deadlock is checked in all runs.

**Fairness.** In `CPULimiter` timers expire, goroutines run, and the holder of
the mutex goes on; nobody need call again. In `Controller` the ticker starts one
refresh after the other, each runs to its end, and the limiter ends its stops,
which is `StopsEnd` of `limiter_live`. In `DutyCycle` the ticker refreshes. In
`Alerts`, too, and the waits of the goroutine end because both have timeouts (30
and 10 seconds). In `Generations` the ticker starts refreshes and calls return. In
`Grouping` a call goes on. In `Menu` refreshes go on; the update of the menu bar is
strongly fair, because the main queue is first in, first out: a block that waits
behind a menu runs before the next menu. That menus are closed again is a premise
of `PanelCatchesUp`, not an assumption. Users, applications and their processes
are never made to act.

## Proofs

For all values of the constants, under the `ASSUME`s of the modules.

**CPULimiter.** `IInv` is inductive: besides the types it says that a registered
entry has a worker and a live worker is registered under one key, that a worker
has a timer only while it waits, that only the entry whose `done` the holder of
the mutex awaits is cancelled, what the holder's position implies about its
lists, that requests already passed are in force, and `StoppedIsOwned`. It holds
whichever signals fail. The
safety properties alone are not inductive: that `AwaitDone` deletes an entry
without losing a stop, for instance, needs that its worker is done and that a
worker that is done holds nothing. There is one lemma for each action and one
step for each conjunct. From it follow `TypeOK`, `StoppedIsOwned`, `OneWorkerPerApp`,
`CallApplied`, `QuietWhenEmpty`, `NoLostUpdate` and the refinement of
`LimiterContract`. Assumptions: a duration exists, and the two markers
`NoEntry` and `Unarmed` are neither an entry nor a duration.

**DutyCycle.** The two bounds hold of one plan by arithmetic (`PlanArithmetic`:
rounding, cancelling the window), and `IInv` states them of the remembered cycle
instead of the one in force, because the remembered one comes back. The steps
use that `peak` only grows and `base` never changes while a cycle is remembered,
that a longer stop is tighter, and that a higher demand still gets enough.
Assumption: 0 < `MinRun` < `Cycle` and positive windows, shorter or longer than a
cycle.

**Alerts.** `Clocks` says that the detector's clock of the cooldown shows the age
of the last notice through every absence and switch; with the types it gives
`NoticesAreSpaced`. `Rising` says that the clock of the duration is at least as
old as the current rise; with `Clocks` it gives `SustainedIsNotified`, under the
assumption that no two groups share an AppID. `Alerts_siblings.cfg` shows that the
theorem is false without it.

**Controller.** Type correctness holds for every configuration of the model,
crashes and overlapping shutdowns included. Under the assumptions that the
program does not crash and does not quit while a refresh runs (`~Crashes`,
`~QuitOverlaps`; the findings show that it is false without the second),
`StoppedAreRemembered` and `EverythingRunsInTheEnd` follow from an inductive
invariant that says where the responsibility for a stopped process lies at each
moment. `HeldWhileOn`: in the records of the copy while a refresh runs, in those
of the controller otherwise, or in a cycle of the limiter. `ResumeIsComing`:
during the shutdown, in a record for which a resume is still in `restoring`.
`NothingStopped`: nowhere, once the program is quitting; `NoRefreshAfterQuit`
keeps it so. The safety property alone is not inductive: it would allow the
commit of a copy that has lost a record. There is one lemma for each operation of
`ProcessControl` (what it stops it records, and what it no longer records it has
resumed or found dead), one that the plan of `RestoreAll` resumes everything that
is recorded (`RestoreAllResumes`), and one for each action.

`FileIsCurrent` needs only that saves succeed (`~SavesFail`): while the program is
on, the file says what `controller.runtime` says. Its invariant, `SaveInv`, follows the
decision of `Refresh` to save: a refresh that will not save has planned nothing
but limits and holds the records it copied.

`SavedBetweenRefreshes`, `PrioritiesReturn` and `EverythingIsUndone` are about all
that outlives the program: stopped processes, lowered priorities, hidden windows.
Their invariant, `CoverInv`, says of the records that count at the moment
(`Memory`: the copy while a refresh runs, `controller.runtime` between two, the
file after the shutdown) that they cover the machine (`Covered`), that every
action still in a plan keeps it so (`PlanBehaves`), and, during the shutdown, that
what takes a change back is still to come (`UndoIsComing`). A window is hidden and
shown by one process of a group, the first; that it is the same one both times
(`Leads`) is why the order of birth is part of the invariant (`BornInOrder`).
A save may fail, at quitting too, and the next start then takes an older file for
the truth. `PrioritiesReturn` and `EverythingIsUndone` hold all the same, since the
shutdown has left nothing to remember and the older records do no harm:
`FileIsHarmless`, inductive with `CoverInv`, says that the file never has a priority
to go back to that is not the normal one, nor an older process than the first of a
living group. `SavedBetweenRefreshes`, which is about the file, and
`PausedAreStopped` need `~SavesFail`.
Besides `~Crashes` and `~QuitOverlaps` the three assume

* `PidsGrow`: a process that starts has a greater PID than those that run.
  Otherwise a newcomer could become the first of its group, and the process that
  hid the windows would not be the one that is asked to show them.
* `NormalPriorities`: processes start with the nice value 0 and rules lower to 20,
  which is what every menu command writes (`commands.go:222`). The findings say
  what other values do.

`PausedAreStopped` is the converse of being recorded: what is recorded as paused is
stopped. `TruthInv` carries it through the steps of a refresh. It needs `NoPulses`,
rules that neither limit nor wake: both findings about `RecordedAreStopped` are
counterexamples without it.

`OneControl` holds for every configuration of the model, with crashes and with a
quit at any point of a refresh. Its invariant, `ControlInv`, is about the order
inside a plan, which the property does not mention. `Prepared`: in the list of an
application, a pause comes after the `restore_priority` of each of its processes
that has a record, a `set_priority` after the `resume` of each that is paused,
never both in one list, and a list with `limit_cpu` has both ahead. Such a list
stays prepared while it is executed (`NextIsPrepared`), and while those of the
other applications are (`OthersStayPrepared`, since they have other processes).
That `Evaluate` plans such lists is shown branch by branch (`ApplySuits`,
`PlanGroupIsPrepared`): each is a part that only takes back, followed by a part
that applies one rule. When all lists are empty, what is left of `Prepared` is
that the processes to be limited have neither record (`LimitedFree`). The records
on disk are disjoint too, or a restart would bring two controls back.

**Menu.** `IInv` orders the states by the number at which they were built: shown
before those in the queue, those in the queue ascending, and those before the one
that the holder of `refreshMu` is about to send; there is at most one holder. The
number of commands ascends with it (`InOrder`), and `NeverGoesBack` follows.
`ClickedIsConfigured` states the marks of a menu from its building on, when nothing
is clicked yet; that no mark but those of the presets and of "Off" is in the menu
comes from the types.

**Generations.** `CreditsAreSpent` compares what a PID was credited with what was
spent under it, by whichever process. It is not inductive. `ListedInTime` adds
that lists and samples never run ahead of the machine, `SampleIsCredited` that the
unsampled part of the present process has not been given to another, and
`NewcomerIsUncounted` that a process that got its PID between list and sampling
has nothing credited, since it may be taken for the one that was listed.
`StopsRecorded` needs the types only, `NoStrayWithoutReuse` that a validated
process has its PID until the PID is given away (`CheckedIsCurrent`). `Sample`
adds up a growth that the module picks with CHOOSE; `OneGrowthPerPid` shows that
there is only one to pick. Assumptions: PIDs are positive, bounds are numbers.

**Settings.** `SettledInv` is inductive: the configuration in memory is one that
saving and loading leave as it is, the file is of a known kind, and neither has two
rules for an application. That every command leads from such a configuration to
another (`CommandCases` and one lemma for each command) is the larger part of the
proof; the other is that `LoadConfig` after `SaveConfig` gives back what was saved
(`LoadOfEncode`). `removeRule` keeps a list's other elements in their order; what
is needed of that (`SubsequenceFacts`) follows from least elements of sets of
numbers, without induction. Assumptions: matching is transitive on the
applications there are (`IdsAssumption`), and a file that decodes has at most one
rule for each (`FilesAssumption`). A file edited by hand may have two, and
commands do not repair that.

`UpgradeKeeps` follows the fields and the rules of a file through `MigrateConfig`
and the defaults: what is spelled out and in range comes out as it went in
(`StartKeepsPreferences`), and each rule with its application, mode, target and
places (`LoadedFields`, `MigrateRuleFacts`).

`ClicksContained` and `MarksWork` say what each command makes of the rule of its
key (`ClickTurns`), that it leaves the others alone (`Turns`), and that every row
of every menu shows the rule of its key (`RowsShow`). They are about the rows of
`ClearKeys` and assume nothing more of the identities. An identity with only a
path, which nothing but an edited file has, matches one with a bundle under
another key; of the rows of these two the properties are false, since a command
looks its rule up by match and the row by key (see Findings). A limit without a
target stays as it is, which `CheckMarksWork` says too.

**Grouping.** What `Group` computes is compared with `Application`, which climbs from
a process to its nearest ancestor with an application of its own. `Sound` says of
every entry of `pidToGroup` that some path of parents (`Chain`) leads to the
process it came from, `DirectsKnown` that nobody's own application is overlooked,
`Closed` that after the last pass nothing is left to join. They carry the proof
because such a path never comes back to where it was (`ChainIsShort`): from a
process that comes round again, the path would go round for ever and meet no
application. It is therefore shorter than there are processes, which is as far as
`Application` climbs (`NearestIsApplication`). Where parents go round in a circle
without an application, the processes stay alone on both sides
(`HomelessAreAlone`). The loops over lists and PIDs are recursive functions on the
natural numbers; that they have values at all (`LoopRuns`) and what each turn keeps
(`AllSteps`) follows from least elements of sets of numbers. `NoProcessEscapesItsSafety`
follows a decision through the loop over a group from the turn of one process on.
`PassesGetOn` is the safety half of `GroupingEnds`: each pass but the last takes a
process out of a finite set. Assumptions: PIDs are positive and finitely many,
lists are lists of them (a PID may even be listed twice), and no two
running applications have one main process.

**Only model-checked.** All liveness, since fairness is beyond the prover. And `Controller`
with crashes or an overlapping quit, as far as the theorems above exclude them:
there the properties are false, which is what the findings are.

## Findings

Runs that TLC finds violated, each against a sentence of the repository:

1. **`limit_to_pause`** A rule changes from limit to pause. `Refresh` executes
   the pause first and updates the limiter second; the worker that ends sends
   SIGCONT to the processes just recorded as paused, and since they are recorded
   nothing stops them again.
2. **`quit_overlaps`** `shutdownLocked` takes `mu` but not `refreshMu`: a refresh
   that copied the state earlier pauses processes after the shutdown restored
   them.

Seen in the same models, without a run of their own (the first three have a
configuration to repeat them by hand):

* A process is stopped before the file that would remember it is written; after a
  kill in between it stays stopped (`MCController` with `Controller_crash.cfg`;
  `refresh.go:110`).
* The plan of a duty cycle is computed from what the application got under the
  cycle in force. With refreshes as far apart as cycles (an interval of 10 s, which
  the user can set), an application whose demand quadruples while limited stays at
  four times its target (`MCDutyCycle` with `DutyCycle_rising.cfg`;
  `scheduler.go:330`).
* With Aggregate By Name off, standalone processes of one executable share an
  AppID. A quiet one clears the clock of the high one at every refresh (`MCAlerts`
  with `Alerts_siblings.cfg`; `high_cpu.go:70`).
* A SIGCONT that fails in a worker that ends, or is skipped because the look-up of
  the process fails, is not repeated, and nobody knows of the stop any more, though
  the comment of `stopEntryLocked` takes the processes for resumed: in
  `CPULimiter`, `StoppedIsOwned` is false without `refused` (`cpu_limiter.go:156`).
* A periodic wake resumes a paused group and keeps its record, so nothing stops
  it again (`RecordedAreStopped` in the instance of `controller_live`;
  `process_control.go:162`).
* A process started with a nice value between 1 and 19 is restored by
  `setpriority`, which leaves the background policy in force
  (`PriorityRestored` with such a `Niceness`; `priority_darwin.go:42`).
* A rule with a nice value from 1 to 19, which only an edited `config.json` can
  have, is not taken back where the process started with 0: the restoration of a 0
  runs `taskpolicy -B` and leaves the nice value (`priority_darwin.go:39`). This is
  why `NormalPriorities` is an assumption of the proofs.
* When the save at quitting fails, the next start believes the older file: a process
  that shutdown resumed is on record as paused, the menu says so, and nothing stops
  it (`RecordedAreStopped` in the instance of `controller_restore` with `SavesFail`; `controller.go:167`).
* Lower Priority uses `taskpolicy -b` and does not change the nice value to 20,
  as the README says (`priority_darwin.go:36`).
* With always-on rules only, the frontmost application is not asked for, and a
  group that audio or policy bars keeps what an earlier pause did, in front
  (`ForegroundRuns` with rules `Pause` and `PriorityAlways`; `scheduler.go:138`).
* A duty cycle that management had switched off comes back for an application
  that is below its target by then (`scheduler.go:335`).
* An application that was high, was not sampled for the duration and is high
  again is noticed at once (`high_cpu.go:65`).
* A rule that was edited by hand to name only a path matches a group with a bundle
  but has another key: the row is ticked, and un-ticking it does nothing
  (`commands.go:290`; `CheckMarksWork` is about `ClearKeys` for this reason, and the
  older file of `settings` has such a rule).
* A limit rule that was edited by hand and has no valid `cpuPercent` can be neither
  ticked nor un-ticked in "Track in": `upsertRule` refuses it, which is logged only
  (`preferences.go:222`; the edited file of `settings` has one).
* Un-ticking the last place of a rule that controls leaves the rule in force and in
  no menu while its application does not run (`rules.go:88`); a later mode gives it
  the default places again. Ticking a place of a managed application that does not
  run does nothing. This is why `CheckMarksWork` and `ClicksAreContained` name these
  two cases.
* Pause chosen twice on an application that is only among the managed ones removes
  its rule (`commands.go:265`).
* A process that takes over a PID between the check and a SIGSTOP is stopped and on
  no record under its own generation (`process_control.go:101`); `StopsAreRecorded`
  excepts it, `StraysNeedReuse` says that nothing else strays.
* After a click a state that was built before it can still arrive, so the panel
  shows the older value for a moment; "toggle" is relative, the menu's commands are
  not, and `FlipIcon` shows what that is worth.

## Not modelled

* **Statistics** (`core/stats.go`): counters that nothing reads back.
* **CPU arithmetic**: percentages of the system, ranking, smoothing and the
  history of the graph. Floating point over samples; no control depends on it
  beyond the numbers, which `Observe` leaves open.
* **Drawing**: titles, icons, layout, formatting, the graph, and the other items of
  the menus, which work like those in `Menu`.
* **Adapters** other than `SetPriority` and the list, look-up, sampling and signals
  of processes: their results are inputs.
* **Strings**: case folding, path cleaning, what `ClassifyProcess` looks at.
* **System policy**: battery, idle time and wake guards are an unconstrained input
  of `Observe`, hence every sequence of their answers is covered, but not how they
  are computed.
* In `Controller` a system call on a process that is alive succeeds, and PIDs are
  not reused; `Generations` has failing calls and reuse. Runs of `Controller` have one
  application; the theorems are about any number.
* Data races that are undefined in Go: the map in `stats` that a refresh and the
  shutdown share (`refresh.go:118`), and the slice of rules that `MigrateConfig`
  normalizes in place (`config.go:86`), where it writes what is there already.

## Plan

Done, in this order: the limiter with its contract and proofs; scheduler, process
control and controller; the duty cycle and the alerts with their proofs; the
settings, the grouping, the generations and the menu; the proofs about the
controller and the menu; those about the settings, the generations, and what the
controller saves and undoes; those about the grouping; failing saves. What is left, in order of its worth:

1. `Controller` composed with `LimiterContract`, in place of `LimiterStop` and
   `LimiterContinue`, with SIGCONTs that fail; the contract's `Close` is
   `UpdateLimiter`.
2. System policy as a module that produces what is unconstrained today: startup
   and wake grace, battery and idle time (`EvaluateSystemPolicy`,
   `ApplyWakeGrace`).
3. Failing calls in `Controller` itself.
4. Actions on the last place of a group: which process of a group is hidden when
   the first one exits, with three processes.
