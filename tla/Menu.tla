-------------------------------- MODULE Menu --------------------------------
(***************************************************************************)
(* How the menu bar learns of what changes, and the user changes what it   *)
(* shows.  A command of the main thread (menu_bar_bridge.m, menu_bar_      *)
(* darwin.go, commands.go) changes the configuration under controller.mu   *)
(* and leaves a goroutine that calls Refresh.  Refresh, under refreshMu,   *)
(* builds the view state at its commit and sends it through AppKit's main  *)
(* queue (refresh.go, view_state.go), where the bridge stores it, draws    *)
(* the open panel again, and builds later panels and menus from it.        *)
(*                                                                         *)
(* Of the view state the configuration is kept, and of that a switch of    *)
(* the panel (ManagementEnabled), a check mark of the preferences menu     *)
(* (ShowMenuBarIcon) and a choice of it that has an "Off"                  *)
(* (DisableWhenACBatteryAbove).  Reset Defaults closes the menu; the       *)
(* preferences leave it open, and tick their items themselves.             *)
(***************************************************************************)
EXTENDS Naturals, Sequences

CONSTANTS
  Presets,       \* the battery levels in the menu
  OtherLevels,   \* those that config.json may hold besides
  Off,           \* no battery level
  Closed,        \* a panel or a menu that is not open
  NoState,       \* nothing to send
  Workers,       \* goroutines that a command has left and that call Refresh
  Ticker,        \* the goroutine of the ticker
  MaxCommands,   \* bound on the commands
  MaxTicks       \* bound on the refreshes of the ticker

ASSUME LevelsAssumption == Off \notin Presets \cup OtherLevels
ASSUME TickerAssumption == Ticker \notin Workers
ASSUME BoundsAssumption == MaxCommands \in Nat /\ MaxTicks \in Nat

Refreshers == Workers \cup {Ticker}
Levels == Presets \cup OtherLevels \cup {Off}
Config == [enabled : BOOLEAN, icon : BOOLEAN, battery : Levels]
Defaults == [enabled |-> TRUE, icon |-> TRUE, battery |-> Off]

VARIABLES
  config,     \* controller.cfg.Preferences
  commands,   \* how many commands it has seen
  ticks,      \* how often the ticker has fired
  at,         \* where the call of Refresh of each goroutine is
  built,      \* how many view states were built
  post,       \* the view state that a goroutine is sending
  queue,      \* blocks of the main queue, by the view state each carries
  shown,      \* OpenTamerMenuBarController.state
  panel,      \* the view state that the open panel was drawn from
  menu        \* the preferences menu, [up, icon, battery, clicked]

program == <<config, commands>>
refreshes == <<ticks, at, built, post>>
vars == <<config, commands, ticks, at, built, post, queue, shown, panel, menu>>

ViewState == [number : Nat, commands : Nat, config : Config]

Init ==
  /\ config \in {[Defaults EXCEPT !.battery = level] : level \in Levels}
  /\ commands = 0
  /\ ticks = 0
  /\ at = [r \in Refreshers |-> "idle"]
  /\ post = [r \in Refreshers |-> NoState]
  \* Start has refreshed once, and then main installs InitialState.
  /\ built = 1
  /\ shown = [number |-> 1, commands |-> 0, config |-> config]
  /\ queue = <<shown>>
  /\ panel = Closed
  /\ menu = Closed

-----------------------------------------------------------------------------
(* Refresh, of which "holding" refreshMu and the commit are kept.          *)

Tick ==
  /\ at[Ticker] = "idle" /\ ticks < MaxTicks
  /\ ticks' = ticks + 1
  /\ at' = [at EXCEPT ![Ticker] = "waiting"]
  /\ UNCHANGED <<program, built, post, queue, shown, panel, menu>>

(* Mutant: refreshMu is released before the state is sent.                 *)
LockUntilBuilt(r) ==
  /\ at[r] = "waiting"
  /\ \A s \in Refreshers : at[s] # "observing"
  /\ at' = [at EXCEPT ![r] = "observing"]
  /\ UNCHANGED <<program, ticks, built, post, queue, shown, panel, menu>>

Lock(r) ==
  /\ at[r] = "waiting"
  /\ \A s \in Refreshers : at[s] \notin {"observing", "posting"}
  /\ at' = [at EXCEPT ![r] = "observing"]
  /\ UNCHANGED <<program, ticks, built, post, queue, shown, panel, menu>>

(* buildMenuBarStateLocked, under controller.mu at the end of Refresh: it  *)
(* reads the configuration as it is now.                                   *)
Build(r) ==
  /\ at[r] = "observing"
  /\ at' = [at EXCEPT ![r] = "posting"]
  /\ built' = built + 1
  /\ post' = [post EXCEPT ![r] = [number |-> built + 1, commands |-> commands,
                                  config |-> config]]
  /\ UNCHANGED <<program, ticks, queue, shown, panel, menu>>

(* updater.UpdateMenuBarState: dispatch_async, and refreshMu is free.      *)
Post(r) ==
  /\ at[r] = "posting"
  /\ queue' = Append(queue, post[r])
  /\ at' = [at EXCEPT ![r] = "idle"]
  /\ post' = [post EXCEPT ![r] = NoState]
  /\ UNCHANGED <<program, ticks, built, shown, panel, menu>>

RefreshStep == \E r \in Refreshers : Lock(r) \/ Build(r) \/ Post(r)

-----------------------------------------------------------------------------
(* The main thread.                                                        *)

IsUp == menu # Closed /\ menu.up

(* Mutant: as for an open menu, the panel is left until it closes.         *)
UpdateClosedPanel ==
  /\ queue # <<>> /\ ~IsUp
  /\ shown' = Head(queue)
  /\ queue' = Tail(queue)
  /\ UNCHANGED <<program, refreshes, panel, menu>>

(* updateWithState.  The menu is put up by a block of the main queue, and  *)
(* the others wait for its end.                                            *)
UpdateWithState ==
  /\ queue # <<>> /\ ~IsUp
  /\ shown' = Head(queue)
  /\ queue' = Tail(queue)
  /\ panel' = IF panel = Closed THEN Closed ELSE Head(queue)
  /\ UNCHANGED <<program, refreshes, menu>>

ShowPanel ==
  /\ panel = Closed /\ ~IsUp
  /\ panel' = shown
  /\ UNCHANGED <<program, refreshes, queue, shown, menu>>

ClosePanel ==
  /\ panel # Closed
  /\ panel' = Closed
  /\ UNCHANGED <<program, refreshes, queue, shown, menu>>

(* HandleMenuCommand: the configuration changes under controller.mu, and a *)
(* new goroutine, whichever, calls Refresh.                                *)
HandleMenuCommand(changed) ==
  /\ commands < MaxCommands
  /\ config' = changed
  /\ commands' = commands + 1
  /\ \E r \in Workers : at[r] = "idle"
  /\ at' = [at EXCEPT ![CHOOSE r \in Workers : at[r] = "idle"] = "waiting"]
  /\ UNCHANGED <<ticks, built, post, queue, shown>>

(* The buttons "toggle" and "refresh" of the panel.                        *)
ClickToggle ==
  /\ panel # Closed /\ ~IsUp
  /\ HandleMenuCommand([config EXCEPT !.enabled = ~@])
  /\ UNCHANGED <<panel, menu>>

ClickRefresh ==
  /\ panel # Closed /\ ~IsUp
  /\ HandleMenuCommand(config)
  /\ UNCHANGED <<panel, menu>>

(* "preferences" builds the menu at the click and shows it 80 ms later.    *)
OpenPreferences ==
  /\ panel # Closed /\ menu = Closed
  /\ menu' = [up |-> FALSE, icon |-> shown.config.icon,
              battery |-> {shown.config.battery} \ OtherLevels, clicked |-> {}]
  /\ UNCHANGED <<program, refreshes, queue, shown, panel>>

PopUpMenu ==
  /\ menu # Closed /\ ~menu.up
  /\ menu' = [menu EXCEPT !.up = TRUE]
  /\ UNCHANGED <<program, refreshes, queue, shown, panel>>

CloseMenu ==
  /\ IsUp
  /\ menu' = Closed
  /\ UNCHANGED <<program, refreshes, queue, shown, panel>>

(* Mutant: the command says "the other value", as toggle-management does.  *)
FlipIcon ==
  /\ IsUp
  /\ HandleMenuCommand([config EXCEPT !.icon = ~@])
  /\ menu' = [menu EXCEPT !.icon = ~@, !.clicked = @ \cup {"icon"}]
  /\ UNCHANGED panel

(* pref-bool: the item's command names the value that it will have, and    *)
(* updateMenuItem turns the check mark and the command around.             *)
ClickIcon ==
  /\ IsUp
  /\ HandleMenuCommand([config EXCEPT !.icon = ~menu.icon])
  /\ menu' = [menu EXCEPT !.icon = ~@, !.clicked = @ \cup {"icon"}]
  /\ UNCHANGED panel

(* pref-float: markMenuItem clears the presets, setPreferenceOffItem the   *)
(* "Off".                                                                  *)
ClickPreset(level) ==
  /\ IsUp
  /\ HandleMenuCommand([config EXCEPT !.battery = level])
  /\ menu' = [menu EXCEPT !.battery = ((@ \ Presets) \cup {level}) \ {Off},
                          !.clicked = @ \cup {"battery"}]
  /\ UNCHANGED panel

(* pref-clear: clearPreferencePresetItems.                                 *)
ClickOff ==
  /\ IsUp
  /\ HandleMenuCommand([config EXCEPT !.battery = Off])
  /\ menu' = [menu EXCEPT !.battery = (@ \cup {Off}) \ Presets,
                          !.clicked = @ \cup {"battery"}]
  /\ UNCHANGED panel

ClickDefaults ==
  /\ IsUp
  /\ HandleMenuCommand(Defaults)
  /\ menu' = Closed
  /\ UNCHANGED panel

User == \/ ShowPanel \/ ClosePanel \/ ClickToggle \/ ClickRefresh
        \/ OpenPreferences \/ CloseMenu
        \/ ClickIcon \/ (\E level \in Presets : ClickPreset(level)) \/ ClickOff
        \/ ClickDefaults

Next == Tick \/ RefreshStep \/ UpdateWithState \/ PopUpMenu \/ User

Spec == Init /\ [][Next]_vars

(* Refresh returns and the mutex is handed on.  The main queue is first    *)
(* in, first out: a state that waits in it while a menu is up comes before *)
(* the next menu.                                                          *)
Fairness == WF_vars(RefreshStep) /\ SF_vars(UpdateWithState)

FairSpec == Spec /\ Fairness

-----------------------------------------------------------------------------
(* The menu bar never falls back to an older state, however many           *)
(* goroutines refresh at a time.                                           *)
ShownNeverGoesBack ==
  [][/\ shown.number <= shown'.number
     /\ shown.commands <= shown'.commands]_shown

(* What the user has clicked in the open menu is what is configured, even  *)
(* if the menu was out of date when it opened.                             *)
MarksAreTrue ==
  IsUp => /\ "icon" \in menu.clicked => menu.icon = config.icon
          /\ "battery" \in menu.clicked => menu.battery = {config.battery}

(* Every command shows in the panel in the end, also in one that stays     *)
(* open, as long as menus are closed again.                                *)
PanelCatchesUp ==
  []<>(~IsUp) =>
    \A n \in 1 .. MaxCommands :
      commands = n ~> [](panel = Closed \/ panel.commands >= n)

=============================================================================
