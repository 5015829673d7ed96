----------------------------- MODULE Menu_proofs ----------------------------
(***************************************************************************)
(* Proofs about Menu, for any number of goroutines, commands and ticks:    *)
(* the view states reach the menu bar in the order in which they were      *)
(* built, and the ticks of an open menu are those of the configuration.    *)
(***************************************************************************)
EXTENDS Menu, TLAPS

USE LevelsAssumption, TickerAssumption, BoundsAssumption

MenuState == [up : BOOLEAN, icon : BOOLEAN, battery : SUBSET (Presets \cup {Off}),
              clicked : SUBSET {"icon", "battery"}]

TypeOK ==
  /\ config \in Config
  /\ commands \in Nat
  /\ at \in [Refreshers -> {"idle", "waiting", "observing", "posting"}]
  /\ built \in Nat
  /\ post \in [Refreshers -> ViewState \cup {NoState}]
  /\ \A r \in Refreshers : at[r] = "posting" => post[r] \in ViewState
  /\ queue \in Seq(ViewState)
  /\ shown \in ViewState
  /\ menu \in MenuState \cup {Closed}

Older(s, t) == s.number <= t.number /\ s.commands <= t.commands

(* One goroutine at a time is between the observation and the end.         *)
OneHolder ==
  \A r, s \in Refreshers :
    at[r] \in {"observing", "posting"} /\ at[s] \in {"observing", "posting"}
      => r = s

(* The menu bar, then the main queue, then the state that is being sent,   *)
(* then the program.                                                       *)
QueueInOrder ==
  \A i, j \in 1 .. Len(queue) : i <= j => Older(queue[i], queue[j])

ShownIsOldest == \A i \in 1 .. Len(queue) : Older(shown, queue[i])

NoneIsNewer ==
  /\ shown.number <= built /\ shown.commands <= commands
  /\ \A i \in 1 .. Len(queue) :
       queue[i].number <= built /\ queue[i].commands <= commands

PostIsNewest ==
  \A r \in Refreshers :
    at[r] = "posting" =>
      /\ post[r].number <= built /\ post[r].commands <= commands
      /\ Older(shown, post[r])
      /\ \A i \in 1 .. Len(queue) : Older(queue[i], post[r])

InOrder == OneHolder /\ QueueInOrder /\ ShownIsOldest /\ NoneIsNewer /\ PostIsNewest

(* What was clicked is configured; nothing is clicked before the menu is   *)
(* up.                                                                     *)
ClickedIsConfigured ==
  menu # Closed =>
    /\ ~menu.up => menu.clicked = {}
    /\ "icon" \in menu.clicked => menu.icon = config.icon
    /\ "battery" \in menu.clicked => menu.battery = {config.battery}

IInv == TypeOK /\ InOrder /\ ClickedIsConfigured

-----------------------------------------------------------------------------
LEMMA InitIInv == Init => IInv
<1> SUFFICES ASSUME Init PROVE IInv
  OBVIOUS
<1>1. config \in Config
  BY DEF Init, Config, Defaults, Levels
<1>2. shown \in ViewState /\ shown.number = 1 /\ shown.commands = 0
  BY <1>1 DEF Init, ViewState
<1>3. queue \in Seq(ViewState) /\ Len(queue) = 1 /\ queue[1] = shown
  BY <1>2 DEF Init
<1>4. TypeOK
  BY <1>1, <1>2, <1>3 DEF Init, TypeOK
<1>5. InOrder
  BY <1>2, <1>3 DEF Init, InOrder, OneHolder, QueueInOrder, ShownIsOldest,
     NoneIsNewer, PostIsNewest, Older
<1>6. ClickedIsConfigured
  BY DEF Init, ClickedIsConfigured
<1>. QED
  BY <1>4, <1>5, <1>6 DEF IInv

(* A command: the program moves on, what was built stays as it is.         *)
LEMMA CommandIInv ==
  ASSUME IInv, NEW changed \in Config, HandleMenuCommand(changed)
  PROVE  /\ InOrder'
         /\ menu' \in MenuState \cup {Closed} => TypeOK'
<1>1. PICK w \in Workers : at[w] = "idle" /\ at' = [at EXCEPT ![w] = "waiting"]
  <2>. DEFINE w == CHOOSE r \in Workers : at[r] = "idle"
  <2>1. w \in Workers /\ at[w] = "idle" /\ at' = [at EXCEPT ![w] = "waiting"]
    BY DEF HandleMenuCommand
  <2>. QED
    BY <2>1
<1>2. /\ config' = changed /\ commands' = commands + 1
      /\ UNCHANGED <<ticks, built, post, queue, shown>>
  BY DEF HandleMenuCommand
<1>3. w \in Refreshers /\ \A r \in Refreshers : at'[r] = IF r = w THEN "waiting" ELSE at[r]
  BY <1>1 DEF IInv, TypeOK, Refreshers
<1>4. ASSUME menu' \in MenuState \cup {Closed} PROVE TypeOK'
  BY <1>1, <1>2, <1>3, <1>4 DEF IInv, TypeOK
<1>5. OneHolder' /\ QueueInOrder' /\ ShownIsOldest'
  BY <1>2, <1>3 DEF IInv, InOrder, OneHolder, QueueInOrder, ShownIsOldest
<1>6. \A n \in Nat : n <= commands => n <= commands'
  BY <1>2 DEF IInv, TypeOK
<1>7. /\ shown.commands \in Nat
      /\ \A i \in 1 .. Len(queue) : queue[i] \in ViewState
      /\ \A r \in Refreshers : at[r] = "posting" => post[r] \in ViewState
  <2>1. shown \in ViewState /\ queue \in Seq(ViewState)
        /\ \A r \in Refreshers : at[r] = "posting" => post[r] \in ViewState
    BY DEF IInv, TypeOK
  <2>2. shown.commands \in Nat
    BY <2>1 DEF ViewState
  <2>. QED
    BY <2>1, <2>2
<1>8. NoneIsNewer'
  BY <1>2, <1>6, <1>7 DEF IInv, InOrder, NoneIsNewer, ViewState
<1>9. PostIsNewest'
  BY <1>2, <1>3, <1>6, <1>7 DEF IInv, InOrder, PostIsNewest, ViewState
<1>. QED
  BY <1>4, <1>5, <1>8, <1>9 DEF InOrder

LEMMA ConfigWith ==
  ASSUME config \in Config
  PROVE  /\ \A b \in BOOLEAN : [config EXCEPT !.enabled = b] \in Config
         /\ \A b \in BOOLEAN : [config EXCEPT !.icon = b] \in Config
         /\ \A level \in Levels : [config EXCEPT !.battery = level] \in Config
         /\ Defaults \in Config
         /\ config.enabled \in BOOLEAN
  BY DEF Config, Defaults, Levels

(* The states that were built stay in order.                               *)
LEMMA NextInOrder == ASSUME IInv, Next PROVE InOrder'
<1>1. CASE Tick
  <2>1. \A r \in Refreshers : at'[r] = "waiting" \/ at'[r] = at[r]
    BY <1>1 DEF Tick, IInv, TypeOK
  <2>. QED
    BY <1>1, <2>1 DEF Tick, program, IInv, InOrder, OneHolder, QueueInOrder, ShownIsOldest,
       NoneIsNewer, PostIsNewest
<1>2. ASSUME NEW r \in Refreshers, Lock(r) PROVE InOrder'
  <2>1. /\ \A s \in Refreshers : at'[s] = IF s = r THEN "observing" ELSE at[s]
        /\ \A s \in Refreshers : at[s] \notin {"observing", "posting"}
    BY <1>2 DEF Lock, IInv, TypeOK
  <2>. QED
    BY <1>2, <2>1 DEF Lock, program, IInv, InOrder, OneHolder, QueueInOrder, ShownIsOldest,
       NoneIsNewer, PostIsNewest
<1>3. ASSUME NEW r \in Refreshers, Build(r) PROVE InOrder'
  <2>1. \A s \in Refreshers : at'[s] = IF s = r THEN "posting" ELSE at[s]
    BY <1>3 DEF Build, IInv, TypeOK
  <2>2. post'[r].number = built + 1 /\ post'[r].commands = commands
    BY <1>3 DEF Build, IInv, TypeOK
  <2>3. at[r] = "observing" /\ built' = built + 1
        /\ UNCHANGED <<config, commands, queue, shown>>
    BY <1>3 DEF Build, program
  <2>4. OneHolder' /\ \A s \in Refreshers : at'[s] = "posting" => s = r
    BY <2>1, <2>3 DEF IInv, InOrder, OneHolder
  <2>5. /\ shown \in ViewState
        /\ \A i \in 1 .. Len(queue) : queue[i] \in ViewState
    BY DEF IInv, TypeOK
  <2>6. NoneIsNewer'
    BY <2>3, <2>5 DEF IInv, TypeOK, InOrder, NoneIsNewer, ViewState
  <2>7. PostIsNewest'
    BY <2>2, <2>3, <2>4, <2>5 DEF IInv, TypeOK, InOrder, NoneIsNewer, PostIsNewest, Older,
       ViewState
  <2>8. QueueInOrder' /\ ShownIsOldest'
    BY <2>3 DEF IInv, InOrder, QueueInOrder, ShownIsOldest
  <2>. QED
    BY <2>4, <2>6, <2>7, <2>8 DEF InOrder
<1>4. ASSUME NEW r \in Refreshers, Post(r) PROVE InOrder'
  <2>1. /\ at[r] = "posting" /\ post[r] \in ViewState /\ queue' = Append(queue, post[r])
        /\ UNCHANGED <<commands, built, shown>>
    BY <1>4 DEF Post, program, IInv, TypeOK
  <2>2. \A s \in Refreshers : at'[s] = IF s = r THEN "idle" ELSE at[s]
    BY <1>4 DEF Post, IInv, TypeOK
  <2>3. OneHolder' /\ \A s \in Refreshers : at'[s] # "posting"
    BY <2>1, <2>2 DEF IInv, InOrder, OneHolder
  <2>4. /\ queue \in Seq(ViewState)
        /\ Len(queue') = Len(queue) + 1
        /\ queue'[Len(queue) + 1] = post[r]
        /\ \A i \in 1 .. Len(queue) : queue'[i] = queue[i]
    BY <2>1 DEF IInv, TypeOK
  <2>5. \A i \in 1 .. Len(queue') : i \in 1 .. Len(queue) \/ i = Len(queue) + 1
    BY <2>4
  <2>6. /\ \A i \in 1 .. Len(queue) : Older(queue[i], post[r])
        /\ Older(shown, post[r]) /\ Older(post[r], post[r])
        /\ post[r].number <= built /\ post[r].commands <= commands
    BY <2>1 DEF IInv, InOrder, PostIsNewest, Older, ViewState
  <2>7. QueueInOrder'
    <3> SUFFICES ASSUME NEW i \in 1 .. Len(queue'), NEW j \in 1 .. Len(queue'), i <= j
                 PROVE  Older(queue'[i], queue'[j])
      BY DEF QueueInOrder
    <3>1. CASE j \in 1 .. Len(queue)
      <4>1. i \in 1 .. Len(queue)
        BY <3>1, <2>4
      <4>. QED
        BY <3>1, <4>1, <2>4 DEF IInv, InOrder, QueueInOrder
    <3>2. CASE j = Len(queue) + 1
      BY <3>2, <2>4, <2>5, <2>6
    <3>. QED
      BY <3>1, <3>2, <2>5
  <2>8. ShownIsOldest'
    BY <2>1, <2>4, <2>5, <2>6 DEF IInv, InOrder, ShownIsOldest
  <2>9. NoneIsNewer'
    BY <2>1, <2>4, <2>5, <2>6 DEF IInv, InOrder, NoneIsNewer
  <2>. QED
    BY <2>3, <2>7, <2>8, <2>9 DEF InOrder, PostIsNewest
<1>5. CASE UpdateWithState
  <2>1. /\ queue # <<>> /\ queue \in Seq(ViewState)
        /\ shown' = queue[1] /\ queue' = Tail(queue)
        /\ UNCHANGED <<commands, at, built, post>>
    BY <1>5 DEF UpdateWithState, program, refreshes, IInv, TypeOK
  <2>2. /\ 1 \in 1 .. Len(queue)
        /\ \A i \in 1 .. Len(queue') : i + 1 \in 1 .. Len(queue) /\ queue'[i] = queue[i + 1]
    BY <2>1
  <2>3. QueueInOrder'
    <3> SUFFICES ASSUME NEW i \in 1 .. Len(queue'), NEW j \in 1 .. Len(queue'), i <= j
                 PROVE  Older(queue'[i], queue'[j])
      BY DEF QueueInOrder
    <3>1. i + 1 <= j + 1
      BY <2>1
    <3>. QED
      BY <2>2, <3>1 DEF IInv, InOrder, QueueInOrder
  <2>4. ShownIsOldest'
    <3> SUFFICES ASSUME NEW i \in 1 .. Len(queue')
                 PROVE  Older(queue[1], queue[i + 1])
      BY <2>1, <2>2 DEF ShownIsOldest
    <3>1. 1 <= i + 1
      BY <2>1
    <3>. QED
      BY <2>2, <3>1 DEF IInv, InOrder, QueueInOrder
  <2>5. NoneIsNewer' /\ OneHolder'
    BY <2>1, <2>2 DEF IInv, InOrder, NoneIsNewer, OneHolder
  <2>6. PostIsNewest'
    BY <2>1, <2>2 DEF IInv, InOrder, PostIsNewest
  <2>. QED
    BY <2>3, <2>4, <2>5, <2>6 DEF InOrder
<1>6. CASE PopUpMenu \/ ShowPanel \/ ClosePanel \/ OpenPreferences \/ CloseMenu
  BY <1>6 DEF PopUpMenu, ShowPanel, ClosePanel, OpenPreferences, CloseMenu, program, refreshes,
     IInv, InOrder, OneHolder, QueueInOrder, ShownIsOldest, NoneIsNewer, PostIsNewest
<1>7. CASE ClickToggle \/ ClickRefresh \/ ClickIcon \/ ClickOff \/ ClickDefaults
           \/ \E level \in Presets : ClickPreset(level)
  <2>1. \E changed \in Config : HandleMenuCommand(changed)
    <3>1. config \in Config /\ (menu # Closed => menu.icon \in BOOLEAN)
      BY DEF IInv, TypeOK, MenuState
    <3>2. CASE ClickToggle \/ ClickRefresh \/ ClickDefaults
      BY <3>1, <3>2, ConfigWith DEF ClickToggle, ClickRefresh, ClickDefaults
    <3>3. CASE ClickIcon
      <4>1. (~menu.icon) \in BOOLEAN
        BY <3>1, <3>3 DEF ClickIcon, IsUp
      <4>. QED
        BY <3>1, <3>3, <4>1, ConfigWith DEF ClickIcon
    <3>4. CASE ClickOff \/ \E level \in Presets : ClickPreset(level)
      BY <3>1, <3>4, ConfigWith DEF ClickOff, ClickPreset, Levels
    <3>. QED
      BY <1>7, <3>2, <3>3, <3>4
  <2>. QED
    BY <2>1, CommandIInv
<1>. QED
  BY <1>1, <1>2, <1>3, <1>4, <1>5, <1>6, <1>7 DEF Next, RefreshStep, User

(* A click in the menu leaves a menu, and configures what it ticks.        *)
LEMMA ClicksAreConfigured ==
  ASSUME IInv, NEW level, ClickIcon \/ ClickOff \/ (level \in Presets /\ ClickPreset(level))
  PROVE  /\ menu' \in MenuState
         /\ menu'.up
         /\ "icon" \in menu'.clicked => menu'.icon = config'.icon
         /\ "battery" \in menu'.clicked => menu'.battery = {config'.battery}
<1>1. /\ menu \in MenuState /\ menu.up /\ config \in Config
      /\ "icon" \in menu.clicked => menu.icon = config.icon
      /\ "battery" \in menu.clicked => menu.battery = {config.battery}
  BY DEF IInv, TypeOK, ClickedIsConfigured, ClickIcon, ClickOff, ClickPreset, IsUp
<1>2. CASE ClickIcon
  <2>1. /\ config' = [config EXCEPT !.icon = ~menu.icon]
        /\ menu' = [menu EXCEPT !.icon = ~@, !.clicked = @ \cup {"icon"}]
    BY <1>2 DEF ClickIcon, HandleMenuCommand
  <2>. QED
    BY <1>1, <2>1 DEF MenuState, Config
<1>3. CASE ClickOff
  <2>1. /\ config' = [config EXCEPT !.battery = Off]
        /\ menu' = [menu EXCEPT !.battery = (@ \cup {Off}) \ Presets,
                                !.clicked = @ \cup {"battery"}]
    BY <1>3 DEF ClickOff, HandleMenuCommand
  <2>2. (menu.battery \cup {Off}) \ Presets = {Off}
    BY <1>1 DEF MenuState
  <2>. QED
    BY <1>1, <2>1, <2>2 DEF MenuState, Config
<1>4. CASE (level \in Presets /\ ClickPreset(level))
  <2>1. /\ config' = [config EXCEPT !.battery = level]
        /\ menu' = [menu EXCEPT !.battery = ((@ \ Presets) \cup {level}) \ {Off},
                                !.clicked = @ \cup {"battery"}]
    BY <1>4 DEF ClickPreset, HandleMenuCommand
  <2>2. ((menu.battery \ Presets) \cup {level}) \ {Off} = {level}
    BY <1>1, <1>4 DEF MenuState
  <2>. QED
    BY <1>1, <1>4, <2>1, <2>2 DEF MenuState, Config
<1>. QED
  BY <1>2, <1>3, <1>4

LEMMA NextTypes == ASSUME IInv, Next PROVE TypeOK' /\ ClickedIsConfigured'
<1>1. ASSUME NEW r \in Refreshers, Lock(r) \/ Build(r) \/ Post(r)
      PROVE  TypeOK' /\ ClickedIsConfigured'
  <2>1. UNCHANGED <<config, commands, menu, shown>>
    BY <1>1 DEF Lock, Build, Post, program
  <2>2. ClickedIsConfigured'
    BY <2>1 DEF IInv, ClickedIsConfigured
  <2>3. CASE Lock(r)
    <3>1. \A s \in Refreshers : at'[s] = IF s = r THEN "observing" ELSE at[s]
      BY <2>3 DEF Lock, IInv, TypeOK
    <3>2. \A s \in Refreshers : at'[s] = "posting" => post'[s] \in ViewState
      BY <2>3, <3>1 DEF Lock, IInv, TypeOK
    <3>. QED
      BY <2>1, <2>2, <2>3, <3>2 DEF Lock, IInv, TypeOK
  <2>4. CASE Build(r)
    <3>. DEFINE state == [number |-> built + 1, commands |-> commands, config |-> config]
    <3>1. state \in ViewState
      BY DEF IInv, TypeOK, ViewState
    <3>2. post' = [post EXCEPT ![r] = state] /\ UNCHANGED queue
          /\ at' = [at EXCEPT ![r] = "posting"] /\ built' = built + 1
      BY <2>4 DEF Build
    <3>. HIDE DEF state
    <3>3. \A s \in Refreshers : at'[s] = "posting" => post'[s] \in ViewState
      BY <3>1, <3>2 DEF IInv, TypeOK
    <3>. QED
      BY <2>1, <2>2, <3>1, <3>2, <3>3 DEF IInv, TypeOK
  <2>5. CASE Post(r)
    <3>1. post[r] \in ViewState /\ queue' = Append(queue, post[r]) /\ built' = built
          /\ post' = [post EXCEPT ![r] = NoState] /\ at' = [at EXCEPT ![r] = "idle"]
      BY <2>5 DEF Post, IInv, TypeOK
    <3>2. queue' \in Seq(ViewState)
      BY <3>1 DEF IInv, TypeOK
    <3>3. \A s \in Refreshers : at'[s] = "posting" => post'[s] \in ViewState
      BY <3>1 DEF IInv, TypeOK
    <3>. QED
      BY <2>1, <2>2, <3>1, <3>2, <3>3 DEF IInv, TypeOK
  <2>. QED
    BY <1>1, <2>2, <2>3, <2>4, <2>5
<1>2. CASE Tick
  BY <1>2 DEF Tick, program, IInv, TypeOK, ClickedIsConfigured, Refreshers
<1>3. CASE UpdateWithState \/ ShowPanel \/ ClosePanel
  BY <1>3 DEF UpdateWithState, ShowPanel, ClosePanel, program, refreshes, IInv, TypeOK,
     ClickedIsConfigured
<1>4. CASE PopUpMenu \/ CloseMenu
  BY <1>4 DEF PopUpMenu, CloseMenu, program, refreshes, IInv, TypeOK, ClickedIsConfigured,
     MenuState
<1>5. CASE OpenPreferences
  <2>1. shown.config.icon \in BOOLEAN /\ {shown.config.battery} \ OtherLevels
                                            \in SUBSET (Presets \cup {Off})
    BY DEF IInv, TypeOK, ViewState, Config, Levels
  <2>2. menu' \in MenuState /\ menu'.clicked = {}
    BY <1>5, <2>1 DEF OpenPreferences, MenuState
  <2>. QED
    BY <1>5, <2>2 DEF OpenPreferences, program, refreshes, IInv, TypeOK, ClickedIsConfigured
<1>6. CASE ClickToggle \/ ClickRefresh
  <2>1. config \in Config /\ config.enabled \in BOOLEAN
    BY ConfigWith DEF IInv, TypeOK
  <2>2. PICK changed \in Config : /\ HandleMenuCommand(changed)
                                  /\ changed.icon = config.icon
                                  /\ changed.battery = config.battery
    <3>1. CASE ClickToggle
      <4>. DEFINE changed == [config EXCEPT !.enabled = ~@]
      <4>1. changed \in Config /\ changed.icon = config.icon /\ changed.battery = config.battery
        BY <2>1 DEF Config
      <4>. QED
        BY <3>1, <4>1 DEF ClickToggle
    <3>2. CASE ClickRefresh
      BY <2>1, <3>2 DEF ClickRefresh
    <3>. QED
      BY <1>6, <3>1, <3>2
  <2>3. menu' = menu /\ config'.icon = config.icon /\ config'.battery = config.battery
    BY <1>6, <2>2 DEF ClickToggle, ClickRefresh, HandleMenuCommand
  <2>4. TypeOK'
    BY <2>2, <2>3, CommandIInv DEF IInv, TypeOK
  <2>. QED
    BY <2>3, <2>4 DEF IInv, ClickedIsConfigured
<1>7. CASE ClickDefaults
  <2>1. HandleMenuCommand(Defaults) /\ Defaults \in Config /\ menu' = Closed
    BY <1>7, ConfigWith DEF ClickDefaults, IInv, TypeOK
  <2>. QED
    BY <2>1, CommandIInv DEF ClickedIsConfigured
<1>8. ASSUME NEW level, ClickIcon \/ ClickOff \/ (level \in Presets /\ ClickPreset(level))
      PROVE  TypeOK' /\ ClickedIsConfigured'
  <2>1. config \in Config /\ (menu # Closed => menu.icon \in BOOLEAN)
    BY DEF IInv, TypeOK, MenuState
  <2>2. PICK changed \in Config : HandleMenuCommand(changed)
    <3>1. CASE ClickIcon
      <4>1. (~menu.icon) \in BOOLEAN
        BY <2>1, <3>1 DEF ClickIcon, IsUp
      <4>. QED
        BY <2>1, <3>1, <4>1, ConfigWith DEF ClickIcon
    <3>2. CASE ClickOff \/ (level \in Presets /\ ClickPreset(level))
      BY <2>1, <3>2, ConfigWith DEF ClickOff, ClickPreset, Levels
    <3>. QED
      BY <1>8, <3>1, <3>2
  <2>3. TypeOK'
    BY <1>8, <2>2, CommandIInv, ClicksAreConfigured
  <2>. QED
    BY <1>8, <2>3, ClicksAreConfigured DEF ClickedIsConfigured
<1>. QED
  BY <1>1, <1>2, <1>3, <1>4, <1>5, <1>6, <1>7, <1>8 DEF Next, RefreshStep, User

-----------------------------------------------------------------------------
(* The invariant: what is on its way is in the order of its making, and    *)
(* what is ticked in the menu is configured.                               *)
THEOREM Invariant == Spec => []IInv
<1>1. ASSUME IInv, [Next]_vars PROVE IInv'
  <2>1. CASE Next
    BY <1>1, <2>1, NextInOrder, NextTypes DEF IInv
  <2>2. CASE UNCHANGED vars
    BY <1>1, <2>2 DEF vars, IInv, TypeOK, InOrder, OneHolder, QueueInOrder, ShownIsOldest,
       NoneIsNewer, PostIsNewest, ClickedIsConfigured
  <2>. QED
    BY <1>1, <2>1, <2>2
<1>. QED
  BY <1>1, InitIInv, PTL DEF Spec

(* updateWithState never replaces a view state by an older one             *)
(* (menu_bar_bridge.m), however many goroutines call Refresh.              *)
THEOREM NeverGoesBack == Spec => ShownNeverGoesBack
<1>1. ASSUME IInv, [Next]_vars
      PROVE  [shown.number <= shown'.number /\ shown.commands <= shown'.commands]_shown
  <2>1. CASE UpdateWithState
    <3>1. queue \in Seq(ViewState) /\ queue # <<>> /\ shown' = queue[1]
      BY <1>1, <2>1 DEF UpdateWithState, IInv, TypeOK
    <3>2. 1 \in 1 .. Len(queue)
      BY <3>1
    <3>. QED
      BY <1>1, <3>1, <3>2 DEF IInv, InOrder, ShownIsOldest, Older
  <2>2. CASE Tick \/ RefreshStep \/ PopUpMenu \/ UNCHANGED vars
    BY <2>2 DEF Tick, RefreshStep, Lock, Build, Post, PopUpMenu, vars
  <2>3. CASE User
    BY <2>3 DEF User, ShowPanel, ClosePanel, ClickToggle, ClickRefresh, OpenPreferences, CloseMenu,
       ClickIcon, ClickPreset, ClickOff, ClickDefaults, HandleMenuCommand
  <2>. QED
    BY <1>1, <2>1, <2>2, <2>3 DEF Next
<1>. QED
  BY <1>1, Invariant, PTL DEF Spec, ShownNeverGoesBack

(* The ticks of updateMenuItem (menu_bar_bridge.m) agree with controller.  *)
(* cfg, also in a menu that was built from a state out of date.            *)
THEOREM TicksAreConfigured == Spec => []MarksAreTrue
<1>1. IInv => MarksAreTrue
  BY DEF IInv, ClickedIsConfigured, MarksAreTrue, IsUp
<1>. QED
  BY <1>1, Invariant, PTL

=============================================================================
