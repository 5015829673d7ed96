------------------------------ MODULE Settings -----------------------------
(***************************************************************************)
(* The configuration while the program runs, is quit, crashes and starts   *)
(* again: menu commands change it under controller.mu                      *)
(* (handleMenuCommandLocked) and each writes config.json before it lets    *)
(* the mutex go (saveConfigLocked), by a temporary file that is renamed    *)
(* (writeJSON).  What a click means depends on the groups that the last    *)
(* Refresh has observed, which may be any at any click.                    *)
(*                                                                         *)
(* Left out: the other preferences, the fields of a rule that no command   *)
(* reads back, and the refresh that follows a command.                     *)
(***************************************************************************)
EXTENDS ConfigStore

CONSTANTS
  Ids,          \* the applications, as identities
  Controls,     \* the controllabilities they can have
  Values,       \* the values that the menu offers, by preference
  Files,        \* the files that the first start may find
  MaxFailures   \* bound: failed writes

(* At most one rule applies to an application.                             *)
OneRule(rules) == \A id \in Ids : \A i, j \in MatchingAt(rules, id) : i = j

(* The strings; those that the code names are listed for the provers, which *)
(* do not know that a literal is one.                                      *)
Words == STRING \cup Places \cup Themes
           \cup {"", "none", "tray", "observe", "pause", "priority", "limit"}

Rule == [id : Ids, mode : Words, trackIn : SUBSET Words, target : BOOLEAN]

Optional(S) == {o \in SUBSET S : \A x, y \in o : x = y}
ConfigFile ==
  [kind : {"config"}, management : Optional(BOOLEAN), limiter : Optional(BOOLEAN),
   interval : Optional(Int), grace : Optional(Int), window : Optional(Int),
   theme : Optional(Words), battery : Optional(Int), startup : Optional(Int),
   rules : Seq(Rule)]

(* An application is not taken for two others that differ.                 *)
ASSUME IdsAssumption ==
  /\ Ids \subseteq [bundle : STRING, path : STRING, name : STRING]
  /\ \A x, y, z \in Ids : Matches(x, y) /\ Matches(y, z) => Matches(x, z)
ASSUME FilesAssumption ==
  \A f \in Files : f \in {Missing, Garbled, Newer}
                    \/ (f \in ConfigFile /\ OneRule(f.rules))
ASSUME ValuesAssumption ==
  \A field \in DOMAIN Values :
    \/ field \in {"management", "limiter"} /\ Values[field] \subseteq BOOLEAN
    \/ field \in {"interval", "grace", "window"} /\ Values[field] \subseteq Int
    \/ field = "theme" /\ Values[field] \subseteq Words
    \/ field = "battery" /\ Values[field] \subseteq Optional(Int)
ASSUME MaxFailuresAssumption == MaxFailures \in Nat

VARIABLES
  running,   \* whether the program runs
  cfg,       \* controller.cfg
  file,      \* config.json
  saving,    \* whether a command is writing its temporary file
  durable,   \* history: the configuration last loaded or saved
  failed,    \* history: whether the last write failed
  failures   \* history: how many did

vars == <<running, cfg, file, saving, durable, failed, failures>>

(* controller.lastGroups, as far as a click goes: it looks for the group of *)
(* one application, which may be missing.                                  *)
GroupStates == UNION {[S -> Controls] : S \in {{}} \cup {{id} : id \in Ids}}
Keys == {Key(id) : id \in Ids}

(* Those in which no other group is than that of the row clicked.          *)
GroupsOf(key) == {groups \in GroupStates : \A id \in DOMAIN groups : Key(id) = key}

(* Mutant: the file itself is written.                                     *)
BeginSaveInPlace ==
  saving' = TRUE /\ file' = Garbled /\ UNCHANGED <<durable, failed, failures>>

(* SaveConfig up to the temporary file.                                    *)
BeginSave == saving' = TRUE /\ UNCHANGED <<file, durable, failed, failures>>

(* A command's change.  One that changes nothing may still write.          *)
Make(change) ==
  /\ cfg' = change.cfg
  /\ IF change.save THEN BeginSave
     ELSE UNCHANGED <<file, saving, durable, failed, failures>>
  /\ UNCHANGED running

Idle == running /\ ~saving   \* controller.mu is free

-----------------------------------------------------------------------------
Init ==
  /\ running = FALSE /\ saving = FALSE /\ failed = FALSE /\ failures = 0
  /\ file \in Files
  /\ durable = Load(file)
  /\ cfg = DefaultConfig

(* NewController: what LoadConfig answers, which may write at once.        *)
Start ==
  /\ ~running
  /\ running' = TRUE
  /\ cfg' = Load(file) /\ durable' = Load(file)
  /\ saving' = LoadSaves(file)
  /\ failed' = FALSE
  /\ UNCHANGED <<file, failures>>

(* The commands "rule", of any kind, on any row.                           *)
ClickRule ==
  /\ Idle
  /\ \E key \in Keys, command \in RuleCommands : \E groups \in GroupsOf(key) :
       Make(RuleCommand(cfg, groups, command, key))

(* "disable-rule".                                                         *)
DisableRule == Idle /\ \E key \in Keys : Make(Remove(cfg, key))

(* "toggle-management", "graph-window" and the commands "pref-...".        *)
ClickPreference ==
  /\ Idle
  /\ \E field \in DOMAIN Values : \E value \in Values[field] :
       Make(SetPreference(cfg, field, value))

ClickReset == Idle /\ Make(ResetDefaults(cfg))

(* The rename at the end of writeJSON.                                     *)
Rename ==
  /\ running /\ saving
  /\ file' = Encode(cfg) /\ saving' = FALSE
  /\ durable' = cfg /\ failed' = FALSE
  /\ UNCHANGED <<running, cfg, failures>>

(* A step of writeJSON fails: the error is logged, the temporary file      *)
(* removed, and the configuration in memory stays as it is.                *)
WriteFails ==
  /\ running /\ saving /\ failures < MaxFailures
  /\ saving' = FALSE /\ failed' = TRUE /\ failures' = failures + 1
  /\ UNCHANGED <<running, cfg, file, durable>>

(* The program ends: by "quit" between commands, or at any moment by a     *)
(* crash.  A temporary file that is left is never read.                    *)
End ==
  /\ running
  /\ running' = FALSE /\ saving' = FALSE /\ cfg' = DefaultConfig
  /\ UNCHANGED <<file, durable, failed, failures>>

Click == ClickRule \/ DisableRule \/ ClickPreference \/ ClickReset

Next == Start \/ Click \/ Rename \/ WriteFails \/ End

Spec == Init /\ [][Next]_vars

-----------------------------------------------------------------------------
(* Whatever clicks, failed writes, quits and crashes came before, the next *)
(* start finds what was last saved: nothing that a command accepts is      *)
(* replaced by a default on the way through the file, loading twice is     *)
(* loading once, and a write that was cut off has not touched the file.    *)
(* While no write has failed, that is what the program runs with.          *)
RestartKeepsSettings ==
  /\ Load(file) = durable
  /\ running /\ ~saving /\ ~failed => cfg = durable

(* A start keeps every choice that the file spells out and that is in      *)
(* range, FALSE and zero included, and one spelled in the older name; only *)
(* what is absent or out of range becomes a default (LoadConfig).  The     *)
(* rules stay in their order, for the same applications, with the same     *)
(* modes and targets, and are shown in the same places.                    *)
Start_KeepsPreferences ==
  /\ \A field \in {"management", "limiter", "grace"} :
       \A value \in file[field] : cfg'[field] = value
  /\ \A value \in file.interval : value # 0 => cfg'.interval = value
  /\ \A value \in file.window :
       value \in MinWindow..MaxWindow => cfg'.window = value
  /\ \A value \in file.theme : value \in Themes => cfg'.theme = value
  /\ file.grace = {} => cfg'.grace = Or(file.startup, DefaultConfig.grace)
  /\ \A field \in {"management", "limiter", "interval", "window", "theme"} :
       file[field] = {} => cfg'[field] = DefaultConfig[field]
  /\ cfg'.battery = file.battery
  /\ cfg'.interval # 0 /\ cfg'.window \in MinWindow..MaxWindow
  /\ cfg'.theme \in Themes

SameRule(new, old) ==
  /\ new.id = old.id /\ new.mode = old.mode /\ new.target = old.target
  /\ Effective(new) = Effective(old)

Start_KeepsRules ==
  /\ DOMAIN cfg'.rules = DOMAIN file.rules
  /\ \A i \in DOMAIN file.rules : SameRule(cfg'.rules[i], file.rules[i])

UpgradeKeepsChoices ==
  [][~running /\ running' /\ file.kind = "config"
       => Start_KeepsPreferences /\ Start_KeepsRules]_vars

(* The commands never make a second rule for an application, although they *)
(* look rules up by key in one place and by match in another: the          *)
(* scheduler and the menus would take the first and show both.             *)
OneRulePerApp == OneRule(cfg.rules)

(* What a click on a row may do, for every group that may be there.        *)
After(groups, command, key) == RuleCommand(cfg, groups, command, key).cfg

RuleOfKey(rules, key) ==
  LET at == KeyAt(rules, key) IN IF at = {} THEN NoRule ELSE rules[First(at)]

(* The keys whose applications are matched by no application of another    *)
(* key.  Where a rule is found by match and carries another key than the   *)
(* row, a click on the row may not reach it.                               *)
ClearKeys ==
  {key \in Keys : \A x, y \in Ids :
     Key(x) = key => (Matches(x, y) <=> Key(y) = key)}

(* A check mark in a "Track in" menu shows whether the application is      *)
(* there, and choosing it changes that, whichever row and rule it is on:   *)
(* afterwards every row of the application agrees (menu_bar.go,            *)
(* untrackLocationLocked).  A managed application that does not run can    *)
(* only be taken out.  A limit of an edited file without a target is       *)
(* refused by upsertRule and stays as it is, unless safety turns it into   *)
(* an observing rule on the way.                                           *)
CheckMarksWork ==
  Idle => \A groups \in GroupStates : \A row \in AllRows(cfg.rules, groups), place \in Places :
    LET observed == \E id \in DOMAIN groups : Key(id) = row.key
        shown(r) == IF place = "menu_bar" THEN r.menuBar ELSE r.managed
        command == <<IF shown(row) THEN "untrack" ELSE "track", place>>
        rules == After(groups, command, row.key).rules
        rule == RuleOfKey(cfg.rules, row.key)
        stuck == /\ Untargeted(rule)
                 /\ \/ shown(row)
                    \/ \A id \in DOMAIN groups :
                         Key(id) = row.key => Allows(groups[id], "limit")
    IN row.key \in ClearKeys /\ (observed \/ shown(row)) =>
         IF stuck THEN rules = cfg.rules
         ELSE \A later \in AllRows(rules, groups) :
                later.key = row.key => shown(later) = ~shown(row)

(* A click on one such application leaves the rules of the others and their*)
(* order alone, never sets a mode that the safety of the group forbids,    *)
(* and a change of mode moves the application to no other place, unless it *)
(* was in none, where it gets the places of a new rule; pause chosen again *)
(* takes the pause back and keeps it in the menu bar.                      *)
IsContained(groups, command, key) ==
  LET rules == After(groups, command, key).rules
      others(list) == Subsequence(list, DOMAIN list \ KeyAt(list, key))
      old == RuleOfKey(cfg.rules, key)
      new == RuleOfKey(rules, key)
  IN /\ others(rules) = others(cfg.rules)
     /\ \A id \in DOMAIN groups :
          Key(id) = key /\ new.mode \notin {old.mode, "none"}
            => Allows(groups[id], new.mode)
     /\ command \in ModeCommands /\ NoRule \notin {old, new} /\ new # old
          => Effective(new) = IF Effective(old) = {} THEN DefaultTrackIn(new.mode)
                              ELSE Effective(old)
     /\ command = <<"mode", "pause">> /\ old.mode = "pause" /\ new # old
          => new.mode # "pause" /\ ("menu_bar" \in Effective(old) => new # NoRule)

ClicksAreContained ==
  Idle => \A key \in ClearKeys, command \in RuleCommands :
            \A groups \in GroupsOf(key) : IsContained(groups, command, key)

=============================================================================
