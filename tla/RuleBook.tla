------------------------------ MODULE RuleBook ------------------------------
(***************************************************************************)
(* The rules of config.json and what a menu command does to them: how an   *)
(* application is named (src/internal/core/identity.go), where a rule is   *)
(* shown (rules.go), what safety allows (safety.go), the rule commands     *)
(* (src/internal/app/commands.go) and the rows that the menus build from   *)
(* rules and groups (src/internal/ui/menu_bar.go).                         *)
(*                                                                         *)
(* Everything here is an operator on a configuration "cfg", of which the   *)
(* rules and the switch of the CPU limiter matter, and on "groups": the    *)
(* observed applications with their controllability.  Upper and lower case *)
(* and unclean paths are left out, and of a rule's fields those that a     *)
(* command or a row looks at are kept: "target" says whether the rule has  *)
(* a CPU target that is not below the smallest one (CPUPercent).           *)
(***************************************************************************)
EXTENDS Naturals, Sequences, FiniteSets

Absent == ""   \* a part of an identity that is not known

(* AppID.Key.                                                              *)
Key(id) == CASE id.bundle # Absent -> <<"bundle", id.bundle>>
             [] id.bundle = Absent /\ id.path # Absent -> <<"path", id.path>>
             [] OTHER -> <<"name", id.name>>

(* AppID.Matches: the strongest part that both know decides; names decide  *)
(* only between identities that are nothing else.                          *)
Matches(id, other) ==
  CASE id.bundle # Absent /\ other.bundle # Absent -> id.bundle = other.bundle
    [] id.path # Absent /\ other.path # Absent
         /\ Absent \in {id.bundle, other.bundle} -> id.path = other.path
    [] OTHER -> /\ {id.bundle, other.bundle, id.path, other.path} = {Absent}
                /\ id.name = other.name /\ id.name # Absent

-----------------------------------------------------------------------------
(* Tracking: the places that show an application.                          *)

Places == {"menu_bar", "managed"}

(* NormalizeTrackIn, on lists as sets; "tray" is the older name.           *)
Normalize(trackIn) ==
  LET places == (trackIn \cap Places)
                  \cup {p \in {"menu_bar"} : "tray" \in trackIn}
  IN IF places = {} THEN trackIn \cap {"none"} ELSE places

DefaultTrackIn(mode) == IF mode = "observe" THEN Places ELSE {"managed"}

(* EffectiveTrackIn.                                                       *)
Effective(rule) ==
  LET normal == Normalize(rule.trackIn)
  IN IF normal = {} THEN DefaultTrackIn(rule.mode) ELSE normal \cap Places

WithTrackIn(rule, place) ==
  [rule EXCEPT !.trackIn = Effective(rule) \cup {place}]

(* Mutant: the last place leaves an empty list, which reads as the default.*)
WithoutTrackInEmpty(rule, place) ==
  [rule EXCEPT !.trackIn = Effective(rule) \ {place}]

WithoutTrackIn(rule, place) ==
  LET places == Effective(rule) \ {place}
  IN [rule EXCEPT !.trackIn = IF places = {} THEN {"none"} ELSE places]

-----------------------------------------------------------------------------
(* SafetyDecision.AllowsRule, by the controllability of the group.         *)
Allows(control, mode) ==
  CASE mode = "observe" -> TRUE
    [] mode \in {"priority", "limit"} -> control # "blocked"
    [] OTHER -> control = "normal"

(* The list of rules.  NoRule is the answer of a lookup without a match.   *)
NoRule == [id |-> [bundle |-> Absent, path |-> Absent, name |-> Absent],
           mode |-> "none", trackIn |-> {"none"}, target |-> FALSE]

First(S) == CHOOSE i \in S : \A j \in S : i <= j

(* The elements of a list at the positions "kept", in their order.         *)
Subsequence(list, kept) ==
  [n \in 1..Cardinality(kept) |->
     list[CHOOSE i \in kept : Cardinality({j \in kept : j <= i}) = n]]

MatchingAt(rules, id) == {i \in DOMAIN rules : Matches(rules[i].id, id)}
KeyAt(rules, key) == {i \in DOMAIN rules : Key(rules[i].id) = key}

(* ruleForAppLocked, and matchingRuleForApp of the menu.                   *)
RuleFor(rules, id) ==
  LET at == MatchingAt(rules, id)
  IN IF at = {} THEN NoRule ELSE rules[First(at)]

(* A limit that says no target.  A command makes none, but a file that a   *)
(* user has edited may hold one.                                           *)
Untargeted(rule) == rule.mode = "limit" /\ ~rule.target

(* What upsertRule answers with an error.                                  *)
Refused(rule) == rule.id = NoRule.id \/ Untargeted(rule)

(* Mutant: a rule takes the place of one with its key only.                *)
UpsertByKey(rules, rule) ==
  LET at == KeyAt(rules, Key(rule.id))
  IN IF at = {} THEN Append(rules, rule)
     ELSE [rules EXCEPT ![First(at)] = rule]

(* upsertRule, where it accepts the rule: the first match gives it its     *)
(* place.                                                                  *)
UpsertRule(rules, rule) ==
  LET at == MatchingAt(rules, rule.id)
  IN IF at = {} THEN Append(rules, rule)
     ELSE [rules EXCEPT ![First(at)] = rule]

(* removeRule drops every match.                                           *)
RemoveRule(rules, id) ==
  Subsequence(rules, DOMAIN rules \ MatchingAt(rules, id))

(* removeRuleLocked starts from a key, as a menu item carries it.          *)
RemoveKey(rules, key) ==
  LET at == KeyAt(rules, key)
  IN IF at = {} THEN rules ELSE RemoveRule(rules, rules[First(at)].id)

-----------------------------------------------------------------------------
(* Commands.  Each gives the configuration after it and whether it is      *)
(* written to config.json.                                                 *)

Unchanged(cfg) == [cfg |-> cfg, save |-> FALSE]
Saved(cfg) == [cfg |-> cfg, save |-> TRUE]

(* upsertRuleLocked: an error is logged, and nothing changes or is saved.  *)
Upsert(cfg, rule) ==
  LET normal == Normalize(rule.trackIn)
      stored == [rule EXCEPT !.trackIn = IF normal = {} THEN Effective(rule)
                                         ELSE normal]
  IN IF Refused(rule) THEN Unchanged(cfg)
     ELSE Saved([cfg EXCEPT !.rules = UpsertRule(@, stored)])

Remove(cfg, key) == Saved([cfg EXCEPT !.rules = RemoveKey(@, key)])

(* untrackLocationLocked needs no group: the application may have exited.  *)
Untrack(cfg, key, place) ==
  LET at == KeyAt(cfg.rules, key)
      rule == WithoutTrackIn(cfg.rules[First(at)], place)
  IN CASE at = {} -> Unchanged(cfg)
       [] at # {} /\ Effective(rule) = {} /\ rule.mode = "observe" ->
            Remove(cfg, key)
       [] OTHER -> Upsert(cfg, rule)

(* "track-menu-bar" and "track-managed" on an observed group.  A rule that *)
(* safety forbids by now becomes an observing one.                         *)
Track(cfg, id, control, place) ==
  LET existing == RuleFor(cfg.rules, id)
  IN IF existing = NoRule
     THEN Upsert(cfg, [id |-> id, mode |-> "observe", trackIn |-> {place},
                       target |-> FALSE])
     ELSE Upsert(cfg, WithTrackIn(
            IF Allows(control, existing.mode) THEN existing
            ELSE [existing EXCEPT !.mode = "observe", !.target = FALSE], place))

(* clearPauseRuleLocked: choosing "pause" again takes the pause back.      *)
ClearPause(cfg, existing, key) ==
  IF "menu_bar" \in Effective(existing)
  THEN Upsert(cfg, [id |-> existing.id, mode |-> "observe",
                    trackIn |-> Effective(existing), target |-> FALSE])
  ELSE Remove(cfg, key)

(* Mutant: safety is left to the scheduler.                                *)
SetAnyMode(cfg, id, control, mode, tooLow) ==
  LET existing == RuleFor(cfg.rules, id)
      rule == [id |-> id, mode |-> mode,
               trackIn |-> IF existing # NoRule THEN Effective(existing)
                           ELSE DefaultTrackIn(mode),
               target |-> mode = "limit" /\ ~tooLow]
  IN Upsert(cfg, rule)

(* The modes of the menus, on an observed group.  A limit that is stored   *)
(* switches the CPU limiter on.                                            *)
SetMode(cfg, id, control, mode, tooLow) ==
  LET existing == RuleFor(cfg.rules, id)
      rule == [id |-> id, mode |-> mode,
               trackIn |-> IF existing # NoRule THEN Effective(existing)
                           ELSE DefaultTrackIn(mode),
               target |-> mode = "limit" /\ ~tooLow]
  IN CASE ~Allows(control, mode) -> Unchanged(cfg)
       [] Allows(control, mode) /\ mode = "limit" /\ ~Refused(rule) ->
            Upsert([cfg EXCEPT !.limiter = TRUE], rule)
       [] OTHER -> Upsert(cfg, rule)

TrackCommands == {<<"track", place>> : place \in Places}
UntrackCommands == {<<"untrack", place>> : place \in Places}
ModeCommands == {<<"mode", m>> : m \in {"observe", "pause", "priority",
                                        "limit", "limit too low"}}
RuleCommands == TrackCommands \cup UntrackCommands \cup ModeCommands

(* handleRuleCommandLocked.                                                *)
RuleCommand(cfg, groups, command, key) ==
  LET ids == {i \in DOMAIN groups : Key(i) = key}
      id == CHOOSE i \in ids : TRUE
      existing == RuleFor(cfg.rules, id)
  IN CASE command \in UntrackCommands -> Untrack(cfg, key, command[2])
       [] command \notin UntrackCommands /\ ids = {} -> Unchanged(cfg)
       [] command \in TrackCommands /\ ids # {} ->
            Track(cfg, id, groups[id], command[2])
       [] command = <<"mode", "pause">> /\ ids # {}
            /\ existing.mode = "pause" -> ClearPause(cfg, existing, key)
       [] command = <<"mode", "limit too low">> /\ ids # {} ->
            SetMode(cfg, id, groups[id], "limit", TRUE)
       [] OTHER -> SetMode(cfg, id, groups[id], command[2], FALSE)

-----------------------------------------------------------------------------
(* Rows.  A row is [key, menuBar, managed]: the key that its commands      *)
(* carry and the two check marks of its "Track in" menu.                   *)

Row(key, places) == [key |-> key, menuBar |-> "menu_bar" \in places,
                     managed |-> "managed" \in places]

(* Top Processes and All Processes, after ApplyTrackingToProcessRows.      *)
ProcessRows(rules, groups) ==
  {Row(Key(id), LET rule == RuleFor(rules, id)
                IN IF rule = NoRule THEN {} ELSE Effective(rule)) :
     id \in DOMAIN groups}

(* buildRuleProcessRows: the rules that the menu includes, where a group    *)
(* has the rule's key.                                                     *)
RuleRows(rules, groups, included) ==
  {Row(Key(rules[i].id), Effective(rules[i])) :
     i \in {j \in included : \E id \in DOMAIN groups : Key(id) = Key(rules[j].id)}}

MenuBarRows(rules, groups) ==
  RuleRows(rules, groups,
           {i \in DOMAIN rules : "menu_bar" \in Effective(rules[i])})

TrackedRows(rules, groups) ==
  RuleRows(rules, groups,
           {i \in DOMAIN rules : /\ rules[i].mode = "observe"
                                 /\ "managed" \in Effective(rules[i])})

(* BuildManagedRows needs no group.                                        *)
ManagedRows(rules) ==
  {Row(Key(rules[i].id), Effective(rules[i])) :
     i \in {j \in DOMAIN rules : /\ rules[j].mode # "observe"
                                 /\ "managed" \in Effective(rules[j])}}

AllRows(rules, groups) ==
  ProcessRows(rules, groups) \cup MenuBarRows(rules, groups)
    \cup TrackedRows(rules, groups) \cup ManagedRows(rules)

=============================================================================
