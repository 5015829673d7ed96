---------------------------- MODULE ConfigStore ----------------------------
(***************************************************************************)
(* How config.json is read, brought up to date and written                 *)
(* (src/internal/config/config.go), and which preferences the menu may set *)
(* (src/internal/ui/preferences.go).                                       *)
(*                                                                         *)
(* A configuration in memory has every field.  One on disk may lack any of *)
(* them: a field that may be absent is a set with at most one element.     *)
(* The schema version is the kind of the file; of the preferences there is *)
(* one of each sort: a switch, a number that must not be zero, one that    *)
(* may be, one with a range, a word, and an optional one.                  *)
(***************************************************************************)
EXTENDS RuleBook, Integers

Element(S) == CHOOSE x \in S : TRUE
Or(optional, default) == IF optional = {} THEN default ELSE Element(optional)

DefaultConfig ==
  [management |-> TRUE, limiter |-> TRUE, interval |-> 3, grace |-> 30,
   window |-> 5, theme |-> "system", battery |-> {}, rules |-> <<>>]

MinWindow == 1
MaxWindow == 30

(* NormalizeCPUGraphWindow, in minutes.                                    *)
NormalizeWindow(window) ==
  CASE window <= 0 -> DefaultConfig.window
    [] window > MaxWindow -> MaxWindow
    [] OTHER -> window

Themes == {"light", "dark", "system"}
NormalizeTheme(theme) == IF theme \in Themes THEN theme ELSE "system"

MigrateRule(rule) ==
  LET normal == Normalize(rule.trackIn)
  IN [rule EXCEPT !.trackIn = IF normal = {} THEN Effective(rule) ELSE normal]

(* MigrateConfig of a supported schema.                                    *)
Migrate(cfg) ==
  [cfg EXCEPT !.interval = IF @ = 0 THEN DefaultConfig.interval ELSE @,
              !.window = NormalizeWindow(@),
              !.theme = NormalizeTheme(@),
              !.rules = [i \in DOMAIN @ |-> MigrateRule(@[i])]]

-----------------------------------------------------------------------------
(* Files.  "garbled" is one that does not decode.                          *)

Missing == [kind |-> "missing"]
Garbled == [kind |-> "garbled"]
Newer == [kind |-> "newer"]

(* What SaveConfig writes.                                                 *)
Encode(cfg) ==
  LET out == Migrate(cfg)
  IN [kind |-> "config", management |-> {out.management},
      limiter |-> {out.limiter}, interval |-> {out.interval},
      grace |-> {out.grace}, window |-> {out.window}, theme |-> {out.theme},
      battery |-> out.battery, startup |-> {}, rules |-> out.rules]

(* json.Unmarshal: a field that is absent has the zero of its type.        *)
Decode(file) ==
  [management |-> Or(file.management, FALSE), limiter |-> Or(file.limiter, FALSE),
   interval |-> Or(file.interval, 0), grace |-> Or(file.grace, 0),
   window |-> Or(file.window, 0), theme |-> Or(file.theme, ""),
   battery |-> file.battery, rules |-> file.rules]

(* Mutant: an older name that is still there counts first.                 *)
BackfillOlderFirst(file) ==
  [Migrate(Decode(file)) EXCEPT
     !.management = Or(file.management, DefaultConfig.management),
     !.limiter = Or(file.limiter, DefaultConfig.limiter),
     !.window = IF file.window = {} THEN DefaultConfig.window ELSE @,
     !.theme = IF file.theme = {} THEN DefaultConfig.theme ELSE @,
     !.grace = Or(file.startup, Or(file.grace, DefaultConfig.grace))]

(* LoadConfig once the file has decoded.  "startup" is the older name of   *)
(* the grace period and counts where the newer one is absent.              *)
Backfill(file) ==
  [Migrate(Decode(file)) EXCEPT
     !.management = Or(file.management, DefaultConfig.management),
     !.limiter = Or(file.limiter, DefaultConfig.limiter),
     !.window = IF file.window = {} THEN DefaultConfig.window ELSE @,
     !.theme = IF file.theme = {} THEN DefaultConfig.theme ELSE @,
     !.grace = Or(file.grace, Or(file.startup, DefaultConfig.grace))]

(* The value of LoadConfig; the controller takes it in spite of an error.  *)
Load(file) == IF file.kind = "config" THEN Backfill(file) ELSE DefaultConfig

(* Whether LoadConfig writes what it has brought up to date.               *)
LoadSaves(file) ==
  /\ file.kind = "config"
  /\ \/ {} \in {file.management, file.limiter, file.window, file.theme, file.grace}
     \/ file.startup # {}
     \/ \E i \in DOMAIN file.rules : "tray" \in file.rules[i].trackIn

-----------------------------------------------------------------------------

(* The preference commands: setBoolPreference, setDurationPreference,      *)
(* setFloatPreference, setStringPreference and clearPreference, with the   *)
(* values that they accept.                                                *)
Accepts(field, value) ==
  CASE field \in {"management", "limiter"} -> TRUE
    [] field = "interval" -> value > 0
    [] field \in {"grace", "window"} -> value >= 0
    [] field = "theme" -> NormalizeTheme(value) = value
    [] field = "battery" -> \A percent \in value : percent > 0 /\ percent <= 100

SetPreference(cfg, field, value) ==
  IF Accepts(field, value)
  THEN Saved([cfg EXCEPT ![field] = IF field = "window" THEN NormalizeWindow(value)
                                    ELSE value])
  ELSE Unchanged(cfg)

ResetDefaults(cfg) == Saved([DefaultConfig EXCEPT !.rules = cfg.rules])

=============================================================================
