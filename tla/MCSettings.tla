----------------------------- MODULE MCSettings ----------------------------
(* Instances of Settings for TLC.                                          *)
EXTENDS Settings

Named == [bundle |-> Absent, path |-> Absent, name |-> "n"]
Bundled == [bundle |-> "b", path |-> "p", name |-> "n"]

Located == [bundle |-> Absent, path |-> "p", name |-> "n"]

(* Bundled and Located match, but have two keys.                           *)
ThreeIds == {Named, Bundled, Located}
AllControls == {"normal", "slow_only", "blocked"}

(* A value that is accepted, and values that are refused.                  *)
MenuValues ==
  [limiter |-> {TRUE}, interval |-> {0}, grace |-> {-1}, theme |-> {"odd"},
   battery |-> {{0}}]

OldRule(id, mode, trackIn) ==
  <<[id |-> id, mode |-> mode, trackIn |-> trackIn, target |-> FALSE]>>

(* Files of older versions and files that a user has edited.               *)
OldFile ==
  [kind |-> "config", management |-> {FALSE}, limiter |-> {}, interval |-> {0},
   grace |-> {}, window |-> {99}, theme |-> {"odd"}, battery |-> {},
   startup |-> {7}, rules |-> OldRule(Located, "observe", {"tray"})]

EditedFile ==
  [kind |-> "config", management |-> {}, limiter |-> {FALSE}, interval |-> {6},
   grace |-> {0}, window |-> {}, theme |-> {"dark"}, battery |-> {80},
   startup |-> {7}, rules |-> OldRule(Named, "limit", {"odd"})]

SomeFiles == {Missing, Garbled, Newer, OldFile, EditedFile}
=============================================================================
