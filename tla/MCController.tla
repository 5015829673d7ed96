---------------------------- MODULE MCController ----------------------------
(* Instances of Controller for TLC: one application with two processes, of *)
(* which the second starts later, or with one process.                     *)
EXTENDS Controller

Pause == [NoRule EXCEPT !.mode = "pause", !.backgroundOnly = TRUE,
                        !.protectAudio = TRUE, !.allowBrowserPause = TRUE]
PauseAndHide == [Pause EXCEPT !.hideWhenStopped = TRUE]
PauseHideAndWake == [PauseAndHide EXCEPT !.wakes = TRUE]
Priority == [NoRule EXCEPT !.mode = "priority", !.backgroundOnly = TRUE,
                           !.nice = 20, !.protectAudio = TRUE]
PriorityAlways == [Priority EXCEPT !.backgroundOnly = FALSE]
Limit == [NoRule EXCEPT !.mode = "limit", !.backgroundOnly = TRUE,
                        !.protectAudio = TRUE]
Hide == [NoRule EXCEPT !.mode = "hide"]
Quit == [NoRule EXCEPT !.mode = "quit"]
Track == [NoRule EXCEPT !.mode = "observe"]

\* values for the cfg files
OneApp == {"a"}
TwoProcs == 1 .. 2
AllOfA == [p \in TwoProcs |-> "a"]
OneProc == {1}
OneOfA == [p \in OneProc |-> "a"]
NormalOne == [p \in OneProc |-> 0]
FirstBorn == {1}
Normal == [p \in TwoProcs |-> 0]

WithoutLimit == {Track, PauseAndHide, Priority, PriorityAlways, Hide, Quit}
BackgroundOnly == {PauseHideAndWake, Priority, Limit}
PauseOrLimit == {Pause, Limit}
OnlyPause == {Pause}
=============================================================================
