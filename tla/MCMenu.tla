------------------------------- MODULE MCMenu -------------------------------
(* An instance of Menu for TLC.                                            *)
EXTENDS Menu

TwoPresets == {50, 75}
OneOther == {60}
TwoWorkers == {1, 2}
=============================================================================
