--------------------------- MODULE MCGenerations ---------------------------
(* Instances of Generations for TLC.                                       *)
EXTENDS Generations
OnePid == {1}
=============================================================================
