--------------------------- MODULE MCCPULimiter -----------------------------
(* Instances of CPULimiter for TLC.                                        *)
EXTENDS CPULimiter, TLC

Symmetry ==
  Permutations(Apps) \cup Permutations(Procs) \cup Permutations(Entries)
=============================================================================
