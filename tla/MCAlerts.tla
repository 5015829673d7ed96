------------------------------ MODULE MCAlerts -----------------------------
(* Instances of Alerts for TLC.                                            *)
EXTENDS Alerts

CONSTANTS a1, a2

OneApp == {a1}
TwoApps == {a1, a2}
ProcessLoads == {"absent", "quiet", "high"}
AllLoads == {"absent", "quiet", "high", "both"}
=============================================================================
