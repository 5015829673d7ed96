----------------------------- MODULE MCDutyCycle ----------------------------
(* Instances of DutyCycle for TLC: units of 100 milliseconds.              *)
EXTENDS DutyCycle

DemandValues == {10, 50, 100, 200, 400}
TargetValues == {0, 25, 40}
WindowValues == {30, 130, 300}
OneWindow == {100}
TwoDemands == {100, 400}
OneTarget == {25}
=============================================================================
