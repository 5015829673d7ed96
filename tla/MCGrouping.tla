----------------------------- MODULE MCGrouping ----------------------------
(* An instance of Grouping for TLC: three processes, of which one may be   *)
(* missing in the list, and up to two applications.                        *)
EXTENDS Grouping

ThreePids == 1..3
Hint(app, primary) == [app |-> app, primary |-> primary]

(* Among them two instances of one application, applications whose main    *)
(* process is not listed, and one without any name.                        *)
SomeHints ==
  {<<>>, <<Hint("a", 2)>>, <<Hint("a", 2), Hint("b", 3)>>,
   <<Hint("a", 3), Hint("a", 1)>>, <<Hint("b", 0), Hint(Unknown, 1)>>}

SomeOrders == {<<1, 2, 3>>, <<3, 2, 1>>, <<2, 3, 1>>, <<2, 1>>}
Process(name, safety) == [name |-> name, safety |-> safety]
SomeProcesses ==
  {<<Process("m", "normal"), Process("n", "blocked"), Process("m", "slow_only")>>,
   <<Process("m", "slow_only"), Process("m", "normal"), Process("n", "normal")>>}
=============================================================================
