------------------------------ MODULE Grouping -----------------------------
(***************************************************************************)
(* ProcessGrouper.Group (src/internal/observe/grouping.go): how the listed *)
(* processes become applications, which is what rules, signals, samples    *)
(* and alerts are about.  Four loops over the list in the order in which   *)
(* the kernel gave it: the main processes of the running applications,     *)
(* what belongs to them by bundle or path, their children, and the rest,   *)
(* each alone.  A group then gets the safety of its processes              *)
(* (SafetyPolicy.ClassifyGroup).                                           *)
(*                                                                         *)
(* A behaviour is one call.  Its inputs are all those of the constants:    *)
(* parents may form cycles, since the list is not read at once.  Of a path *)
(* or a bundle identifier only the applications it fits is kept.           *)
(***************************************************************************)
EXTENDS Naturals, Sequences, SequencesExt, FiniteSets

CONSTANTS
  Pids,        \* positive PIDs
  HintLists,   \* the lists of running applications, [app, primary]
  Orders,      \* the lists of PIDs that the kernel may give
  Processes    \* what the processes are: functions from PIDs to
               \* [name, safety], with DisplayName and ClassifyProcess

NoKey == <<"none", 0>>
Unknown == "unknown"   \* an application without bundle, path and name

ASSUME PidsAssumption == Pids \subseteq Nat \ {0} /\ IsFiniteSet(Pids)
ASSUME OrdersAssumption == Orders \subseteq Seq(Pids)
ASSUME PrimariesAssumption ==
  \A hints \in HintLists : \A i, j \in DOMAIN hints :
    hints[i].primary = hints[j].primary /\ hints[i].primary # 0 => i = j

VARIABLES
  byName,    \* Preferences.AggregateByName
  listed,    \* the processes, in order
  parent,    \* ProcessRef.ParentPID, 0 for none
  fits,      \* fits[p]: the hints that p matches by bundle or path
  process,   \* names and safety
  hints,     \* what the application observer reports
  phase,     \* the loop that comes next
  home,      \* pidToGroup
  added      \* the pairs of a group and a process in it

inputs == <<byName, listed, parent, fits, process, hints>>
vars == <<inputs, phase, home, added>>

Listed == Range(listed)
HintKey(hint) ==
  IF hint.app = Unknown THEN <<"pid", hint.primary>> ELSE <<"app", hint.app>>

Init ==
  /\ byName \in BOOLEAN
  /\ listed \in Orders
  /\ parent \in [Pids -> Pids \cup {0}]
  /\ hints \in IF byName THEN {<<>>} ELSE HintLists
  /\ fits \in [Pids -> SUBSET DOMAIN hints]
  /\ process \in Processes
  /\ phase = IF byName THEN "names" ELSE "hints"
  /\ home = [p \in Pids |-> NoKey]
  /\ added = {}

-----------------------------------------------------------------------------
(* addProcess and the entry of pidToGroup, for every process of a set.     *)
Add(key, procs) ==
  /\ added' = added \cup {<<key[p], p>> : p \in procs}
  /\ home' = [p \in Pids |-> IF p \in procs THEN key[p] ELSE home[p]]

Homeless == {p \in Listed : home[p] = NoKey}

(* The main process of each running application, where it is listed.       *)
AddPrimaries ==
  /\ phase = "hints"
  /\ LET main == {p \in Listed : \E i \in DOMAIN hints : hints[i].primary = p}
         key == [p \in main |->
                   HintKey(hints[CHOOSE i \in DOMAIN hints : hints[i].primary = p])]
     IN Add(key, main)
  /\ phase' = "match"
  /\ UNCHANGED inputs

(* matchHint: the first application in the list that p fits.  One without  *)
(* a key of any kind is passed over.                                       *)
Matched(p) == {i \in fits[p] : HintKey(hints[i]) # <<"pid", 0>>}
FirstMatch(p) == CHOOSE i \in Matched(p) : \A j \in Matched(p) : i <= j

(* What is left goes to the application that it fits.                      *)
MatchHints ==
  /\ phase = "match"
  /\ LET found == {p \in Homeless : Matched(p) # {}}
     IN Add([p \in found |-> HintKey(hints[FirstMatch(p)])], found)
  /\ phase' = "parents"
  /\ UNCHANGED inputs

(* One pass over the list.  A process sees what the pass has found so far, *)
(* so how far a pass gets depends on the order.                            *)
Join(known, p) ==
  IF known[p] = NoKey /\ parent[p] # 0 /\ known[parent[p]] # NoKey
  THEN [known EXCEPT ![p] = known[parent[p]]] ELSE known

Pass ==
  LET known[n \in 0..Len(listed)] ==
        IF n = 0 THEN home ELSE Join(known[n - 1], listed[n])
  IN known[Len(listed)]

(* Mutant: one pass has to do.                                             *)
JoinParentsOnce ==
  /\ phase = "parents"
  /\ Add(Pass, {p \in Homeless : Pass[p] # NoKey})
  /\ phase' = "rest"
  /\ UNCHANGED inputs

(* Mutant: passes until no process with a listed parent is left.           *)
JoinUntilNoneIsLeft ==
  /\ phase = "parents"
  /\ Add(Pass, {p \in Homeless : Pass[p] # NoKey})
  /\ phase' = IF \A p \in Homeless : parent[p] \notin Listed THEN "rest" ELSE "parents"
  /\ UNCHANGED inputs

(* Passes until one changes nothing.                                       *)
JoinParents ==
  /\ phase = "parents"
  /\ Add(Pass, {p \in Homeless : Pass[p] # NoKey})
  /\ phase' = IF Pass = home THEN "rest" ELSE "parents"
  /\ UNCHANGED inputs

(* The others are groups of one, which pidToGroup does not know.           *)
AddRest ==
  /\ phase = "rest"
  /\ added' = added \cup {<<<<"pid", p>>, p>> : p \in Homeless}
  /\ phase' = "done"
  /\ UNCHANGED <<inputs, home>>

(* groupByName looks at nothing but names.                                 *)
GroupByName ==
  /\ phase = "names"
  /\ added' = {<<<<"app", process[p].name>>, p>> : p \in Listed}
  /\ phase' = "done"
  /\ UNCHANGED <<inputs, home>>

Done == phase = "done" /\ UNCHANGED vars

Next == AddPrimaries \/ MatchHints \/ JoinParents \/ AddRest \/ GroupByName
          \/ Done

Spec == Init /\ [][Next]_vars /\ WF_vars(Next)

-----------------------------------------------------------------------------
(* ClassifyGroup on the processes in order of PID: the first blocked one   *)
(* decides, and otherwise the last one that is not normal.                 *)
Members(key) == {p \in Listed : <<key, p>> \in added}

(* Mutant: the last process decides.                                       *)
ClassifyByLast(key) ==
  process[CHOOSE p \in Members(key) : \A q \in Members(key) : q <= p].safety

Decide(decision, safety) ==
  IF "blocked" \in {decision, safety} THEN "blocked"
  ELSE IF safety = "slow_only" THEN "slow_only" ELSE decision

ClassifyGroup(key) ==
  LET final[n \in 0..Max(Pids \cup {0})] ==
        IF n = 0 THEN "normal"
        ELSE IF n \in Members(key) THEN Decide(final[n - 1], process[n].safety)
        ELSE final[n - 1]
  IN final[Max(Pids \cup {0})]

(* What the loops compute, without loops and orders: a process belongs to  *)
(* the application whose main process it is, else to the first that it     *)
(* fits, else to that of its nearest ancestor that has one.                *)
Direct(p) ==
  LET main == {i \in DOMAIN hints : hints[i].primary = p}
  IN CASE main # {} -> HintKey(hints[CHOOSE i \in main : TRUE])
       [] main = {} /\ Matched(p) # {} -> HintKey(hints[FirstMatch(p)])
       [] OTHER -> NoKey

Application(p) ==
  LET climb[n \in 0..Cardinality(Pids)] ==
        [q \in Pids |->
           IF Direct(q) # NoKey THEN Direct(q)
           ELSE IF n > 0 /\ parent[q] \in Listed THEN climb[n - 1][parent[q]]
           ELSE <<"pid", p>>]
  IN climb[Cardinality(Pids)][p]

(* Every listed process is in one group, never in two, and in the right    *)
(* one, in whatever order the kernel lists parents and children: a helper  *)
(* listed before its parent is stopped and resumed with its application.   *)
GroupsAreRight ==
  phase = "done" =>
    added = {<<IF byName THEN <<"app", process[p].name>> ELSE Application(p), p>> :
               p \in Listed}

(* One blocked process makes its whole group untouchable, and one owned by *)
(* root makes it slow-only, wherever in the group it stands: a pause never *)
(* reaches a process that may not be paused by way of its application.     *)
SafetyCoversGroup ==
  phase = "done" =>
    \A key \in {pair[1] : pair \in added}, p \in Listed :
      p \in Members(key) =>
        /\ process[p].safety = "blocked" => ClassifyGroup(key) = "blocked"
        /\ process[p].safety = "slow_only" => ClassifyGroup(key) # "normal"

(* The passes over the parents end, cycles or not: Refresh holds refreshMu *)
(* all the while.                                                          *)
GroupingEnds == <>(phase = "done")

=============================================================================
