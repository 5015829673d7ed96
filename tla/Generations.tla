---------------------------- MODULE Generations ----------------------------
(***************************************************************************)
(* What Refresh does with the processes that it has listed while they exit *)
(* and their PIDs are given to others.  A process is known by its PID and  *)
(* its start time, its generation, but the kernel takes PIDs only:         *)
(*  - CPU time is sampled by PID and counted against the listed generation *)
(*    (metrics_darwin.go, CPUUsageCalculator of observe/cpu.go);           *)
(*  - a signal is sent to a PID, after ValidateProcessGeneration has       *)
(*    compared its generation (PauseGroup and ResumeGroup of               *)
(*    app/process_control.go), which are two calls.                        *)
(*                                                                         *)
(* One rule covers all processes here, and the user pauses, removes the    *)
(* rule or disables management.  A look-up of a generation fails for       *)
(* processes that have exited only (copyProcessRef), a signal may fail for *)
(* others.                                                                 *)
(***************************************************************************)
EXTENDS Naturals

CONSTANTS
  Pids,
  MaxGeneration,  \* bound: processes per PID
  MaxUsed,        \* bound: units of CPU time of a process
  MaxErrors       \* bound: failing calls

ASSUME PidsAssumption == Pids \subseteq Nat \ {0}
ASSUME BoundsAssumption ==
  MaxGeneration \in Nat \ {0} /\ {MaxUsed, MaxErrors} \subseteq Nat

Process == [pid : Pids, gen : 1..MaxGeneration]
NoProcess == [pid |-> 0, gen |-> 0]

VARIABLES
  \* the machine
  gen,       \* gen[p]: the generation that has, or last had, PID p
  alive,     \* the PIDs in use
  used,      \* used[p]: the CPU time of that process
  stopper,   \* stopper[p]: who stopped it, "us", "other" or "nobody"
  \* the program
  wanted,    \* "pause", "nothing" or "disabled"
  at,        \* the step of Refresh that comes next
  listed,    \* the groups of this Refresh, as one set
  previous,  \* the samples of the last one: [process, used]
  op,        \* "pause" or "resume", the action under way
  todo,      \* the processes that it has not come to
  checked,   \* the one that was validated and not yet signalled
  paused,    \* RuntimeState.PausedProcesses
  \* histories and bounds
  spent,     \* spent[p]: the CPU time of all processes with PID p
  credited,  \* credited[p]: what the samples said of them
  strays,    \* the PIDs whose process was hit in place of another
  reused,    \* the PIDs given away since "checked"
  errors     \* failing calls so far

machine == <<gen, alive, used, stopper, spent>>
program == <<at, listed, previous, op, todo, checked, paused>>
vars == <<machine, wanted, program, credited, strays, reused, errors>>

Current(p) == [pid |-> p, gen |-> gen[p]]
Running == {Current(p) : p \in alive}

Init ==
  /\ gen = [p \in Pids |-> 1] /\ alive = Pids
  /\ used = [p \in Pids |-> 0] /\ spent = used /\ credited = used
  /\ stopper = [p \in Pids |-> "nobody"]
  /\ wanted = "nothing" /\ at = "list"
  /\ listed = {} /\ previous = {} /\ paused = {}
  /\ op = "pause" /\ todo = {} /\ checked = NoProcess
  /\ strays = {} /\ reused = {} /\ errors = 0

-----------------------------------------------------------------------------
(* Refresh, one step at a time.                                            *)

Fail == errors < MaxErrors /\ errors' = errors + 1

(* The list of processes; when it cannot be had, Refresh goes on with an   *)
(* empty one.                                                              *)
List ==
  /\ at = "list"
  /\ \/ listed' = Running /\ UNCHANGED errors
     \/ listed' = {} /\ Fail
  /\ at' = "sample"
  /\ UNCHANGED <<machine, wanted, previous, op, todo, checked, paused,
                 credited, strays, reused>>

(* Mutant: the first sample counts from zero.                              *)
UsageFromZero(s) ==
  LET olds == {o \in previous : o.process = s.process}
  IN IF olds = {} THEN {s.used}
     ELSE {s.used - old.used : old \in {o \in olds : o.used <= s.used}}

(* SampleProcesses, then CPUUsageCalculator.Update: a process counts from  *)
(* its second sample on, and one that seems to have used less than before  *)
(* does not count.                                                         *)
Samples == {[process |-> x, used |-> used[x.pid]] :
              x \in {y \in listed : y.pid \in alive}}
Usage(s) == {s.used - old.used :
               old \in {o \in previous : o.process = s.process /\ o.used <= s.used}}

(* A PID is listed once, so there is one such difference at most.          *)
Growth(p) == UNION {Usage(s) : s \in {r \in Samples : r.process.pid = p}}

Sample ==
  /\ at = "sample"
  /\ credited' = [p \in Pids |->
       credited[p] + IF Growth(p) = {} THEN 0 ELSE CHOOSE d \in Growth(p) : TRUE]
  /\ previous' = Samples
  /\ at' = "plan"
  /\ UNCHANGED <<machine, wanted, listed, op, todo, checked, paused, strays,
                 reused, errors>>

(* The scheduler: the listed processes are paused unless all of them are,  *)
(* or those that are recorded are resumed; with management disabled, all   *)
(* that is recorded, listed or not.                                        *)
Plan ==
  /\ at = "plan"
  /\ op' = IF wanted = "pause" THEN "pause" ELSE "resume"
  /\ todo' = CASE wanted = "pause" -> listed \ paused
               [] wanted = "nothing" -> listed \cap paused
               [] wanted = "disabled" -> paused
  /\ at' = "act"
  /\ UNCHANGED <<machine, wanted, listed, previous, checked, paused,
                 credited, strays, reused, errors>>

(* Mutant: only exited processes are told apart, not generations.          *)
ValidateByPid(x) ==
  /\ at = "act" /\ checked = NoProcess /\ x \in todo
  /\ todo' = todo \ {x}
  /\ IF x.pid \in alive
     THEN checked' = x /\ reused' = {} /\ UNCHANGED paused
     ELSE /\ paused' = IF op = "resume" THEN paused \ {x} ELSE paused
          /\ UNCHANGED <<checked, reused>>
  /\ UNCHANGED <<machine, wanted, at, listed, previous, op, credited, strays,
                 errors>>

(* ValidateProcessGeneration.  A process that has exited, or whose PID is  *)
(* another's, is left alone, and its record is dropped on a resume.        *)
Validate(x) ==
  /\ at = "act" /\ checked = NoProcess /\ x \in todo
  /\ todo' = todo \ {x}
  /\ IF x \in Running
     THEN checked' = x /\ reused' = {} /\ UNCHANGED paused
     ELSE /\ paused' = IF op = "resume" THEN paused \ {x} ELSE paused
          /\ UNCHANGED <<checked, reused>>
  /\ UNCHANGED <<machine, wanted, at, listed, previous, op, credited, strays,
                 errors>>

(* Mutant: a failed SIGCONT drops the record.                              *)
SignalOrForget ==
  /\ checked # NoProcess
  /\ LET p == checked.pid
     IN \/ /\ p \in alive
           /\ stopper' = [stopper EXCEPT ![p] = IF op = "pause" THEN "us" ELSE "nobody"]
           /\ strays' = IF gen[p] = checked.gen THEN strays ELSE strays \cup {p}
           /\ paused' = IF op = "pause" THEN paused \cup {checked}
                        ELSE paused \ {checked}
           /\ UNCHANGED errors
        \/ /\ p \notin alive
           /\ paused' = IF op = "pause" THEN paused ELSE paused \ {checked}
           /\ UNCHANGED <<stopper, strays, errors>>
        \/ /\ p \in alive /\ Fail
           /\ paused' = paused \ {checked}
           /\ UNCHANGED <<stopper, strays>>
  /\ checked' = NoProcess
  /\ UNCHANGED <<gen, alive, used, spent, wanted, at, listed, previous, op,
                 todo, credited, reused>>

(* kill(2) by PID.  ESRCH on a resume drops the record like a success; any *)
(* other error leaves it for a later Refresh.                              *)
Signal ==
  /\ checked # NoProcess
  /\ LET p == checked.pid
     IN \/ /\ p \in alive
           /\ stopper' = [stopper EXCEPT ![p] = IF op = "pause" THEN "us" ELSE "nobody"]
           /\ strays' = IF gen[p] = checked.gen THEN strays ELSE strays \cup {p}
           /\ paused' = IF op = "pause" THEN paused \cup {checked}
                        ELSE paused \ {checked}
           /\ UNCHANGED errors
        \/ /\ p \notin alive
           /\ paused' = IF op = "pause" THEN paused ELSE paused \ {checked}
           /\ UNCHANGED <<stopper, strays, errors>>
        \/ /\ p \in alive /\ Fail
           /\ UNCHANGED <<stopper, strays, paused>>
  /\ checked' = NoProcess
  /\ UNCHANGED <<gen, alive, used, spent, wanted, at, listed, previous, op,
                 todo, credited, reused>>

EndRefresh ==
  /\ at = "act" /\ todo = {} /\ checked = NoProcess
  /\ at' = "list" /\ listed' = {}
  /\ UNCHANGED <<machine, wanted, previous, op, todo, checked, paused,
                 credited, strays, reused, errors>>

Refresh == List \/ Sample \/ Plan \/ (\E x \in Process : Validate(x))
             \/ Signal \/ EndRefresh

-----------------------------------------------------------------------------
(* The user and the machine.                                               *)

Choose(w) ==
  /\ wanted' = w
  /\ UNCHANGED <<machine, program, credited, strays, reused, errors>>

Compute(p) ==
  /\ p \in alive /\ stopper[p] = "nobody" /\ used[p] < MaxUsed
  /\ used' = [used EXCEPT ![p] = @ + 1]
  /\ spent' = [spent EXCEPT ![p] = @ + 1]
  /\ UNCHANGED <<gen, alive, stopper, wanted, program, credited, strays,
                 reused, errors>>

(* A debugger, or a shell.                                                 *)
OtherStops(p) ==
  /\ p \in alive /\ stopper[p] = "nobody"
  /\ stopper' = [stopper EXCEPT ![p] = "other"]
  /\ UNCHANGED <<gen, alive, used, spent, wanted, program, credited, strays,
                 reused, errors>>

Exit(p) ==
  /\ p \in alive
  /\ alive' = alive \ {p}
  /\ strays' = strays \ {p}
  /\ UNCHANGED <<gen, used, stopper, spent, wanted, program, credited,
                 reused, errors>>

Reuse(p) ==
  /\ p \notin alive /\ gen[p] < MaxGeneration
  /\ gen' = [gen EXCEPT ![p] = @ + 1]
  /\ alive' = alive \cup {p}
  /\ used' = [used EXCEPT ![p] = 0]
  /\ stopper' = [stopper EXCEPT ![p] = "nobody"]
  /\ reused' = reused \cup {p}
  /\ UNCHANGED <<spent, wanted, program, credited, strays, errors>>

Environment ==
  \/ \E w \in {"pause", "nothing", "disabled"} \ {wanted} : Choose(w)
  \/ \E p \in Pids : Compute(p) \/ OtherStops(p) \/ Exit(p) \/ Reuse(p)

Next == Refresh \/ Environment

Spec == Init /\ [][Next]_vars

(* The ticker calls Refresh again and again.                               *)
FairSpec == Spec /\ WF_vars(Refresh)

-----------------------------------------------------------------------------
(* Every part of the state keeps its type.                                 *)
TypeOK ==
  /\ gen \in [Pids -> 1..MaxGeneration] /\ alive \subseteq Pids
  /\ used \in [Pids -> Nat] /\ spent \in [Pids -> Nat] /\ credited \in [Pids -> Nat]
  /\ stopper \in [Pids -> {"us", "other", "nobody"}]
  /\ wanted \in {"pause", "nothing", "disabled"}
  /\ at \in {"list", "sample", "plan", "act"} /\ op \in {"pause", "resume"}
  /\ listed \subseteq Process /\ todo \subseteq Process /\ paused \subseteq Process
  /\ previous \subseteq [process : Process, used : Nat]
  /\ checked \in Process \cup {NoProcess}
  /\ strays \subseteq Pids /\ reused \subseteq Pids /\ errors \in 0..MaxErrors

(* CPU time is counted once at most: whatever PIDs are reused between the  *)
(* list and the samples, the calculator never credits more than processes  *)
(* with that PID have used.  Limits and alerts act on these numbers.       *)
CreditsAreSpent == \A p \in Pids : credited[p] <= spent[p]

(* A process that OpenTamer stopped is on record under its own generation, *)
(* so that a later Refresh resumes it; the exception are strays.           *)
StopsAreRecorded ==
  \A p \in alive \ strays : stopper[p] = "us" => Current(p) \in paused

(* A signal reaches another process than the one it is meant for only when *)
(* the PID was given away between the two calls: never by way of a record  *)
(* that has outlived its process, or of a list that has grown old.         *)
StraysNeedReuse ==
  [][checked # NoProcess /\ checked' = NoProcess /\ stopper' # stopper
       => gen[checked.pid] = checked.gen \/ checked.pid \in reused]_vars

(* When the rule is gone or management disabled for good, what was stopped *)
(* runs again, though a SIGCONT or a list may have failed: the record that *)
(* is kept makes a later Refresh try again.                                *)
RetriesResume ==
  \A p \in Pids :
    <>[](wanted # "pause") => <>[](p \in alive \ strays => stopper[p] # "us")

=============================================================================
