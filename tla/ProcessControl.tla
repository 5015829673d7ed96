--------------------------- MODULE ProcessControl ---------------------------
(***************************************************************************)
(* How AppGroupController (src/internal/app/process_control.go) carries    *)
(* out one control action: the signals, priorities and AppKit calls it     *)
(* makes and the records it keeps in the runtime state.  An operator takes *)
(* and returns a pair: the machine "os" and the runtime state "rt".        *)
(*                                                                         *)
(* The loop over the processes of a group is one step, and calls on a live *)
(* process succeed; a call on a process that has exited fails with         *)
(* ErrProcessExited.                                                       *)
(***************************************************************************)
EXTENDS Scheduler

Background == 20   \* core.DefaultBackgroundNice

(* The lowest PID comes first in a group (ProcessGrouper sorts them).      *)
FirstProc(S) == CHOOSE p \in S : \A q \in S : p <= q

-----------------------------------------------------------------------------

(* PauseGroup stops the processes that are not recorded as paused.         *)
PauseGroup(s, procs) ==
  LET fresh == (procs \ s.rt.paused) \cap s.os.alive
  IN [os |-> [s.os EXCEPT !.stopped = @ \cup fresh],
      rt |-> [s.rt EXCEPT !.paused = @ \cup fresh]]

(* Mutant: ClearPause is forgotten.                                        *)
ResumeAndKeepRecords(s, procs) ==
  [s EXCEPT !.os.stopped = @ \ (procs \cap s.rt.paused)]

(* ResumeGroup continues the recorded ones; those that have exited only    *)
(* lose their record.                                                      *)
ResumeGroup(s, procs) ==
  LET recorded == procs \cap s.rt.paused
  IN [os |-> [s.os EXCEPT !.stopped = @ \ recorded],
      rt |-> [s.rt EXCEPT !.paused = @ \ recorded]]

(* WakeGroupBriefly continues the recorded ones and keeps the records.     *)
WakeGroupBriefly(s, procs) ==
  [s EXCEPT !.os.stopped = @ \ (procs \cap s.rt.paused)]

(* DarwinPriorityController.SetPriority on the processes of DOMAIN value:  *)
(* taskpolicy -b from 20 up, taskpolicy -B from 0 down, and setpriority    *)
(* between them, which leaves the background policy as it is.              *)
SetPriority(os, value) ==
  [os EXCEPT
     !.nice = [p \in Procs |->
                 IF p \in DOMAIN value /\ 0 < value[p] /\ value[p] < Background
                 THEN value[p] ELSE @[p]],
     !.background = (@ \cup {p \in DOMAIN value : value[p] >= Background})
                      \ {p \in DOMAIN value : value[p] = 0}]

(* SetPriorityGroup records what GetPriority reads, the nice value, as the *)
(* original, also for a process that was changed before.                   *)
SetPriorityGroup(s, procs, target) ==
  LET live == procs \cap s.os.alive
  IN [os |-> SetPriority(s.os, [p \in live |-> target]),
      rt |-> [s.rt EXCEPT !.changes =
                [p \in Procs |->
                   IF p \in live
                   THEN [original |-> s.os.nice[p], target |-> target]
                   ELSE IF p \in procs THEN NoChange ELSE @[p]]]]

(* Mutant: the record is cleared and the priority stays.                   *)
ForgetPriorityGroup(s, procs) ==
  [s EXCEPT !.rt.changes =
     [p \in Procs |-> IF p \in procs THEN NoChange ELSE @[p]]]

(* RestorePriorityGroup sets the recorded original and drops the record.   *)
RestorePriorityGroup(s, procs) ==
  LET recorded == procs \cap Changed(s.rt)
  IN [os |-> SetPriority(s.os, [p \in recorded \cap s.os.alive |->
                                  s.rt.changes[p].original]),
      rt |-> [s.rt EXCEPT !.changes =
                [p \in Procs |-> IF p \in recorded THEN NoChange ELSE @[p]]]]

(* HideGroup acts on the first process of the group only.                  *)
HideGroup(s, a, procs) ==
  LET p == FirstProc(procs)
  IN IF p \in s.os.alive
     THEN [os |-> [s.os EXCEPT !.concealed = @ \cup {p},
                               !.front = IF @ = a THEN NoApp ELSE @],
           rt |-> [s.rt EXCEPT !.hidden[a] = p]]
     ELSE s

(* ActivateGroup acts on the recorded process, and on the given one when   *)
(* nothing is recorded any more; it brings the application to the front.   *)
ActivateGroup(s, a, procs) ==
  LET p == IF s.rt.hidden[a] # NoProc THEN s.rt.hidden[a] ELSE FirstProc(procs)
  IN [os |-> IF p \in s.os.alive
             THEN [s.os EXCEPT !.concealed = @ \ {p}, !.front = a]
             ELSE s.os,
      rt |-> [s.rt EXCEPT !.hidden[a] = NoProc]]

-----------------------------------------------------------------------------
(* One iteration of executeActions.  A quit request changes nothing here;  *)
(* the limiter takes the limit_cpu actions.                                *)
Execute(s, action) ==
  LET a == action.app
      procs == action.procs
  IN CASE action.type = "pause" -> PauseGroup(s, procs)
       [] action.type = "resume" ->
            LET resumed == ResumeGroup(s, procs)
            IN IF resumed.rt.hidden[a] # NoProc
               THEN ActivateGroup(resumed, a, procs) ELSE resumed
       [] action.type = "wake_briefly" -> WakeGroupBriefly(s, procs)
       [] action.type = "set_priority" ->
            SetPriorityGroup(s, procs, action.nice)
       [] action.type = "restore_priority" -> RestorePriorityGroup(s, procs)
       [] action.type = "hide_when_stopped" ->
            IF procs \subseteq s.rt.paused THEN HideGroup(s, a, procs) ELSE s
       [] action.type = "hide" -> HideGroup(s, a, procs)
       [] action.type = "activate" -> ActivateGroup(s, a, procs)
       [] OTHER -> s

=============================================================================
