------------------------------- MODULE Alerts ------------------------------
(***************************************************************************)
(* High CPU alerts: the detector (src/internal/app/high_cpu.go), which     *)
(* every Refresh feeds with its samples, and the notifier                  *)
(* (src/internal/macos/notify), which shows what the detector raises from  *)
(* a bounded queue and a goroutine of its own.                             *)
(*                                                                         *)
(* Time is counted in refreshes; an age stops at the bound the code        *)
(* compares it with.  The detector lives in memory only.                   *)
(***************************************************************************)
EXTENDS Naturals, FiniteSets, SequencesExt

CONSTANTS Apps,
          Duration,   \* HighCPUDuration, in refreshes
          Cooldown,   \* HighCPUCooldown, in refreshes
          QueueSize,  \* notificationQueueSize
          Loads,      \* what a refresh may sample of an application
          None        \* the zero time.Time

(* No sample; below the threshold, or explained by a control in force;     *)
(* above it; two groups with the same AppID, one above and one below.      *)
ASSUME LoadsAssumption == Loads \subseteq {"absent", "quiet", "high", "both"}
ASSUME TimesAssumption == {Duration, Cooldown, QueueSize} \subseteq Nat \ {0}
ASSUME AppsAssumption == IsFiniteSet(Apps)
ASSUME NoneAssumption == None \notin Nat

VARIABLES
  enabled,     \* HighCPUDetectionEnabled
  exceeded,    \* age of ExceededSince, per application
  notified,    \* age of LastNotifiedAt, per application
  pending,     \* the notices that Refresh has yet to hand to the notifier
  queue,       \* notifier.queue
  worker,      \* the goroutine run: idle, or with a notice in hand
  permission,  \* authorizationStatus of the notification center
  above,       \* history: for how many refreshes it has been high
  gap          \* history: the age of the last notice raised

detector == <<exceeded, notified>>
notifier == <<queue, worker, permission>>
history == <<above, gap>>
vars == <<enabled, detector, pending, notifier, history>>

Idle == [pc |-> "idle", app |-> None]
Lower(x, y) == IF x < y THEN x ELSE y

TypeOK ==
  /\ enabled \in BOOLEAN
  /\ exceeded \in [Apps -> (0 .. Duration) \cup {None}]
  /\ notified \in [Apps -> (0 .. Cooldown) \cup {None}]
  /\ pending \in Seq(Apps) /\ queue \in Seq(Apps)
  /\ Len(queue) <= QueueSize
  /\ worker \in {Idle} \cup [pc : {"authorizing", "delivering"}, app : Apps]
  /\ permission \in {"undetermined", "granted", "denied"}
  /\ above \in [Apps -> 0 .. (Duration + 1)]
  /\ gap \in [Apps -> 0 .. Cooldown]

Init ==
  /\ enabled \in BOOLEAN
  /\ exceeded = [a \in Apps |-> None]
  /\ notified = [a \in Apps |-> None]
  /\ pending = <<>> /\ queue = <<>>
  /\ worker = Idle
  /\ permission \in {"undetermined", "granted", "denied"}
  /\ above = [a \in Apps |-> 0]
  /\ gap = [a \in Apps |-> Cooldown]

-----------------------------------------------------------------------------
(* HighCPUDetector.Update                                                  *)

Older(age, limit) == IF age = None THEN None ELSE Lower(age + 1, limit)

(* Mutant: an application is due while it cools down.                      *)
DueWhenHot(a) == Older(exceeded[a], Duration) = Duration

(* Mutant: it is due when it has just begun.                               *)
DueOnce(a) == /\ Older(exceeded[a], Duration) = Duration
              /\ notified[a] = None

(* It is high for long enough, and its last notice is long enough ago.     *)
Due(a) == /\ Older(exceeded[a], Duration) = Duration
          /\ \/ notified[a] = None
             \/ Older(notified[a], Cooldown) = Cooldown

(* Samples come highest first, so the quiet one of "both" comes last.      *)
NextExceeded(a, load) ==
  CASE ~enabled \/ load = "absent" -> Older(exceeded[a], Duration)
    [] load \in {"quiet", "both"} -> None
    [] OTHER -> IF exceeded[a] = None THEN 0 ELSE Older(exceeded[a], Duration)

Raised(load) == {a \in Apps : enabled /\ load[a] \in {"high", "both"} /\ Due(a)}

(* One refresh, with the samples in the order of their CPU.                *)
Refresh ==
  \E load \in [Apps -> Loads] :
    /\ pending = <<>>
    /\ pending' \in SetToSeqs(Raised(load))
    /\ exceeded' = [a \in Apps |-> NextExceeded(a, load[a])]
    /\ notified' = [a \in Apps |-> IF a \in Raised(load) THEN 0
                                   ELSE Older(notified[a], Cooldown)]
    /\ above' = [a \in Apps |-> IF enabled /\ load[a] \in {"high", "both"}
                                THEN Lower(above[a] + 1, Duration + 1) ELSE 0]
    /\ gap' = [a \in Apps |-> IF a \in Raised(load) THEN 0
                              ELSE Lower(gap[a] + 1, Cooldown)]
    /\ UNCHANGED <<enabled, notifier>>

Toggle == enabled' = ~enabled /\ UNCHANGED <<detector, pending, notifier, history>>

-----------------------------------------------------------------------------
(* UserNotifier                                                            *)

(* NotifyHighCPU: a full queue costs the notice.                           *)
Post ==
  /\ pending # <<>>
  /\ pending' = Tail(pending)
  /\ queue' = IF Len(queue) < QueueSize THEN Append(queue, Head(pending))
              ELSE queue
  /\ UNCHANGED <<enabled, detector, worker, permission, history>>

Take ==
  /\ worker = Idle /\ queue # <<>>
  /\ worker' = [pc |-> "authorizing", app |-> Head(queue)]
  /\ queue' = Tail(queue)
  /\ UNCHANGED <<enabled, detector, pending, permission, history>>

(* Mutant: the goroutine ends at the first notice that is refused.         *)
AuthorizeOrEnd ==
  /\ worker.pc = "authorizing"
  /\ worker' = [worker EXCEPT !.pc = IF permission = "granted"
                                     THEN "delivering" ELSE "ended"]
  /\ UNCHANGED <<enabled, detector, pending, queue, permission, history>>

(* OpenTamerNotificationAuthorized: the first notice asks the user, who    *)
(* may leave the question open for longer than the 30 seconds.             *)
Authorize ==
  /\ worker.pc = "authorizing"
  /\ permission' \in IF permission = "undetermined"
                     THEN {"undetermined", "granted", "denied"}
                     ELSE {permission}
  /\ worker' = IF permission' = "granted"
               THEN [worker EXCEPT !.pc = "delivering"] ELSE Idle
  /\ UNCHANGED <<enabled, detector, pending, queue, history>>

(* addNotificationRequest, which is shown, fails or times out.             *)
Deliver ==
  /\ worker.pc = "delivering"
  /\ worker' = Idle
  /\ UNCHANGED <<enabled, detector, pending, queue, permission, history>>

(* In the system settings, or late to the question.                        *)
SetPermission ==
  /\ permission' \in {"granted", "denied"}
  /\ UNCHANGED <<enabled, detector, pending, queue, worker, history>>

Next == \/ Refresh \/ Toggle \/ Post
        \/ Take \/ Authorize \/ Deliver \/ SetPermission

Spec == Init /\ [][Next]_vars

(* The ticker and the goroutine go on; both waits of the goroutine end by  *)
(* themselves.                                                             *)
FairSpec == /\ Spec
            /\ WF_vars(Refresh) /\ WF_vars(Post)
            /\ WF_vars(Take) /\ WF_vars(Authorize) /\ WF_vars(Deliver)

-----------------------------------------------------------------------------
(* "notify you when an app stays above your configured system CPU          *)
(* threshold long enough" (README): an application that has been high for  *)
(* Duration was noticed within the last Cooldown.                          *)
SustainedIsNotified ==
  \A a \in Apps : above[a] = Duration + 1 => gap[a] < Cooldown

(* The cooldown: however an application rises and falls, and whatever is   *)
(* switched off and on, two notices about it are Cooldown apart.           *)
NoticesAreSpaced ==
  [][\A a \in Apps : pending = <<>> /\ Contains(pending', a)
                       => gap[a] + 1 >= Cooldown]_vars

(* What makes the two inductive.  The clock of the cooldown runs with the  *)
(* history, through every switch and absence; the clock of the duration    *)
(* is at least as old as the current rise.                                 *)
Clocks ==
  \A a \in Apps :
    gap[a] = IF notified[a] = None THEN Cooldown ELSE notified[a]

Rising ==
  \A a \in Apps : above[a] > 0 =>
    exceeded[a] # None /\ Lower(above[a] - 1, Duration) <= exceeded[a]

(* An application that stays high is brought to the user again and again,  *)
(* unless the user refuses, or the notices of others, which are shown,     *)
(* keep the queue full.                                                    *)
StaysHighIsShown ==
  \A a \in Apps :
    <>[](above[a] = Duration + 1) =>
      \/ []<>(worker = [pc |-> "delivering", app |-> a])
      \/ []<>(Len(queue) = QueueSize) /\ []<>(worker.pc = "delivering")
      \/ []<>(permission # "granted")

=============================================================================
