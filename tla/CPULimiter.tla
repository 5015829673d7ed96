----------------------------- MODULE CPULimiter -----------------------------
(***************************************************************************)
(* The CPU limiter of src/internal/app/cpu_limiter.go.  For every          *)
(* application it limits, a worker goroutine alternates SIGCONT and        *)
(* SIGSTOP over the application's processes; Update (from Refresh) and     *)
(* StopAll (from shutdown) add, change and remove workers while holding    *)
(* limiter.mu.  A caller that removes a worker cancels it and waits, still *)
(* holding the mutex, until the worker has resumed its processes.          *)
(*                                                                         *)
(* Time is abstract: a phase may end at any moment after it began.  A      *)
(* process identifier stands for one process generation, and the check of  *)
(* the generation and the signal that follows it are one step.             *)
(***************************************************************************)
EXTENDS Naturals, FiniteSets

CONSTANTS Apps,      \* the keys AppID.Key() that requests can carry
          Procs,     \* process generations
          Duties,    \* the pairs (RunFor, StopFor) with both positive
          Entries,   \* identities of cpuLimitEntry objects
          NoEntry,   \* an absent map element
          Unarmed    \* no timer is running

ASSUME EntriesAssumption == NoEntry \notin Entries
ASSUME DutiesAssumption == Unarmed \notin Duties
ASSUME DutiesNonempty == Duties # {}

VARIABLES
  \* the limiter, protected by limiter.mu
  entries,    \* entries[a]: the entry registered for a, or NoEntry
  at,         \* where the holder of limiter.mu is; "idle" when it is free
  want,       \* the requests of the call in progress, or of the last one
  todo,       \* the applications whose request the loop has not handled yet
  subject,    \* the application the holder is handling
  \* the entries and their workers
  pc,         \* where the worker of an entry is
  request,    \* entry.request
  cancelled,  \* entry.ctx is cancelled
  updated,    \* entry.updated holds its one token
  armed,      \* the duty the running timer was set from, or Unarmed
  left,       \* the processes the current signalling loop has not reached
  \* the operating system
  stopped,    \* the processes that SIGSTOP holds
  refused,    \* those of them whose last SIGCONT was skipped or failed
  alive       \* the processes that have not exited

limiterVars == <<entries, at, want, todo, subject>>
workerVars == <<pc, request, cancelled, updated, armed, left>>
osVars == <<stopped, refused, alive>>
vars == <<entries, at, want, todo, subject,
          pc, request, cancelled, updated, armed, left,
          stopped, refused, alive>>

Request == [procs : SUBSET Procs, duty : Duties]

(* A request with no processes is one that Update skips: like no request.  *)
NoRequest == [procs |-> {}, duty |-> CHOOSE d \in Duties : TRUE]
Valid(r) == r.procs # {}
Requests == [Apps -> {NoRequest} \cup {r \in Request : Valid(r)}]
Seen == {a \in Apps : Valid(want[a])}

Waiting == {"run", "hold"}            \* inside waitForLimitPhase
Signalling == {"resuming", "stopping", "closing"}
Live == Waiting \cup Signalling       \* between go run() and close(done)

(* The processes that worker e may have left stopped.                      *)
Holds(e) == IF pc[e] \in {"stopping", "hold"} THEN request[e].procs
            ELSE IF pc[e] \in {"resuming", "closing"} THEN left[e]
            ELSE {}

(* A worker of p goes on to another phase, or has its cancellation ahead.  *)
Expected(p) == \E e \in Entries : /\ pc[e] \in Live \ {"closing"}
                                  /\ p \in request[e].procs

(* A worker is about to send p SIGCONT.                                    *)
Resuming(p) ==
  \E e \in Entries : pc[e] \in {"resuming", "closing"} /\ p \in left[e]

TypeOK ==
  /\ entries \in [Apps -> Entries \cup {NoEntry}]
  /\ at \in {"idle", "requests", "start", "notify", "await", "sweep"}
  /\ want \in [Apps -> Request]
  /\ todo \in SUBSET Apps
  /\ subject \in Apps
  /\ pc \in [Entries -> Live \cup {"free", "done"}]
  /\ request \in [Entries -> Request]
  /\ cancelled \in [Entries -> BOOLEAN]
  /\ updated \in [Entries -> BOOLEAN]
  /\ armed \in [Entries -> Duties \cup {Unarmed}]
  /\ left \in [Entries -> SUBSET Procs]
  /\ stopped \in SUBSET Procs
  /\ refused \in SUBSET stopped
  /\ alive \in SUBSET Procs

Init ==
  /\ entries = [a \in Apps |-> NoEntry]
  /\ at = "idle"
  /\ want = [a \in Apps |-> NoRequest]
  /\ todo = {}
  /\ subject \in Apps
  /\ pc = [e \in Entries |-> "free"]
  /\ request = [e \in Entries |-> NoRequest]
  /\ cancelled = [e \in Entries |-> FALSE]
  /\ updated = [e \in Entries |-> FALSE]
  /\ armed = [e \in Entries |-> Unarmed]
  /\ left = [e \in Entries |-> {}]
  /\ stopped = {}
  /\ refused = {}
  /\ alive = Procs

-----------------------------------------------------------------------------
(* The callers, under limiter.mu.                                          *)

CallUpdate(requests) ==
  /\ at = "idle"
  /\ at' = "requests"
  /\ want' = requests
  /\ todo' = {a \in Apps : Valid(requests[a])}
  /\ UNCHANGED <<entries, subject, workerVars, osVars>>

CallStopAll ==
  /\ at = "idle"
  /\ at' = "sweep"
  /\ want' = [a \in Apps |-> NoRequest]
  /\ UNCHANGED <<entries, todo, subject, workerVars, osVars>>

(* No entry for the key: startEntryLocked comes next.                      *)
NewKey(a) ==
  /\ at = "requests" /\ a \in todo
  /\ entries[a] = NoEntry
  /\ at' = "start"
  /\ subject' = a
  /\ UNCHANGED <<entries, want, todo, workerVars, osVars>>

(* Mutant: the comparison of the requests forgets the processes.           *)
SameRequestByDuty(a) ==
  /\ at = "requests" /\ a \in todo
  /\ entries[a] # NoEntry
  /\ request[entries[a]].duty = want[a].duty
  /\ todo' = todo \ {a}
  /\ UNCHANGED <<entries, at, want, subject, workerVars, osVars>>

(* sameCPULimitRequest: nothing to do.                                     *)
SameRequest(a) ==
  /\ at = "requests" /\ a \in todo
  /\ entries[a] # NoEntry
  /\ request[entries[a]] = want[a]
  /\ todo' = todo \ {a}
  /\ UNCHANGED <<entries, at, want, subject, workerVars, osVars>>

(* sameCPULimitProcesses: entry.update stores the request ...              *)
SameProcesses(a) ==
  /\ at = "requests" /\ a \in todo
  /\ entries[a] # NoEntry
  /\ request[entries[a]] # want[a]
  /\ request[entries[a]].procs = want[a].procs
  /\ request' = [request EXCEPT ![entries[a]] = want[a]]
  /\ at' = "notify"
  /\ subject' = a
  /\ UNCHANGED <<entries, want, todo, pc, cancelled, updated, armed, left,
                 osVars>>

(* Mutant: the new request is stored, and nobody is told.                  *)
NotifyNobody ==
  /\ at = "notify"
  /\ at' = "requests"
  /\ todo' = todo \ {subject}
  /\ UNCHANGED <<entries, want, subject, workerVars, osVars>>

(* ... and then offers a token to entry.updated, which holds at most one.  *)
NotifyUpdated ==
  /\ at = "notify"
  /\ updated' = [updated EXCEPT ![entries[subject]] = TRUE]
  /\ at' = "requests"
  /\ todo' = todo \ {subject}
  /\ UNCHANGED <<entries, want, subject, pc, request, cancelled, armed, left,
                 osVars>>

(* Other processes: the entry is cancelled, and awaited in AwaitDone.      *)
OtherProcesses(a) ==
  /\ at = "requests" /\ a \in todo
  /\ entries[a] # NoEntry
  /\ request[entries[a]].procs # want[a].procs
  /\ cancelled' = [cancelled EXCEPT ![entries[a]] = TRUE]
  /\ at' = "await"
  /\ subject' = a
  /\ UNCHANGED <<entries, want, todo, pc, request, updated, armed, left,
                 osVars>>

(* Mutant: the key is deleted without waiting for the worker.              *)
DeleteAtOnce ==
  /\ at = "await"
  /\ entries' = [entries EXCEPT ![subject] = NoEntry]
  /\ at' = IF subject \in todo THEN "start" ELSE "sweep"
  /\ UNCHANGED <<want, todo, subject, workerVars, osVars>>

(* stopEntryLocked after <-entry.done: the key is deleted.  In the request *)
(* loop the key still has a request to start; in the sweep it has none.    *)
AwaitDone ==
  /\ at = "await"
  /\ pc[entries[subject]] = "done"
  /\ pc' = [pc EXCEPT ![entries[subject]] = "free"]
  /\ entries' = [entries EXCEPT ![subject] = NoEntry]
  /\ at' = IF subject \in todo THEN "start" ELSE "sweep"
  /\ UNCHANGED <<want, todo, subject, request, cancelled, updated, armed,
                 left, osVars>>

(* startEntryLocked: a fresh entry, whose worker begins by resuming.       *)
StartEntry(e) ==
  /\ at = "start"
  /\ pc[e] = "free"
  /\ entries' = [entries EXCEPT ![subject] = e]
  /\ pc' = [pc EXCEPT ![e] = "resuming"]
  /\ request' = [request EXCEPT ![e] = want[subject]]
  /\ cancelled' = [cancelled EXCEPT ![e] = FALSE]
  /\ updated' = [updated EXCEPT ![e] = FALSE]
  /\ armed' = [armed EXCEPT ![e] = Unarmed]
  /\ left' = [left EXCEPT ![e] = want[subject].procs]
  /\ at' = "requests"
  /\ todo' = todo \ {subject}
  /\ UNCHANGED <<want, subject, osVars>>

RequestsDone ==
  /\ at = "requests" /\ todo = {}
  /\ at' = "sweep"
  /\ UNCHANGED <<entries, want, todo, subject, workerVars, osVars>>

(* The loop over limiter.entries stops every entry that was not seen.      *)
StopUnseen(a) ==
  /\ at = "sweep"
  /\ entries[a] # NoEntry /\ a \notin Seen
  /\ cancelled' = [cancelled EXCEPT ![entries[a]] = TRUE]
  /\ at' = "await"
  /\ subject' = a
  /\ UNCHANGED <<entries, want, todo, pc, request, updated, armed, left,
                 osVars>>

Return ==
  /\ at = "sweep"
  /\ \A a \in Apps : entries[a] # NoEntry => a \in Seen
  /\ at' = "idle"
  /\ UNCHANGED <<entries, want, todo, subject, workerVars, osVars>>

Caller ==
  \/ \E a \in Apps : \/ NewKey(a) \/ SameRequest(a) \/ SameProcesses(a)
                     \/ OtherProcesses(a) \/ StopUnseen(a)
  \/ NotifyUpdated \/ AwaitDone \/ RequestsDone \/ Return
  \/ \E e \in Entries : StartEntry(e)

-----------------------------------------------------------------------------
(* The worker of an entry.                                                 *)

(* SIGCONT reaches p, or p is gone.                                        *)
Released(p) == /\ stopped' = stopped \ {p}
               /\ refused' = refused \ {p}

(* The validation of p or the signal fails, which is logged and no more.   *)
Refused(p) == /\ refused' = refused \cup ({p} \cap stopped)
              /\ UNCHANGED stopped

(* Mutant: a cancelled worker resumes its first process only.              *)
ContinueFirst(e, p) ==
  /\ pc[e] \in {"resuming", "closing"} /\ p \in left[e]
  /\ Released(p) \/ Refused(p)
  /\ left' = [left EXCEPT ![e] = @ \ {p}]
  /\ pc' = [pc EXCEPT ![e] = IF @ = "closing" THEN "done"
                             ELSE IF left[e] = {p} THEN "run" ELSE @]
  /\ UNCHANGED <<limiterVars, request, cancelled, updated, armed, alive>>

(* Mutant: a cancelled worker resumes its processes and does not return.   *)
ContinueForEver(e, p) ==
  /\ pc[e] \in {"resuming", "closing"} /\ p \in left[e]
  /\ Released(p) \/ Refused(p)
  /\ left' = [left EXCEPT ![e] = @ \ {p}]
  /\ pc' = [pc EXCEPT ![e] = IF left[e] # {p} THEN @ ELSE "run"]
  /\ UNCHANGED <<limiterVars, request, cancelled, updated, armed, alive>>

(* One iteration of continueProcesses, which goes on after a failure; with *)
(* the last process the worker enters the run phase, or closes done when   *)
(* it was cancelled, whether or not its processes run.                     *)
Continue(e, p) ==
  /\ pc[e] \in {"resuming", "closing"} /\ p \in left[e]
  /\ Released(p) \/ Refused(p)
  /\ left' = [left EXCEPT ![e] = @ \ {p}]
  /\ pc' = [pc EXCEPT ![e] = IF left[e] # {p} THEN @
                             ELSE IF @ = "resuming" THEN "run" ELSE "done"]
  /\ UNCHANGED <<limiterVars, request, cancelled, updated, armed, alive>>

(* One iteration of stopProcesses.  The signal may fail, and is skipped    *)
(* when the process has exited.                                            *)
Stop(e, p) ==
  /\ pc[e] = "stopping" /\ p \in left[e]
  /\ \E delivered \in SUBSET ({p} \cap alive) :
        /\ stopped' = stopped \cup delivered
        /\ refused' = refused \ delivered
  /\ left' = [left EXCEPT ![e] = @ \ {p}]
  /\ pc' = [pc EXCEPT ![e] = IF left[e] # {p} THEN @ ELSE "hold"]
  /\ UNCHANGED <<limiterVars, request, cancelled, updated, armed, alive>>

(* waitForLimitPhase, top of the loop: not cancelled and time remains, so  *)
(* a timer is set from the duration the request has now.                   *)
Arm(e) ==
  /\ pc[e] \in Waiting /\ armed[e] = Unarmed
  /\ ~cancelled[e]
  /\ armed' = [armed EXCEPT ![e] = request[e].duty]
  /\ UNCHANGED <<limiterVars, pc, request, cancelled, updated, left, osVars>>

(* The select receives the token: the loop reads the duration again.       *)
SeeUpdate(e) ==
  /\ pc[e] \in Waiting /\ armed[e] # Unarmed
  /\ updated[e]
  /\ updated' = [updated EXCEPT ![e] = FALSE]
  /\ armed' = [armed EXCEPT ![e] = Unarmed]
  /\ UNCHANGED <<limiterVars, pc, request, cancelled, left, osVars>>

(* The phase is over: no time remains at the top of the loop, where ctx    *)
(* was just found alive, or the select takes the timer, which it may do    *)
(* even when ctx is done as well.                                          *)
PhaseEnds(e) ==
  /\ pc[e] \in Waiting
  /\ armed[e] # Unarmed \/ ~cancelled[e]
  /\ pc' = [pc EXCEPT ![e] = IF @ = "run" THEN "stopping" ELSE "resuming"]
  /\ left' = [left EXCEPT ![e] = request[e].procs]
  /\ armed' = [armed EXCEPT ![e] = Unarmed]
  /\ UNCHANGED <<limiterVars, request, cancelled, updated, osVars>>

(* Mutant: a worker cancelled in its run phase returns at once, as its     *)
(* processes were sent SIGCONT when the phase began.                       *)
SeeCancelInRun(e) ==
  /\ pc[e] \in Waiting
  /\ cancelled[e]
  /\ pc' = [pc EXCEPT ![e] = IF @ = "run" THEN "done" ELSE "closing"]
  /\ left' = [left EXCEPT ![e] = IF pc[e] = "run" THEN @
                                 ELSE request[e].procs]
  /\ armed' = [armed EXCEPT ![e] = Unarmed]
  /\ UNCHANGED <<limiterVars, request, cancelled, updated, osVars>>

(* Mutant: a cancelled worker returns without resuming its processes.      *)
SeeCancelAndLeave(e) ==
  /\ pc[e] \in Waiting
  /\ cancelled[e]
  /\ pc' = [pc EXCEPT ![e] = "done"]
  /\ armed' = [armed EXCEPT ![e] = Unarmed]
  /\ UNCHANGED <<limiterVars, request, cancelled, updated, left, osVars>>

(* ctx is done, at the top of the loop or in the select: resume and exit.  *)
SeeCancel(e) ==
  /\ pc[e] \in Waiting
  /\ cancelled[e]
  /\ pc' = [pc EXCEPT ![e] = "closing"]
  /\ left' = [left EXCEPT ![e] = request[e].procs]
  /\ armed' = [armed EXCEPT ![e] = Unarmed]
  /\ UNCHANGED <<limiterVars, request, cancelled, updated, osVars>>

Signal(e) == \E p \in Procs : Continue(e, p) \/ Stop(e, p)

Worker(e) ==
  Signal(e) \/ Arm(e) \/ SeeUpdate(e) \/ PhaseEnds(e) \/ SeeCancel(e)

(* A process exits, stopped or not (SIGKILL).                              *)
Exit(p) ==
  /\ p \in alive
  /\ alive' = alive \ {p}
  /\ Released(p)
  /\ UNCHANGED <<limiterVars, workerVars>>

Next ==
  \/ \E requests \in Requests : CallUpdate(requests)
  \/ CallStopAll
  \/ Caller
  \/ \E e \in Entries : Worker(e)
  \/ \E p \in Procs : Exit(p)

Spec == Init /\ [][Next]_vars

(* Timers expire, the goroutines run and the holder of the mutex goes on.  *)
(* Nothing makes a caller call again or a process exit.                    *)
Fairness ==
  /\ WF_vars(Caller)
  /\ \A e \in Entries : /\ WF_vars(Signal(e))
                        /\ WF_vars(PhaseEnds(e) \/ SeeCancel(e))

FairSpec == Spec /\ Fairness

-----------------------------------------------------------------------------
(* A process that the limiter stopped has a worker that has yet to send it *)
(* SIGCONT, unless the last SIGCONT it was due failed: no interleaving of  *)
(* duty cycles, request changes and removals forgets a SIGSTOP, only a     *)
(* failing signal leaves one behind (run and stopEntryLocked).             *)
StoppedIsOwned ==
  \A p \in stopped \ refused : \E e \in Entries : p \in Holds(e)

(* A worker that can still signal is registered under exactly one key, so  *)
(* "can no longer stop them or interfere with a replacement duty cycle"    *)
(* (stopEntryLocked) holds from the moment a replacement is started.       *)
OneWorkerPerApp ==
  /\ \A e \in Entries : pc[e] \in Live => \E a \in Apps : entries[a] = e
  /\ \A a, b \in Apps :
        entries[a] = entries[b] /\ entries[a] # NoEntry => a = b

(* When a call has returned, the duty cycles are those it asked for, key   *)
(* by key, whatever cycles it found (Update, StopAll).                     *)
CallApplied ==
  at = "idle" =>
    \A a \in Apps : IF Valid(want[a])
                    THEN /\ entries[a] # NoEntry
                         /\ request[entries[a]] = want[a]
                         /\ ~cancelled[entries[a]]
                    ELSE entries[a] = NoEntry

(* When no application is limited, the limiter left no process stopped but *)
(* those whose last SIGCONT failed.  This is what shutdown relies on when  *)
(* it calls StopAll.                                                       *)
QuietWhenEmpty ==
  at = "idle" /\ (\A a \in Apps : entries[a] = NoEntry)
    => stopped \subseteq refused

(* A worker never sleeps on an outdated duration without a wake-up on its  *)
(* way: the token, the send about to offer it, or a cancellation           *)
(* (entry.update, notifyUpdated, waitForLimitPhase).                       *)
NoLostUpdate ==
  \A e \in Entries :
    pc[e] \in Waiting /\ armed[e] \notin {Unarmed, request[e].duty} =>
      \/ updated[e]
      \/ at = "notify" /\ entries[subject] = e
      \/ cancelled[e]

(* Every SIGSTOP of the limiter is followed by a SIGCONT, delivered or     *)
(* refused, or the process exits (run).                                    *)
StopsEnd ==
  \A p \in Procs : p \in stopped \ refused ~> p \notin stopped \ refused

(* A SIGCONT that failed is tried again while the process has a worker,    *)
(* at the end of the next stop phase or by the cancelled worker: the       *)
(* signalling loop comes back to the process, unless it no longer waits    *)
(* for it.  Only the last attempt, of the cancelled worker, has no next    *)
(* (run, continueProcesses).                                               *)
RefusedIsRetried ==
  \A p \in Procs : p \in refused /\ Expected(p)
                    ~> p \notin refused \/ Resuming(p)

(* Update and StopAll return: waiting for a worker while holding           *)
(* limiter.mu does not block them for ever.                                *)
CallsReturn == at # "idle" ~> at = "idle"

-----------------------------------------------------------------------------
(* The inductive invariant behind the safety properties.                   *)

LeftWithinRequest == \A e \in Entries : left[e] \subseteq request[e].procs

Registered ==
  \A a \in Apps : entries[a] # NoEntry => pc[entries[a]] # "free"

Unregistered ==
  \A e \in Entries : pc[e] # "free" => \E a \in Apps : entries[a] = e

SleepsOnlyWaiting ==
  \A e \in Entries : armed[e] # Unarmed => pc[e] \in Waiting

OnlyTheAwaitedIsCancelled ==
  /\ \A a \in Apps : entries[a] # NoEntry /\ cancelled[entries[a]]
                      => at = "await" /\ subject = a
  /\ \A e \in Entries : pc[e] \in {"closing", "done"} => cancelled[e]

HolderState ==
  /\ todo \subseteq Seen
  /\ at \in {"idle", "sweep"} => todo = {}
  /\ at = "idle" => \A a \in Apps : entries[a] # NoEntry => a \in Seen
  /\ at = "start" => subject \in todo /\ entries[subject] = NoEntry
  /\ at = "notify" => /\ subject \in todo
                      /\ entries[subject] # NoEntry
                      /\ request[entries[subject]] = want[subject]
  /\ at = "await" => /\ entries[subject] # NoEntry
                     /\ cancelled[entries[subject]]
                     /\ subject \notin todo => todo = {} /\ subject \notin Seen

(* A request the loop has passed is in force for the rest of the call.     *)
Applied ==
  \A a \in Seen \ todo : /\ entries[a] # NoEntry
                         /\ request[entries[a]] = want[a]

IInv == /\ TypeOK
        /\ LeftWithinRequest
        /\ Registered
        /\ Unregistered
        /\ OneWorkerPerApp
        /\ SleepsOnlyWaiting
        /\ OnlyTheAwaitedIsCancelled
        /\ HolderState
        /\ Applied
        /\ StoppedIsOwned

-----------------------------------------------------------------------------
(* What the limiter promises, without its locks, phases and timers.        *)
cycle == [e \in Entries |-> IF pc[e] \in Live THEN request[e].procs ELSE {}]

Contract == INSTANCE LimiterContract WITH Workers <- Entries

(* The worker goroutines implement the contract.                           *)
RefinesContract == Contract!Spec

=============================================================================
