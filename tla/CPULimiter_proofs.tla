-------------------------- MODULE CPULimiter_proofs -------------------------
(***************************************************************************)
(* Proofs about CPULimiter, for any applications, processes, duties and    *)
(* entries: its safety properties, by the inductive invariant IInv, and    *)
(* that it implements LimiterContract.                                     *)
(***************************************************************************)
EXTENDS CPULimiter, TLAPS

USE DEF Waiting, Signalling, Live, Request, Valid, Seen,
        limiterVars, workerVars, osVars

(* The request that stands for "none" is a request.                        *)
LEMMA NoRequestType == NoRequest \in Request
  BY DutiesNonempty DEF NoRequest

(* What Update is called with are requests.                                *)
LEMMA RequestsType == \A r \in Requests : r \in [Apps -> Request]
  BY NoRequestType DEF Requests

(* The limiter starts with no entries and nothing stopped.                 *)
LEMMA InitInv == Init => IInv
  BY NoRequestType, EntriesAssumption
  DEF Init, IInv, TypeOK, LeftWithinRequest, Registered, Unregistered,
      OneWorkerPerApp, SleepsOnlyWaiting, OnlyTheAwaitedIsCancelled,
      HolderState, Applied, StoppedIsOwned, NoRequest

-----------------------------------------------------------------------------
(* Each action preserves IInv.                                             *)

(* A call of Update puts every valid request on the loop's list.           *)
LEMMA CallUpdateStep ==
  ASSUME IInv, NEW requests \in [Apps -> Request], CallUpdate(requests)
  PROVE  IInv'
<1>1. TypeOK'
  BY EntriesAssumption DEF IInv, TypeOK, CallUpdate
<1>2. LeftWithinRequest'
  BY DEF IInv, LeftWithinRequest, TypeOK, CallUpdate
<1>3. Registered'
  BY EntriesAssumption DEF IInv, Registered, TypeOK, CallUpdate
<1>4. Unregistered'
  BY EntriesAssumption DEF IInv, Unregistered, TypeOK, CallUpdate
<1>5. OneWorkerPerApp'
  BY EntriesAssumption DEF IInv, OneWorkerPerApp, TypeOK, CallUpdate
<1>6. SleepsOnlyWaiting'
  BY DEF IInv, SleepsOnlyWaiting, TypeOK, CallUpdate
<1>7. OnlyTheAwaitedIsCancelled'
  BY EntriesAssumption DEF IInv, OnlyTheAwaitedIsCancelled, TypeOK,
         Registered, OneWorkerPerApp, Unregistered, HolderState, CallUpdate
<1>8. HolderState'
  BY EntriesAssumption DEF IInv, HolderState, TypeOK,
         OnlyTheAwaitedIsCancelled, OneWorkerPerApp, CallUpdate
<1>9. Applied'
  BY EntriesAssumption DEF IInv, Applied, TypeOK, HolderState,
         OneWorkerPerApp, CallUpdate
<1>10. StoppedIsOwned'
  BY DEF IInv, StoppedIsOwned, TypeOK, Holds, LeftWithinRequest, CallUpdate
<1> QED  BY <1>1, <1>2, <1>3, <1>4, <1>5, <1>6, <1>7, <1>8, <1>9,
        <1>10 DEF IInv

(* StopAll wants nothing, so every entry is unseen.                        *)
LEMMA CallStopAllStep ==
  ASSUME IInv, CallStopAll
  PROVE  IInv'
<1>1. TypeOK'
  BY NoRequestType, EntriesAssumption DEF IInv, TypeOK, NoRequest, CallStopAll
<1>2. LeftWithinRequest'
  BY DEF IInv, LeftWithinRequest, TypeOK, CallStopAll
<1>3. Registered'
  BY NoRequestType, EntriesAssumption DEF IInv, Registered, TypeOK,
         CallStopAll
<1>4. Unregistered'
  BY NoRequestType, EntriesAssumption DEF IInv, Unregistered, TypeOK,
         CallStopAll
<1>5. OneWorkerPerApp'
  BY NoRequestType, EntriesAssumption DEF IInv, OneWorkerPerApp, TypeOK,
         CallStopAll
<1>6. SleepsOnlyWaiting'
  BY DEF IInv, SleepsOnlyWaiting, TypeOK, CallStopAll
<1>7. OnlyTheAwaitedIsCancelled'
  BY NoRequestType, EntriesAssumption DEF IInv, OnlyTheAwaitedIsCancelled,
         TypeOK, Registered, OneWorkerPerApp, Unregistered, HolderState,
         CallStopAll
<1>8. HolderState'
  BY NoRequestType, EntriesAssumption DEF IInv, HolderState, TypeOK,
         OnlyTheAwaitedIsCancelled, OneWorkerPerApp, CallStopAll
<1>9. Applied'
  BY NoRequestType, EntriesAssumption DEF IInv, Applied, TypeOK, HolderState,
         OneWorkerPerApp, NoRequest, CallStopAll
<1>10. StoppedIsOwned'
  BY DEF IInv, StoppedIsOwned, TypeOK, Holds, LeftWithinRequest, CallStopAll
<1> QED  BY <1>1, <1>2, <1>3, <1>4, <1>5, <1>6, <1>7, <1>8, <1>9,
        <1>10 DEF IInv

(* A key without an entry is about to get one.                             *)
LEMMA NewKeyStep ==
  ASSUME IInv, NEW a \in Apps, NewKey(a)
  PROVE  IInv'
<1>1. TypeOK'
  BY EntriesAssumption DEF IInv, TypeOK, NewKey
<1>2. LeftWithinRequest'
  BY DEF IInv, LeftWithinRequest, TypeOK, NewKey
<1>3. Registered'
  BY EntriesAssumption DEF IInv, Registered, TypeOK, NewKey
<1>4. Unregistered'
  BY EntriesAssumption DEF IInv, Unregistered, TypeOK, NewKey
<1>5. OneWorkerPerApp'
  BY EntriesAssumption DEF IInv, OneWorkerPerApp, TypeOK, NewKey
<1>6. SleepsOnlyWaiting'
  BY DEF IInv, SleepsOnlyWaiting, TypeOK, NewKey
<1>7. OnlyTheAwaitedIsCancelled'
  BY EntriesAssumption DEF IInv, OnlyTheAwaitedIsCancelled, TypeOK,
         Registered, OneWorkerPerApp, Unregistered, HolderState, NewKey
<1>8. HolderState'
  BY EntriesAssumption DEF IInv, HolderState, TypeOK,
         OnlyTheAwaitedIsCancelled, OneWorkerPerApp, NewKey
<1>9. Applied'
  BY EntriesAssumption DEF IInv, Applied, TypeOK, HolderState,
         OneWorkerPerApp, NewKey
<1>10. StoppedIsOwned'
  BY DEF IInv, StoppedIsOwned, TypeOK, Holds, LeftWithinRequest, NewKey
<1> QED  BY <1>1, <1>2, <1>3, <1>4, <1>5, <1>6, <1>7, <1>8, <1>9,
        <1>10 DEF IInv

(* An entry that already has the request is passed.                        *)
LEMMA SameRequestStep ==
  ASSUME IInv, NEW a \in Apps, SameRequest(a)
  PROVE  IInv'
<1>1. TypeOK'
  BY EntriesAssumption DEF IInv, TypeOK, SameRequest
<1>2. LeftWithinRequest'
  BY DEF IInv, LeftWithinRequest, TypeOK, SameRequest
<1>3. Registered'
  BY EntriesAssumption DEF IInv, Registered, TypeOK, SameRequest
<1>4. Unregistered'
  BY EntriesAssumption DEF IInv, Unregistered, TypeOK, SameRequest
<1>5. OneWorkerPerApp'
  BY EntriesAssumption DEF IInv, OneWorkerPerApp, TypeOK, SameRequest
<1>6. SleepsOnlyWaiting'
  BY DEF IInv, SleepsOnlyWaiting, TypeOK, SameRequest
<1>7. OnlyTheAwaitedIsCancelled'
  BY EntriesAssumption DEF IInv, OnlyTheAwaitedIsCancelled, TypeOK,
         Registered, OneWorkerPerApp, Unregistered, HolderState, SameRequest
<1>8. HolderState'
  BY EntriesAssumption DEF IInv, HolderState, TypeOK,
         OnlyTheAwaitedIsCancelled, OneWorkerPerApp, SameRequest
<1>9. Applied'
  BY EntriesAssumption DEF IInv, Applied, TypeOK, HolderState,
         OneWorkerPerApp, SameRequest
<1>10. StoppedIsOwned'
  BY DEF IInv, StoppedIsOwned, TypeOK, Holds, LeftWithinRequest, SameRequest
<1> QED  BY <1>1, <1>2, <1>3, <1>4, <1>5, <1>6, <1>7, <1>8, <1>9,
        <1>10 DEF IInv

(* entry.update changes the duty, not the processes.                       *)
LEMMA SameProcessesStep ==
  ASSUME IInv, NEW a \in Apps, SameProcesses(a)
  PROVE  IInv'
<1>1. TypeOK'
  BY EntriesAssumption DEF IInv, TypeOK, SameProcesses
<1>2. LeftWithinRequest'
  BY DEF IInv, LeftWithinRequest, TypeOK, SameProcesses
<1>3. Registered'
  BY EntriesAssumption DEF IInv, Registered, TypeOK, SameProcesses
<1>4. Unregistered'
  BY EntriesAssumption DEF IInv, Unregistered, TypeOK, SameProcesses
<1>5. OneWorkerPerApp'
  BY EntriesAssumption DEF IInv, OneWorkerPerApp, TypeOK, SameProcesses
<1>6. SleepsOnlyWaiting'
  BY DEF IInv, SleepsOnlyWaiting, TypeOK, SameProcesses
<1>7. OnlyTheAwaitedIsCancelled'
  BY EntriesAssumption DEF IInv, OnlyTheAwaitedIsCancelled, TypeOK,
         Registered, OneWorkerPerApp, Unregistered, HolderState, SameProcesses
<1>8. HolderState'
  BY EntriesAssumption DEF IInv, HolderState, TypeOK,
         OnlyTheAwaitedIsCancelled, OneWorkerPerApp, SameProcesses
<1>9. Applied'
  BY EntriesAssumption DEF IInv, Applied, TypeOK, HolderState,
         OneWorkerPerApp, SameProcesses
<1>10. StoppedIsOwned'
  BY DEF IInv, StoppedIsOwned, TypeOK, Holds, LeftWithinRequest, SameProcesses
<1> QED  BY <1>1, <1>2, <1>3, <1>4, <1>5, <1>6, <1>7, <1>8, <1>9,
        <1>10 DEF IInv

(* The token changes no entry.                                             *)
LEMMA NotifyUpdatedStep ==
  ASSUME IInv, NotifyUpdated
  PROVE  IInv'
<1>1. TypeOK'
  BY EntriesAssumption DEF IInv, TypeOK, NotifyUpdated
<1>2. LeftWithinRequest'
  BY DEF IInv, LeftWithinRequest, TypeOK, NotifyUpdated
<1>3. Registered'
  BY EntriesAssumption DEF IInv, Registered, TypeOK, NotifyUpdated
<1>4. Unregistered'
  BY EntriesAssumption DEF IInv, Unregistered, TypeOK, NotifyUpdated
<1>5. OneWorkerPerApp'
  BY EntriesAssumption DEF IInv, OneWorkerPerApp, TypeOK, NotifyUpdated
<1>6. SleepsOnlyWaiting'
  BY DEF IInv, SleepsOnlyWaiting, TypeOK, NotifyUpdated
<1>7. OnlyTheAwaitedIsCancelled'
  BY EntriesAssumption DEF IInv, OnlyTheAwaitedIsCancelled, TypeOK,
         Registered, OneWorkerPerApp, Unregistered, HolderState, NotifyUpdated
<1>8. HolderState'
  BY EntriesAssumption DEF IInv, HolderState, TypeOK,
         OnlyTheAwaitedIsCancelled, OneWorkerPerApp, NotifyUpdated
<1>9. Applied'
  BY EntriesAssumption DEF IInv, Applied, TypeOK, HolderState,
         OneWorkerPerApp, NotifyUpdated
<1>10. StoppedIsOwned'
  BY DEF IInv, StoppedIsOwned, TypeOK, Holds, LeftWithinRequest, NotifyUpdated
<1> QED  BY <1>1, <1>2, <1>3, <1>4, <1>5, <1>6, <1>7, <1>8, <1>9,
        <1>10 DEF IInv

(* The entry to replace is the one that is cancelled.                      *)
LEMMA OtherProcessesStep ==
  ASSUME IInv, NEW a \in Apps, OtherProcesses(a)
  PROVE  IInv'
<1>1. TypeOK'
  BY EntriesAssumption DEF IInv, TypeOK, OtherProcesses
<1>2. LeftWithinRequest'
  BY DEF IInv, LeftWithinRequest, TypeOK, OtherProcesses
<1>3. Registered'
  BY EntriesAssumption DEF IInv, Registered, TypeOK, OtherProcesses
<1>4. Unregistered'
  BY EntriesAssumption DEF IInv, Unregistered, TypeOK, OtherProcesses
<1>5. OneWorkerPerApp'
  BY EntriesAssumption DEF IInv, OneWorkerPerApp, TypeOK, OtherProcesses
<1>6. SleepsOnlyWaiting'
  BY DEF IInv, SleepsOnlyWaiting, TypeOK, OtherProcesses
<1>7. OnlyTheAwaitedIsCancelled'
  BY EntriesAssumption DEF IInv, OnlyTheAwaitedIsCancelled, TypeOK,
         Registered, OneWorkerPerApp, Unregistered, HolderState,
         OtherProcesses
<1>8. HolderState'
  BY EntriesAssumption DEF IInv, HolderState, TypeOK,
         OnlyTheAwaitedIsCancelled, OneWorkerPerApp, OtherProcesses
<1>9. Applied'
  BY EntriesAssumption DEF IInv, Applied, TypeOK, HolderState,
         OneWorkerPerApp, OtherProcesses
<1>10. StoppedIsOwned'
  BY DEF IInv, StoppedIsOwned, TypeOK, Holds, LeftWithinRequest,
         OtherProcesses
<1> QED  BY <1>1, <1>2, <1>3, <1>4, <1>5, <1>6, <1>7, <1>8, <1>9,
        <1>10 DEF IInv

(* The deleted entry had a worker that could no longer signal.             *)
LEMMA AwaitDoneStep ==
  ASSUME IInv, AwaitDone
  PROVE  IInv'
<1>1. TypeOK'
  BY EntriesAssumption DEF IInv, TypeOK, AwaitDone
<1>2. LeftWithinRequest'
  BY DEF IInv, LeftWithinRequest, TypeOK, AwaitDone
<1>3. Registered'
  BY EntriesAssumption DEF IInv, Registered, TypeOK, OneWorkerPerApp,
         AwaitDone
<1>4. Unregistered'
  BY EntriesAssumption DEF IInv, Unregistered, TypeOK, AwaitDone
<1>5. OneWorkerPerApp'
  BY EntriesAssumption DEF IInv, OneWorkerPerApp, TypeOK, AwaitDone
<1>6. SleepsOnlyWaiting'
  BY DEF IInv, SleepsOnlyWaiting, TypeOK, AwaitDone
<1>7. OnlyTheAwaitedIsCancelled'
  BY EntriesAssumption DEF IInv, OnlyTheAwaitedIsCancelled, TypeOK,
         Registered, OneWorkerPerApp, Unregistered, HolderState, AwaitDone
<1>8. HolderState'
  BY EntriesAssumption DEF IInv, HolderState, TypeOK,
         OnlyTheAwaitedIsCancelled, OneWorkerPerApp, AwaitDone
<1>9. Applied'
  BY EntriesAssumption DEF IInv, Applied, TypeOK, HolderState,
         OneWorkerPerApp, AwaitDone
<1>10. StoppedIsOwned'
  BY DEF IInv, StoppedIsOwned, TypeOK, Holds, LeftWithinRequest, AwaitDone
<1> QED  BY <1>1, <1>2, <1>3, <1>4, <1>5, <1>6, <1>7, <1>8, <1>9,
        <1>10 DEF IInv

(* A fresh entry takes a key that has none.                                *)
LEMMA StartEntryStep ==
  ASSUME IInv, NEW e \in Entries, StartEntry(e)
  PROVE  IInv'
<1>1. TypeOK'
  BY EntriesAssumption DEF IInv, TypeOK, StartEntry
<1>2. LeftWithinRequest'
  BY DEF IInv, LeftWithinRequest, TypeOK, StartEntry
<1>3. Registered'
  BY EntriesAssumption DEF IInv, Registered, TypeOK, StartEntry
<1>4. Unregistered'
  BY EntriesAssumption DEF IInv, Unregistered, TypeOK, HolderState, StartEntry
<1>5. OneWorkerPerApp'
  BY EntriesAssumption DEF IInv, OneWorkerPerApp, TypeOK, HolderState,
         Registered, Unregistered, StartEntry
<1>6. SleepsOnlyWaiting'
  BY DEF IInv, SleepsOnlyWaiting, TypeOK, StartEntry
<1>7. OnlyTheAwaitedIsCancelled'
  BY EntriesAssumption DEF IInv, OnlyTheAwaitedIsCancelled, TypeOK,
         Registered, OneWorkerPerApp, Unregistered, HolderState, StartEntry
<1>8. HolderState'
  BY EntriesAssumption DEF IInv, HolderState, TypeOK,
         OnlyTheAwaitedIsCancelled, OneWorkerPerApp, StartEntry
<1>9. Applied'
  BY EntriesAssumption DEF IInv, Applied, TypeOK, HolderState,
         OneWorkerPerApp, Registered, StartEntry
<1>10. StoppedIsOwned'
  BY DEF IInv, StoppedIsOwned, TypeOK, Holds, LeftWithinRequest, StartEntry
<1> QED  BY <1>1, <1>2, <1>3, <1>4, <1>5, <1>6, <1>7, <1>8, <1>9,
        <1>10 DEF IInv

(* The request loop ends with every request applied.                       *)
LEMMA RequestsDoneStep ==
  ASSUME IInv, RequestsDone
  PROVE  IInv'
<1>1. TypeOK'
  BY EntriesAssumption DEF IInv, TypeOK, RequestsDone
<1>2. LeftWithinRequest'
  BY DEF IInv, LeftWithinRequest, TypeOK, RequestsDone
<1>3. Registered'
  BY EntriesAssumption DEF IInv, Registered, TypeOK, RequestsDone
<1>4. Unregistered'
  BY EntriesAssumption DEF IInv, Unregistered, TypeOK, RequestsDone
<1>5. OneWorkerPerApp'
  BY EntriesAssumption DEF IInv, OneWorkerPerApp, TypeOK, RequestsDone
<1>6. SleepsOnlyWaiting'
  BY DEF IInv, SleepsOnlyWaiting, TypeOK, RequestsDone
<1>7. OnlyTheAwaitedIsCancelled'
  BY EntriesAssumption DEF IInv, OnlyTheAwaitedIsCancelled, TypeOK,
         Registered, OneWorkerPerApp, Unregistered, HolderState, RequestsDone
<1>8. HolderState'
  BY EntriesAssumption DEF IInv, HolderState, TypeOK,
         OnlyTheAwaitedIsCancelled, OneWorkerPerApp, RequestsDone
<1>9. Applied'
  BY EntriesAssumption DEF IInv, Applied, TypeOK, HolderState,
         OneWorkerPerApp, RequestsDone
<1>10. StoppedIsOwned'
  BY DEF IInv, StoppedIsOwned, TypeOK, Holds, LeftWithinRequest, RequestsDone
<1> QED  BY <1>1, <1>2, <1>3, <1>4, <1>5, <1>6, <1>7, <1>8, <1>9,
        <1>10 DEF IInv

(* The sweep cancels one unseen entry at a time.                           *)
LEMMA StopUnseenStep ==
  ASSUME IInv, NEW a \in Apps, StopUnseen(a)
  PROVE  IInv'
<1>1. TypeOK'
  BY EntriesAssumption DEF IInv, TypeOK, StopUnseen
<1>2. LeftWithinRequest'
  BY DEF IInv, LeftWithinRequest, TypeOK, StopUnseen
<1>3. Registered'
  BY EntriesAssumption DEF IInv, Registered, TypeOK, StopUnseen
<1>4. Unregistered'
  BY EntriesAssumption DEF IInv, Unregistered, TypeOK, StopUnseen
<1>5. OneWorkerPerApp'
  BY EntriesAssumption DEF IInv, OneWorkerPerApp, TypeOK, StopUnseen
<1>6. SleepsOnlyWaiting'
  BY DEF IInv, SleepsOnlyWaiting, TypeOK, StopUnseen
<1>7. OnlyTheAwaitedIsCancelled'
  BY EntriesAssumption DEF IInv, OnlyTheAwaitedIsCancelled, TypeOK,
         Registered, OneWorkerPerApp, Unregistered, HolderState, StopUnseen
<1>8. HolderState'
  BY EntriesAssumption DEF IInv, HolderState, TypeOK,
         OnlyTheAwaitedIsCancelled, OneWorkerPerApp, StopUnseen
<1>9. Applied'
  BY EntriesAssumption DEF IInv, Applied, TypeOK, HolderState,
         OneWorkerPerApp, StopUnseen
<1>10. StoppedIsOwned'
  BY DEF IInv, StoppedIsOwned, TypeOK, Holds, LeftWithinRequest, StopUnseen
<1> QED  BY <1>1, <1>2, <1>3, <1>4, <1>5, <1>6, <1>7, <1>8, <1>9,
        <1>10 DEF IInv

(* A call returns with only seen entries.                                  *)
LEMMA ReturnStep ==
  ASSUME IInv, Return
  PROVE  IInv'
<1>1. TypeOK'
  BY EntriesAssumption DEF IInv, TypeOK, Return
<1>2. LeftWithinRequest'
  BY DEF IInv, LeftWithinRequest, TypeOK, Return
<1>3. Registered'
  BY EntriesAssumption DEF IInv, Registered, TypeOK, Return
<1>4. Unregistered'
  BY EntriesAssumption DEF IInv, Unregistered, TypeOK, Return
<1>5. OneWorkerPerApp'
  BY EntriesAssumption DEF IInv, OneWorkerPerApp, TypeOK, Return
<1>6. SleepsOnlyWaiting'
  BY DEF IInv, SleepsOnlyWaiting, TypeOK, Return
<1>7. OnlyTheAwaitedIsCancelled'
  BY EntriesAssumption DEF IInv, OnlyTheAwaitedIsCancelled, TypeOK,
         Registered, OneWorkerPerApp, Unregistered, HolderState, Return
<1>8. HolderState'
  BY EntriesAssumption DEF IInv, HolderState, TypeOK,
         OnlyTheAwaitedIsCancelled, OneWorkerPerApp, Return
<1>9. Applied'
  BY EntriesAssumption DEF IInv, Applied, TypeOK, HolderState,
         OneWorkerPerApp, Return
<1>10. StoppedIsOwned'
  BY DEF IInv, StoppedIsOwned, TypeOK, Holds, LeftWithinRequest, Return
<1> QED  BY <1>1, <1>2, <1>3, <1>4, <1>5, <1>6, <1>7, <1>8, <1>9,
        <1>10 DEF IInv

(* A process that a worker crosses off runs again or has refused.          *)
LEMMA ContinueStep ==
  ASSUME IInv, NEW e \in Entries, NEW p \in Procs, Continue(e, p)
  PROVE  IInv'
<1>1. TypeOK'
  BY EntriesAssumption DEF IInv, TypeOK, Continue, Released, Refused
<1>2. LeftWithinRequest'
  BY DEF IInv, LeftWithinRequest, TypeOK, Continue
<1>3. Registered'
  BY EntriesAssumption DEF IInv, Registered, TypeOK, Continue
<1>4. Unregistered'
  BY EntriesAssumption DEF IInv, Unregistered, TypeOK, Continue
<1>5. OneWorkerPerApp'
  BY EntriesAssumption DEF IInv, OneWorkerPerApp, TypeOK, Continue
<1>6. SleepsOnlyWaiting'
  BY DEF IInv, SleepsOnlyWaiting, TypeOK, Continue
<1>7. OnlyTheAwaitedIsCancelled'
  BY EntriesAssumption DEF IInv, OnlyTheAwaitedIsCancelled, TypeOK,
         Registered, OneWorkerPerApp, Unregistered, HolderState, Continue
<1>8. HolderState'
  BY EntriesAssumption DEF IInv, HolderState, TypeOK,
         OnlyTheAwaitedIsCancelled, OneWorkerPerApp, Continue
<1>9. Applied'
  BY EntriesAssumption DEF IInv, Applied, TypeOK, HolderState,
         OneWorkerPerApp, Continue
<1>10. StoppedIsOwned'
  BY DEF IInv, StoppedIsOwned, TypeOK, Holds, LeftWithinRequest, Continue,
         Released, Refused
<1> QED  BY <1>1, <1>2, <1>3, <1>4, <1>5, <1>6, <1>7, <1>8, <1>9,
        <1>10 DEF IInv

(* A process stopped by a worker is one that the worker holds.             *)
LEMMA StopStep ==
  ASSUME IInv, NEW e \in Entries, NEW p \in Procs, Stop(e, p)
  PROVE  IInv'
<1>1. TypeOK'
  BY EntriesAssumption DEF IInv, TypeOK, Stop
<1>2. LeftWithinRequest'
  BY DEF IInv, LeftWithinRequest, TypeOK, Stop
<1>3. Registered'
  BY EntriesAssumption DEF IInv, Registered, TypeOK, Stop
<1>4. Unregistered'
  BY EntriesAssumption DEF IInv, Unregistered, TypeOK, Stop
<1>5. OneWorkerPerApp'
  BY EntriesAssumption DEF IInv, OneWorkerPerApp, TypeOK, Stop
<1>6. SleepsOnlyWaiting'
  BY DEF IInv, SleepsOnlyWaiting, TypeOK, Stop
<1>7. OnlyTheAwaitedIsCancelled'
  BY EntriesAssumption DEF IInv, OnlyTheAwaitedIsCancelled, TypeOK,
         Registered, OneWorkerPerApp, Unregistered, HolderState, Stop
<1>8. HolderState'
  BY EntriesAssumption DEF IInv, HolderState, TypeOK,
         OnlyTheAwaitedIsCancelled, OneWorkerPerApp, Stop
<1>9. Applied'
  BY EntriesAssumption DEF IInv, Applied, TypeOK, HolderState,
         OneWorkerPerApp, Stop
<1>10. StoppedIsOwned'
  BY DEF IInv, StoppedIsOwned, TypeOK, Holds, LeftWithinRequest, Stop
<1> QED  BY <1>1, <1>2, <1>3, <1>4, <1>5, <1>6, <1>7, <1>8, <1>9,
        <1>10 DEF IInv

(* Setting a timer signals nothing.                                        *)
LEMMA ArmStep ==
  ASSUME IInv, NEW e \in Entries, Arm(e)
  PROVE  IInv'
<1>1. TypeOK'
  BY EntriesAssumption DEF IInv, TypeOK, Arm
<1>2. LeftWithinRequest'
  BY DEF IInv, LeftWithinRequest, TypeOK, Arm
<1>3. Registered'
  BY EntriesAssumption DEF IInv, Registered, TypeOK, Arm
<1>4. Unregistered'
  BY EntriesAssumption DEF IInv, Unregistered, TypeOK, Arm
<1>5. OneWorkerPerApp'
  BY EntriesAssumption DEF IInv, OneWorkerPerApp, TypeOK, Arm
<1>6. SleepsOnlyWaiting'
  BY DEF IInv, SleepsOnlyWaiting, TypeOK, Arm
<1>7. OnlyTheAwaitedIsCancelled'
  BY EntriesAssumption DEF IInv, OnlyTheAwaitedIsCancelled, TypeOK,
         Registered, OneWorkerPerApp, Unregistered, HolderState, Arm
<1>8. HolderState'
  BY EntriesAssumption DEF IInv, HolderState, TypeOK,
         OnlyTheAwaitedIsCancelled, OneWorkerPerApp, Arm
<1>9. Applied'
  BY EntriesAssumption DEF IInv, Applied, TypeOK, HolderState,
         OneWorkerPerApp, Arm
<1>10. StoppedIsOwned'
  BY DEF IInv, StoppedIsOwned, TypeOK, Holds, LeftWithinRequest, Arm
<1> QED  BY <1>1, <1>2, <1>3, <1>4, <1>5, <1>6, <1>7, <1>8, <1>9,
        <1>10 DEF IInv

(* Receiving the token signals nothing.                                    *)
LEMMA SeeUpdateStep ==
  ASSUME IInv, NEW e \in Entries, SeeUpdate(e)
  PROVE  IInv'
<1>1. TypeOK'
  BY EntriesAssumption DEF IInv, TypeOK, SeeUpdate
<1>2. LeftWithinRequest'
  BY DEF IInv, LeftWithinRequest, TypeOK, SeeUpdate
<1>3. Registered'
  BY EntriesAssumption DEF IInv, Registered, TypeOK, SeeUpdate
<1>4. Unregistered'
  BY EntriesAssumption DEF IInv, Unregistered, TypeOK, SeeUpdate
<1>5. OneWorkerPerApp'
  BY EntriesAssumption DEF IInv, OneWorkerPerApp, TypeOK, SeeUpdate
<1>6. SleepsOnlyWaiting'
  BY DEF IInv, SleepsOnlyWaiting, TypeOK, SeeUpdate
<1>7. OnlyTheAwaitedIsCancelled'
  BY EntriesAssumption DEF IInv, OnlyTheAwaitedIsCancelled, TypeOK,
         Registered, OneWorkerPerApp, Unregistered, HolderState, SeeUpdate
<1>8. HolderState'
  BY EntriesAssumption DEF IInv, HolderState, TypeOK,
         OnlyTheAwaitedIsCancelled, OneWorkerPerApp, SeeUpdate
<1>9. Applied'
  BY EntriesAssumption DEF IInv, Applied, TypeOK, HolderState,
         OneWorkerPerApp, SeeUpdate
<1>10. StoppedIsOwned'
  BY DEF IInv, StoppedIsOwned, TypeOK, Holds, LeftWithinRequest, SeeUpdate
<1> QED  BY <1>1, <1>2, <1>3, <1>4, <1>5, <1>6, <1>7, <1>8, <1>9,
        <1>10 DEF IInv

(* A phase that ends has all its processes before it.                      *)
LEMMA PhaseEndsStep ==
  ASSUME IInv, NEW e \in Entries, PhaseEnds(e)
  PROVE  IInv'
<1>1. TypeOK'
  BY EntriesAssumption DEF IInv, TypeOK, PhaseEnds
<1>2. LeftWithinRequest'
  BY DEF IInv, LeftWithinRequest, TypeOK, PhaseEnds
<1>3. Registered'
  BY EntriesAssumption DEF IInv, Registered, TypeOK, PhaseEnds
<1>4. Unregistered'
  BY EntriesAssumption DEF IInv, Unregistered, TypeOK, PhaseEnds
<1>5. OneWorkerPerApp'
  BY EntriesAssumption DEF IInv, OneWorkerPerApp, TypeOK, PhaseEnds
<1>6. SleepsOnlyWaiting'
  BY DEF IInv, SleepsOnlyWaiting, TypeOK, PhaseEnds
<1>7. OnlyTheAwaitedIsCancelled'
  BY EntriesAssumption DEF IInv, OnlyTheAwaitedIsCancelled, TypeOK,
         Registered, OneWorkerPerApp, Unregistered, HolderState, PhaseEnds
<1>8. HolderState'
  BY EntriesAssumption DEF IInv, HolderState, TypeOK,
         OnlyTheAwaitedIsCancelled, OneWorkerPerApp, PhaseEnds
<1>9. Applied'
  BY EntriesAssumption DEF IInv, Applied, TypeOK, HolderState,
         OneWorkerPerApp, PhaseEnds
<1>10. StoppedIsOwned'
  BY DEF IInv, StoppedIsOwned, TypeOK, Holds, LeftWithinRequest, PhaseEnds
<1> QED  BY <1>1, <1>2, <1>3, <1>4, <1>5, <1>6, <1>7, <1>8, <1>9,
        <1>10 DEF IInv

(* A cancelled worker has all its processes to resume.                     *)
LEMMA SeeCancelStep ==
  ASSUME IInv, NEW e \in Entries, SeeCancel(e)
  PROVE  IInv'
<1>1. TypeOK'
  BY EntriesAssumption DEF IInv, TypeOK, SeeCancel
<1>2. LeftWithinRequest'
  BY DEF IInv, LeftWithinRequest, TypeOK, SeeCancel
<1>3. Registered'
  BY EntriesAssumption DEF IInv, Registered, TypeOK, SeeCancel
<1>4. Unregistered'
  BY EntriesAssumption DEF IInv, Unregistered, TypeOK, SeeCancel
<1>5. OneWorkerPerApp'
  BY EntriesAssumption DEF IInv, OneWorkerPerApp, TypeOK, SeeCancel
<1>6. SleepsOnlyWaiting'
  BY DEF IInv, SleepsOnlyWaiting, TypeOK, SeeCancel
<1>7. OnlyTheAwaitedIsCancelled'
  BY EntriesAssumption DEF IInv, OnlyTheAwaitedIsCancelled, TypeOK,
         Registered, OneWorkerPerApp, Unregistered, HolderState, SeeCancel
<1>8. HolderState'
  BY EntriesAssumption DEF IInv, HolderState, TypeOK,
         OnlyTheAwaitedIsCancelled, OneWorkerPerApp, SeeCancel
<1>9. Applied'
  BY EntriesAssumption DEF IInv, Applied, TypeOK, HolderState,
         OneWorkerPerApp, SeeCancel
<1>10. StoppedIsOwned'
  BY DEF IInv, StoppedIsOwned, TypeOK, Holds, LeftWithinRequest, SeeCancel
<1> QED  BY <1>1, <1>2, <1>3, <1>4, <1>5, <1>6, <1>7, <1>8, <1>9,
        <1>10 DEF IInv

(* An exit only shrinks the set of stopped processes.                      *)
LEMMA ExitStep ==
  ASSUME IInv, NEW p \in Procs, Exit(p)
  PROVE  IInv'
<1>1. TypeOK'
  BY EntriesAssumption DEF IInv, TypeOK, Exit, Released
<1>2. LeftWithinRequest'
  BY DEF IInv, LeftWithinRequest, TypeOK, Exit
<1>3. Registered'
  BY EntriesAssumption DEF IInv, Registered, TypeOK, Exit
<1>4. Unregistered'
  BY EntriesAssumption DEF IInv, Unregistered, TypeOK, Exit
<1>5. OneWorkerPerApp'
  BY EntriesAssumption DEF IInv, OneWorkerPerApp, TypeOK, Exit
<1>6. SleepsOnlyWaiting'
  BY DEF IInv, SleepsOnlyWaiting, TypeOK, Exit
<1>7. OnlyTheAwaitedIsCancelled'
  BY EntriesAssumption DEF IInv, OnlyTheAwaitedIsCancelled, TypeOK,
         Registered, OneWorkerPerApp, Unregistered, HolderState, Exit
<1>8. HolderState'
  BY EntriesAssumption DEF IInv, HolderState, TypeOK,
         OnlyTheAwaitedIsCancelled, OneWorkerPerApp, Exit
<1>9. Applied'
  BY EntriesAssumption DEF IInv, Applied, TypeOK, HolderState,
         OneWorkerPerApp, Exit
<1>10. StoppedIsOwned'
  BY DEF IInv, StoppedIsOwned, TypeOK, Holds, LeftWithinRequest, Exit,
         Released
<1> QED  BY <1>1, <1>2, <1>3, <1>4, <1>5, <1>6, <1>7, <1>8, <1>9,
        <1>10 DEF IInv
-----------------------------------------------------------------------------
(* Every step preserves IInv.                                              *)
LEMMA NextInv == IInv /\ [Next]_vars => IInv'
<1> SUFFICES ASSUME IInv, [Next]_vars PROVE IInv'
  OBVIOUS
<1>1. ASSUME NEW requests \in [Apps -> Request], CallUpdate(requests)
      PROVE  IInv'
  BY <1>1, CallUpdateStep
<1>2. CASE CallStopAll
  BY <1>2, CallStopAllStep
<1>3. CASE Caller
  BY <1>3, NewKeyStep, SameRequestStep, SameProcessesStep, NotifyUpdatedStep,
     OtherProcessesStep, AwaitDoneStep, StartEntryStep, RequestsDoneStep,
     StopUnseenStep, ReturnStep
  DEF Caller
<1>4. ASSUME NEW e \in Entries, Worker(e)
      PROVE  IInv'
  BY <1>4, ContinueStep, StopStep, ArmStep, SeeUpdateStep, PhaseEndsStep,
     SeeCancelStep
  DEF Worker, Signal
<1>5. ASSUME NEW p \in Procs, Exit(p)
      PROVE  IInv'
  BY <1>5, ExitStep
<1>6. CASE UNCHANGED vars
  BY <1>6
  DEF vars, IInv, TypeOK, LeftWithinRequest, Registered, Unregistered,
      OneWorkerPerApp, SleepsOnlyWaiting, OnlyTheAwaitedIsCancelled,
      HolderState, Applied, StoppedIsOwned, Holds
<1> QED  BY <1>1, <1>2, <1>3, <1>4, <1>5, <1>6, RequestsType DEF Next

(* IInv holds of every reachable state.                                    *)
THEOREM Invariance == Spec => []IInv
  BY InitInv, NextInv, PTL DEF Spec

(* Every variable keeps its type.                                          *)
THEOREM TypeCorrect == Spec => []TypeOK
<1>1. IInv => TypeOK
  BY DEF IInv
<1> QED  BY <1>1, Invariance, PTL

(* Every process the limiter holds stopped has a worker bound to send it   *)
(* SIGCONT, unless its last SIGCONT failed: run never loses a SIGSTOP,     *)
(* however its requests change and whichever signals fail.                 *)
THEOREM StopsAreOwned == Spec => []StoppedIsOwned
<1>1. IInv => StoppedIsOwned
  BY DEF IInv
<1> QED  BY <1>1, Invariance, PTL

(* A replacement duty cycle never runs beside the one it replaces, which   *)
(* is what stopEntryLocked waits for.                                      *)
THEOREM WorkersAreUnique == Spec => []OneWorkerPerApp
<1>1. IInv => OneWorkerPerApp
  BY DEF IInv
<1> QED  BY <1>1, Invariance, PTL

(* When Update or StopAll returns, the duty cycles are the requested ones. *)
THEOREM CallsApply == Spec => []CallApplied
<1>1. IInv => CallApplied
  BY DEF IInv, CallApplied, HolderState, OnlyTheAwaitedIsCancelled, Applied
<1> QED  BY <1>1, Invariance, PTL

(* A limiter without entries holds no process stopped but those whose last *)
(* SIGCONT failed: StopAll has sent every other one SIGCONT before it      *)
(* returns.                                                                *)
THEOREM EmptyIsQuiet == Spec => []QuietWhenEmpty
<1>1. IInv => QuietWhenEmpty
  <2> SUFFICES ASSUME IInv, at = "idle", \A a \in Apps : entries[a] = NoEntry,
                      NEW p \in stopped \ refused
               PROVE  FALSE
    BY DEF QuietWhenEmpty
  <2>1. PICK e \in Entries : p \in Holds(e)
    BY DEF IInv, StoppedIsOwned
  <2>2. pc[e] # "free"
    BY <2>1 DEF Holds
  <2>3. PICK a \in Apps : entries[a] = e
    BY <2>2 DEF IInv, Unregistered
  <2> QED  BY <2>3, EntriesAssumption
<1> QED  BY <1>1, Invariance, PTL

(* A new duty reaches a sleeping worker: while the worker is asleep on the *)
(* duty of an older request, a token, the send of one or a cancellation is *)
(* pending (entry.update and waitForLimitPhase).                           *)
THEOREM WakeUpsAreKept == Spec => []NoLostUpdate
<1>1. Init => NoLostUpdate
  BY DEF Init, NoLostUpdate
<1>2. IInv /\ NoLostUpdate /\ [Next]_vars => NoLostUpdate'
  <2> SUFFICES ASSUME IInv, NoLostUpdate, [Next]_vars PROVE NoLostUpdate'
    OBVIOUS
  <2> USE DEF NoLostUpdate, IInv, TypeOK
  <2>1. ASSUME NEW requests \in [Apps -> Request], CallUpdate(requests)
        PROVE  NoLostUpdate'
    BY <2>1 DEF CallUpdate
  <2>2. CASE CallStopAll
    BY <2>2 DEF CallStopAll
  <2>3. ASSUME NEW a \in Apps, SameProcesses(a)
        PROVE  NoLostUpdate'
    BY <2>3 DEF SameProcesses
  <2>4. ASSUME NEW a \in Apps, NewKey(a) \/ SameRequest(a)
        PROVE  NoLostUpdate'
    BY <2>4 DEF NewKey, SameRequest
  <2>5. ASSUME NEW a \in Apps, OtherProcesses(a) \/ StopUnseen(a)
        PROVE  NoLostUpdate'
    BY <2>5 DEF OtherProcesses, StopUnseen
  <2>6. CASE NotifyUpdated
    BY <2>6 DEF NotifyUpdated
  <2>7. CASE AwaitDone
    BY <2>7 DEF AwaitDone
  <2>8. CASE RequestsDone \/ Return
    BY <2>8 DEF RequestsDone, Return
  <2>9. ASSUME NEW e \in Entries, StartEntry(e)
        PROVE  NoLostUpdate'
    BY <2>9 DEF StartEntry
  <2>10. ASSUME NEW e \in Entries, Signal(e)
         PROVE  NoLostUpdate'
    BY <2>10, DutiesAssumption DEF Signal, Continue, Stop, SleepsOnlyWaiting
  <2>11. ASSUME NEW e \in Entries, Arm(e) \/ SeeUpdate(e)
         PROVE  NoLostUpdate'
    BY <2>11 DEF Arm, SeeUpdate
  <2>12. ASSUME NEW e \in Entries, PhaseEnds(e) \/ SeeCancel(e)
         PROVE  NoLostUpdate'
    BY <2>12 DEF PhaseEnds, SeeCancel
  <2>13. ASSUME NEW p \in Procs, Exit(p)
         PROVE  NoLostUpdate'
    BY <2>13 DEF Exit
  <2>14. CASE UNCHANGED vars
    BY <2>14 DEF vars
  <2> QED
    BY <2>1, <2>2, <2>3, <2>4, <2>5, <2>6, <2>7, <2>8, <2>9, <2>10, <2>11,
       <2>12, <2>13, <2>14, RequestsType
    DEF Next, Caller, Worker
<1> QED  BY <1>1, <1>2, Invariance, PTL DEF Spec

-----------------------------------------------------------------------------
(* The limiter implements the contract.                                    *)

(* Only a worker's start and its end change the processes that have duty   *)
(* cycles.                                                                 *)
LEMMA SameCycle ==
  ASSUME IInv, pc' = pc,
         \A e \in Entries : request'[e].procs = request[e].procs
  PROVE  cycle' = cycle
  BY DEF cycle

(* Every step of the limiter is a step of the contract, or none.           *)
LEMMA NextImplements ==
  IInv /\ IInv' /\ [Next]_vars => [Contract!Next]_<<cycle, stopped, refused>>
<1> SUFFICES ASSUME IInv, IInv', [Next]_vars
             PROVE  Contract!Next \/ UNCHANGED <<cycle, stopped, refused>>
  OBVIOUS
<1>1. ASSUME NEW requests \in [Apps -> Request], CallUpdate(requests)
      PROVE  UNCHANGED <<cycle, stopped, refused>>
  BY <1>1, SameCycle DEF CallUpdate
<1>2. CASE CallStopAll
  BY <1>2, SameCycle DEF CallStopAll
<1>3. ASSUME NEW a \in Apps,
             NewKey(a) \/ SameRequest(a) \/ OtherProcesses(a) \/ StopUnseen(a)
      PROVE  UNCHANGED <<cycle, stopped, refused>>
  BY <1>3, SameCycle DEF NewKey, SameRequest, OtherProcesses, StopUnseen
<1>4. ASSUME NEW a \in Apps, SameProcesses(a)
      PROVE  UNCHANGED <<cycle, stopped, refused>>
  BY <1>4, SameCycle, EntriesAssumption DEF SameProcesses, IInv, TypeOK
<1>5. CASE NotifyUpdated \/ RequestsDone \/ Return
  BY <1>5, SameCycle DEF NotifyUpdated, RequestsDone, Return
<1>6. CASE AwaitDone
  BY <1>6 DEF AwaitDone, cycle, IInv, TypeOK
<1>7. ASSUME NEW e \in Entries, StartEntry(e)
      PROVE  Contract!Open(e, want[subject].procs)
  BY <1>7 DEF StartEntry, cycle, Contract!Open, IInv, TypeOK
<1>8. ASSUME NEW e \in Entries, NEW p \in Procs, Continue(e, p)
      PROVE  Contract!Next
  <2>1. Contract!Release(p) \/ Contract!Refuse(p)
    BY <1>8 DEF Continue, Released, Refused, Contract!Release,
                Contract!Refuse
  <2>2. p \in cycle[e]
    BY <1>8 DEF Continue, cycle, IInv, LeftWithinRequest
  <2>3. CASE pc'[e] # "done"
    <3>1. cycle' = cycle
      BY <1>8, <2>3 DEF Continue, cycle, IInv, TypeOK
    <3> QED  BY <2>1, <2>2, <3>1 DEF Contract!Next, Contract!Continue
  <2>4. CASE pc'[e] = "done"
    <3>1. cycle' = [cycle EXCEPT ![e] = {}]
      BY <1>8, <2>4 DEF Continue, cycle, IInv, TypeOK
    <3>2. stopped' \subseteq Contract!Covered(cycle') \cup refused'
      <4> SUFFICES ASSUME NEW q \in stopped' \ refused'
                   PROVE  \E f \in Entries : q \in cycle'[f]
        BY DEF Contract!Covered
      <4>1. PICK f \in Entries : q \in Holds(f)'
        BY DEF IInv, StoppedIsOwned
      <4>2. q \in cycle'[f]
        BY <4>1 DEF Holds, cycle, IInv, LeftWithinRequest
      <4> QED  BY <4>2
    <3> QED  BY <2>1, <2>2, <3>1, <3>2 DEF Contract!Next, Contract!Close
  <2> QED  BY <2>3, <2>4
<1>9. ASSUME NEW e \in Entries, NEW p \in Procs, Stop(e, p)
      PROVE  Contract!Next \/ UNCHANGED <<cycle, stopped, refused>>
  <2>1. cycle' = cycle
    BY <1>9 DEF Stop, cycle, IInv, TypeOK
  <2>2. p \in cycle[e]
    BY <1>9 DEF Stop, cycle, IInv, LeftWithinRequest
  <2>3. \/ stopped' = stopped \cup {p} /\ refused' = refused \ {p}
        \/ UNCHANGED <<stopped, refused>>
    BY <1>9 DEF Stop
  <2> QED  BY <2>1, <2>2, <2>3 DEF Contract!Next, Contract!Stop
<1>10. ASSUME NEW e \in Entries, Arm(e) \/ SeeUpdate(e)
       PROVE  UNCHANGED <<cycle, stopped, refused>>
  BY <1>10, SameCycle DEF Arm, SeeUpdate
<1>11. ASSUME NEW e \in Entries, PhaseEnds(e) \/ SeeCancel(e)
       PROVE  UNCHANGED <<cycle, stopped, refused>>
  BY <1>11 DEF PhaseEnds, SeeCancel, cycle, IInv, TypeOK
<1>12. ASSUME NEW p \in Procs, Exit(p)
       PROVE  Contract!Next
  <2>1. cycle' = cycle
    BY <1>12, SameCycle DEF Exit
  <2> QED  BY <1>12, <2>1 DEF Exit, Released, Contract!Next, Contract!Exit,
                              Contract!Release
<1>13. CASE UNCHANGED vars
  BY <1>13, SameCycle DEF vars
<1> QED
  BY <1>1, <1>2, <1>3, <1>4, <1>5, <1>6, <1>7, <1>8, <1>9, <1>10, <1>11,
     <1>12, <1>13, RequestsType
  DEF Next, Caller, Worker, Signal, Contract!Next, IInv, TypeOK

(* The worker goroutines implement the contract: a duty cycle that ends    *)
(* leaves stopped only what another cycle covers or what has refused its   *)
(* last SIGCONT.                                                           *)
THEOREM Refinement == Spec => RefinesContract
<1>1. Init => Contract!Init
  BY DEF Init, Contract!Init, cycle
<1>2. IInv /\ IInv' /\ [Next]_vars => [Contract!Next]_<<cycle, stopped, refused>>
  BY NextImplements
<1> QED
  BY <1>1, <1>2, Invariance, PTL
  DEF Spec, RefinesContract, Contract!Spec, Contract!contractVars

=============================================================================
