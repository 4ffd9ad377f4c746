-------------------------- MODULE BatchQueueProofs --------------------------
(* Theorems about BatchQueue for every set of calls; the answers of the     *)
(* queue, and the proof that it implements RequestQueue, are at the end.    *)
EXTENDS BatchQueue, TLAPS

USE DEF etcdVars, clientVars, workerVars, ClientGoto, WorkerGoto

\* Every variable keeps its type.
THEOREM TypeCorrect == Spec => []TypeOK
<1>1. Init => TypeOK
  BY DEF Init, TypeOK, Outcomes, Answers, ClientSteps, WorkerSteps
<1>2. TypeOK /\ [Next]_vars => TypeOK'
  <2> SUFFICES ASSUME TypeOK, [Next]_vars PROVE TypeOK'
    OBVIOUS
  <2> USE DEF TypeOK
  <2>1. ASSUME NEW b \in Batches, AddBatch(b) PROVE TypeOK'
    BY <2>1 DEF AddBatch, ClientSteps, WorkerSteps
  <2>2. ASSUME NEW b \in Batches, ClientStep(b) PROVE TypeOK'
    <3> USE DEF ClientSteps, Answers, Failures
    <3>1. CASE StartWatch(b)      BY <3>1 DEF StartWatch
    <3>2. CASE DeadlinePasses(b)  BY <3>2 DEF DeadlinePasses
    <3>3. CASE WatchEvent(b)      BY <3>3 DEF WatchEvent
    <3>4. CASE /\ PollResult(b) \/ FetchResult(b) \/ LastAttempt(b)
               /\ GetAndDeleteResult(b)
      <4>1. UNCHANGED <<etcdVars, event, lock, workerVars, applied>>
        BY <3>4 DEF PollResult, FetchResult, LastAttempt
      <4>2. QED  BY <3>4, <4>1 DEF GetAndDeleteResult
    <3>5. CASE PollResult(b) /\ ~GetAndDeleteResult(b)
      BY <3>5 DEF PollResult, NoResult
    <3>6. CASE FetchResult(b) /\ ~GetAndDeleteResult(b)
      BY <3>6 DEF FetchResult, NoResult
    <3>7. CASE LastAttempt(b) /\ ~GetAndDeleteResult(b)
      <4>1. /\ NoResult(b, "done")
            /\ answer' = [answer EXCEPT ![b] = "timed out"]
            /\ UNCHANGED <<etcdVars, event, lock, workerVars, applied>>
        BY <3>7 DEF LastAttempt
      <4>2. QED  BY <4>1 DEF NoResult
    <3>8. QED
      BY <2>2, <3>1, <3>2, <3>3, <3>4, <3>5, <3>6, <3>7 DEF ClientStep
  <2>3. ASSUME NEW w \in Batches, WorkerStep(w) PROVE TypeOK'
    <3>1. CASE CheckPending(w)    BY <3>1 DEF CheckPending, WorkerSteps
    <3>2. CASE TryLock(w)         BY <3>2 DEF TryLock, WorkerSteps
    <3>3. CASE RetryLock(w)       BY <3>3 DEF RetryLock, WorkerSteps
    <3>4. CASE AcquireTimeout(w)  BY <3>4 DEF AcquireTimeout, WorkerSteps
    <3>5. CASE VerifyLock(w)      BY <3>5 DEF VerifyLock, WorkerSteps
    <3>6. CASE ListBatches(w)     BY <3>6 DEF ListBatches, WorkerSteps
    <3>7. CASE Connect(w)         BY <3>7 DEF Connect, WorkerSteps
    <3>8. CASE SendCommands(w)
      <4>1. PICK b \in Batches, o \in Outcomes :
              /\ applied' = Append(applied, [batch |-> b, outcome |-> o])
              /\ outcome' = [outcome EXCEPT ![w] = o]
        BY <3>8 DEF SendCommands
      <4>2. [batch |-> b, outcome |-> o] \in Execution
        BY DEF Execution
      <4>3. applied' \in Seq(Execution)
        BY <4>1, <4>2
      <4>4. outcome' \in [Batches -> Outcomes]
        BY <4>1
      <4>5. QED  BY <3>8, <4>3, <4>4 DEF SendCommands, WorkerSteps
    <3>9. CASE RefreshLock(w)     BY <3>9 DEF RefreshLock, WorkerSteps
    <3>10. CASE RecordResult(w)
      <4>1. PICK b \in Batches :
              /\ output' = [output EXCEPT ![b] = outcome[w]]
              /\ event' = [event EXCEPT ![b] = IF @ = "none" THEN "put" ELSE @]
              /\ input' = input \ {b}
              /\ todo' = [todo EXCEPT ![w] = @ \ {b}]
              /\ WorkerGoto(w, IF todo[w] = {b} THEN "save" ELSE "send")
        BY <3>10 DEF RecordResult
      <4>2. output' \in [Batches -> {"none"} \cup Outcomes]
        BY <4>1
      <4>3. event' \in [Batches -> {"none", "put", "delete"}]
        BY <4>1
      <4>4. worker' \in [Batches -> WorkerSteps]
        BY <4>1 DEF WorkerSteps
      <4>5. QED  BY <3>10, <4>1, <4>2, <4>3, <4>4 DEF RecordResult
    <3>11. CASE SaveConfiguration(w)
      BY <3>11 DEF SaveConfiguration, WorkerSteps
    <3>12. CASE ReleaseLock(w)    BY <3>12 DEF ReleaseLock, WorkerSteps
    <3>13. QED
      BY <2>3, <3>1, <3>2, <3>3, <3>4, <3>5, <3>6, <3>7, <3>8, <3>9, <3>10,
         <3>11, <3>12 DEF WorkerStep
  <2>4. ASSUME NEW b \in Batches, Crash(b) PROVE TypeOK'
    BY <2>4 DEF Crash, ClientSteps, WorkerSteps
  <2>5. CASE ExpireLock
    BY <2>5 DEF ExpireLock
  <2>6. ASSUME NEW b \in Batches, ExpireInput(b) PROVE TypeOK'
    BY <2>6 DEF ExpireInput
  <2>7. ASSUME NEW b \in Batches, ExpireOutput(b) PROVE TypeOK'
    BY <2>7 DEF ExpireOutput
  <2>8. CASE Finished \/ UNCHANGED vars
    BY <2>8 DEF Finished, vars
  <2>9. QED
    BY <2>1, <2>2, <2>3, <2>4, <2>5, <2>6, <2>7, <2>8 DEF Next, LeaseStep
<1>3. QED  BY <1>1, <1>2, PTL DEF Spec

-----------------------------------------------------------------------------
(* Frames: what callers, workers and leases leave alone.                   *)

\* A caller changes nothing but its own state and what it takes from etcd.
LEMMA ClientFrame ==
  ASSUME NEW b \in Batches, ClientStep(b)
  PROVE  UNCHANGED <<etcdVars, lock, workerVars, applied>>
  BY DEF ClientStep, StartWatch, DeadlinePasses, WatchEvent, PollResult,
         FetchResult, LastAttempt

\* A worker leaves callers, revisions and the other workers alone.
LEMMA WorkerFrame ==
  ASSUME TypeOK, NEW w \in Batches, WorkerStep(w)
  PROVE  /\ UNCHANGED <<revision, createRev, clientVars>>
         /\ \A v \in Batches \ {w} : /\ worker'[v] = worker[v]
                                     /\ todo'[v] = todo[v]
                                     /\ outcome'[v] = outcome[v]
<1> USE DEF TypeOK
<1>1. CASE CheckPending(w)    BY <1>1 DEF CheckPending
<1>2. CASE TryLock(w)         BY <1>2 DEF TryLock
<1>3. CASE RetryLock(w)       BY <1>3 DEF RetryLock
<1>4. CASE AcquireTimeout(w)  BY <1>4 DEF AcquireTimeout
<1>5. CASE VerifyLock(w)      BY <1>5 DEF VerifyLock
<1>6. CASE ListBatches(w)     BY <1>6 DEF ListBatches
<1>7. CASE Connect(w)         BY <1>7 DEF Connect
<1>8. CASE SendCommands(w)    BY <1>8 DEF SendCommands
<1>9. CASE RefreshLock(w)     BY <1>9 DEF RefreshLock
<1>10. CASE RecordResult(w)   BY <1>10 DEF RecordResult
<1>11. CASE SaveConfiguration(w)  BY <1>11 DEF SaveConfiguration
<1>12. CASE ReleaseLock(w)    BY <1>12 DEF ReleaseLock
<1>13. QED
  BY <1>1, <1>2, <1>3, <1>4, <1>5, <1>6, <1>7, <1>8, <1>9, <1>10, <1>11,
     <1>12 DEF WorkerStep

\* A lease only takes keys and the lock away.
LEMMA LeaseFrame ==
  ASSUME TypeOK, LeaseStep
  PROVE  /\ UNCHANGED <<revision, createRev, clientVars, workerVars, applied>>
         /\ input' \subseteq input
         /\ lock' = lock \/ (ExpireLock /\ lock' = NoBatch)
  BY DEF LeaseStep, ExpireLock, ExpireInput, ExpireOutput, TypeOK

-----------------------------------------------------------------------------
(* The execute lock.                                                       *)

\* A worker between acquire and release owns the lock.
Owned == \A w \in Batches : worker[w] \in Critical => lock = w

\* With steps shorter than the lease, no worker loses the lock under work.
LEMMA OwnedInvariant ==
  ASSUME LockExpiresAt = {}
  PROVE  Spec => []Owned
<1>1. Init => Owned
  BY DEF Init, Owned, Critical
<1>2. TypeOK /\ Owned /\ [Next]_vars => Owned'
  <2> SUFFICES ASSUME TypeOK, Owned, [Next]_vars,
                      NEW v \in Batches, worker'[v] \in Critical
               PROVE  lock' = v
    BY DEF Owned
  <2>1. ASSUME NEW b \in Batches, AddBatch(b) PROVE lock' = v
    BY <2>1 DEF AddBatch, Owned, TypeOK, Critical
  <2>2. ASSUME NEW b \in Batches, ClientStep(b) PROVE lock' = v
    BY <2>2, ClientFrame DEF Owned
  <2>3. ASSUME NEW w \in Batches, WorkerStep(w) PROVE lock' = v
    <3> USE DEF TypeOK
    <3>1. CASE CheckPending(w)
      BY <3>1 DEF CheckPending, Owned, Critical
    <3>2. CASE TryLock(w)
      BY <3>2, BatchesAssumption DEF TryLock, Owned, Critical
    <3>3. CASE RetryLock(w)
      BY <3>3 DEF RetryLock, Owned, Critical
    <3>4. CASE AcquireTimeout(w)
      BY <3>4 DEF AcquireTimeout, Owned, Critical
    <3>5. CASE VerifyLock(w)
      BY <3>5 DEF VerifyLock, Owned, Critical
    <3>6. CASE ListBatches(w)
      BY <3>6 DEF ListBatches, Owned, Critical
    <3>7. CASE Connect(w)
      BY <3>7 DEF Connect, Owned, Critical
    <3>8. CASE SendCommands(w)
      BY <3>8 DEF SendCommands, Owned, Critical
    <3>9. CASE RefreshLock(w)
      BY <3>9 DEF RefreshLock, Owned, Critical
    <3>10. CASE RecordResult(w)
      BY <3>10 DEF RecordResult, Owned, Critical
    <3>11. CASE SaveConfiguration(w)
      BY <3>11 DEF SaveConfiguration, Owned, Critical
    <3>12. CASE ReleaseLock(w)
      BY <3>12 DEF ReleaseLock, Owned, Critical
    <3>13. QED
      BY <2>3, <3>1, <3>2, <3>3, <3>4, <3>5, <3>6, <3>7, <3>8, <3>9, <3>10,
         <3>11, <3>12 DEF WorkerStep
  <2>4. ASSUME NEW b \in Batches, Crash(b) PROVE lock' = v
    BY <2>4 DEF Crash, Owned, TypeOK, Critical
  <2>5. CASE LeaseStep
    <3>1. worker[v] \in Critical /\ lock = v
      BY <2>5, LeaseFrame DEF Owned
    <3>2. ~ExpireLock
      BY <3>1 DEF ExpireLock, WorkerGone, Critical
    <3>3. QED  BY <2>5, <3>1, <3>2, LeaseFrame
  <2>6. CASE Finished \/ UNCHANGED vars
    BY <2>6 DEF Finished, vars, Owned
  <2>7. QED  BY <2>1, <2>2, <2>3, <2>4, <2>5, <2>6 DEF Next
<1>3. QED  BY <1>1, <1>2, TypeCorrect, PTL DEF Spec

\* When no step outlasts lock_ttl, two workers never have a session with the
\* switch at once, whatever crashes, refusals and timeouts happen.
THEOREM SessionsAreSerial ==
  ASSUME LockExpiresAt = {}
  PROVE  Spec => []SerialSessions
<1>1. Owned => SerialSessions
  BY DEF Owned, SerialSessions, Critical, InSession
<1>2. QED  BY <1>1, OwnedInvariant, PTL

-----------------------------------------------------------------------------
(* Recording.  Below, only the record transaction itself is taken to be    *)
(* shorter than the lease: the lock may be lost in every other step.       *)

\* A worker that is about to record a result owns the lock.
RecordOwned == \A w \in Batches : worker[w] = "record" => lock = w

\* RefreshLock establishes it, whatever happened before.
LEMMA RecordOwnedInvariant ==
  ASSUME "record" \notin LockExpiresAt
  PROVE  Spec => []RecordOwned
<1>1. Init => RecordOwned
  BY DEF Init, RecordOwned
<1>2. TypeOK /\ RecordOwned /\ [Next]_vars => RecordOwned'
  <2> SUFFICES ASSUME TypeOK, RecordOwned, [Next]_vars,
                      NEW v \in Batches, worker'[v] = "record"
               PROVE  lock' = v
    BY DEF RecordOwned
  <2>1. ASSUME NEW b \in Batches, AddBatch(b) PROVE lock' = v
    BY <2>1 DEF AddBatch, RecordOwned, TypeOK
  <2>2. ASSUME NEW b \in Batches, ClientStep(b) PROVE lock' = v
    BY <2>2, ClientFrame DEF RecordOwned
  <2>3. ASSUME NEW w \in Batches, WorkerStep(w) PROVE lock' = v
    <3> USE DEF TypeOK, RecordOwned
    <3>1. CASE CheckPending(w)    BY <3>1 DEF CheckPending
    <3>2. CASE TryLock(w)
      BY <3>2, BatchesAssumption DEF TryLock
    <3>3. CASE RetryLock(w)       BY <3>3 DEF RetryLock
    <3>4. CASE AcquireTimeout(w)  BY <3>4 DEF AcquireTimeout
    <3>5. CASE VerifyLock(w)      BY <3>5 DEF VerifyLock
    <3>6. CASE ListBatches(w)     BY <3>6 DEF ListBatches
    <3>7. CASE Connect(w)         BY <3>7 DEF Connect
    <3>8. CASE SendCommands(w)    BY <3>8 DEF SendCommands
    <3>9. CASE RefreshLock(w)     BY <3>9 DEF RefreshLock
    <3>10. CASE RecordResult(w)   BY <3>10 DEF RecordResult
    <3>11. CASE SaveConfiguration(w)  BY <3>11 DEF SaveConfiguration
    <3>12. CASE ReleaseLock(w)    BY <3>12 DEF ReleaseLock
    <3>13. QED
      BY <2>3, <3>1, <3>2, <3>3, <3>4, <3>5, <3>6, <3>7, <3>8, <3>9, <3>10,
         <3>11, <3>12 DEF WorkerStep
  <2>4. ASSUME NEW b \in Batches, Crash(b) PROVE lock' = v
    BY <2>4 DEF Crash, RecordOwned, TypeOK
  <2>5. CASE LeaseStep
    <3>1. worker[v] = "record" /\ lock = v
      BY <2>5, LeaseFrame DEF RecordOwned
    <3>2. ~ExpireLock
      BY <3>1 DEF ExpireLock, WorkerGone
    <3>3. QED  BY <2>5, <3>1, <3>2, LeaseFrame
  <2>6. CASE Finished \/ UNCHANGED vars
    BY <2>6 DEF Finished, vars, RecordOwned
  <2>7. QED  BY <2>1, <2>2, <2>3, <2>4, <2>5, <2>6 DEF Next
<1>3. QED  BY <1>1, <1>2, TypeCorrect, PTL DEF Spec

\* record_result is the only writer of result keys.
LEMMA OnlyRecordWrites ==
  ASSUME TypeOK, [Next]_vars, NEW b \in Batches,
         output'[b] \notin {output[b], "none"}
  PROVE  \E w \in Batches : RecordResult(w) /\ b \in todo[w]
<1> DEFINE Written == \E w \in Batches : RecordResult(w) /\ b \in todo[w]
<1>1. ASSUME NEW c \in Batches, AddBatch(c) \/ Crash(c) PROVE Written
  BY <1>1 DEF AddBatch, Crash
<1>2. ASSUME NEW c \in Batches, ClientStep(c) PROVE Written
  <2>1. output' = output \/ output' = [output EXCEPT ![c] = "none"]
    BY <1>2 DEF ClientStep, StartWatch, DeadlinePasses, WatchEvent, PollResult,
                FetchResult, LastAttempt, GetAndDeleteResult, NoResult
  <2>2. QED  BY <2>1 DEF TypeOK
<1>3. ASSUME NEW w \in Batches, WorkerStep(w) PROVE Written
  <2>1. CASE RecordResult(w)
    <3>1. PICK c \in Batches :
            IsOldest(c, todo[w]) /\ output' = [output EXCEPT ![c] = outcome[w]]
      BY <2>1 DEF RecordResult
    <3>2. c = b
      BY <3>1 DEF TypeOK
    <3>3. QED  BY <2>1, <3>1, <3>2 DEF IsOldest
  <2>2. CASE ~RecordResult(w)
    BY <1>3, <2>2 DEF WorkerStep, CheckPending, TryLock, RetryLock,
         AcquireTimeout, VerifyLock, ListBatches, Connect, SendCommands,
         RefreshLock, SaveConfiguration, ReleaseLock
  <2>3. QED  BY <2>1, <2>2
<1>4. CASE LeaseStep
  BY <1>4 DEF LeaseStep, ExpireLock, ExpireInput, ExpireOutput, TypeOK
<1>5. CASE Finished \/ UNCHANGED vars
  BY <1>5 DEF Finished, vars
<1>6. QED  BY <1>1, <1>2, <1>3, <1>4, <1>5 DEF Next

\* Every result is recorded by the owner of the lock.
THEOREM ResultsAreRecordedUnderLock ==
  ASSUME "record" \notin LockExpiresAt
  PROVE  Spec => RecordsUnderLock
<1>1. TypeOK /\ RecordOwned /\ [Next]_vars =>
        [\A b \in Batches :
           output'[b] \notin {output[b], "none"} =>
             \E w \in Batches : lock = w /\ worker[w] = "record"]_vars
  BY OnlyRecordWrites DEF RecordOwned, RecordResult
<1>2. QED
  BY <1>1, TypeCorrect, RecordOwnedInvariant, PTL DEF Spec, RecordsUnderLock

\* The owner of the lock has nothing on its list that another worker could
\* have recorded: what left the queue since has no caller any more.
ListCurrent ==
  \A w \in Batches :
    lock = w /\ worker[w] \in {"connect", "send", "refresh", "record"} =>
      \A b \in todo[w] : b \in input \/ ClientGone(b)

\* A caller that has ended stays so.
LEMMA GoneIsForGood ==
  ASSUME TypeOK, [Next]_vars, NEW b \in Batches, ClientGone(b)
  PROVE  ClientGone(b)'
<1> USE DEF ClientGone, TypeOK
<1>1. ASSUME NEW c \in Batches, AddBatch(c) PROVE ClientGone(b)'
  BY <1>1 DEF AddBatch
<1>2. ASSUME NEW c \in Batches, ClientStep(c) PROVE ClientGone(b)'
  <2>1. b # c /\ client'[b] = client[b]
    BY <1>2 DEF ClientStep, StartWatch, DeadlinePasses, WatchEvent, PollResult,
                FetchResult, LastAttempt, GetAndDeleteResult, NoResult
  <2>2. QED  BY <2>1
<1>3. ASSUME NEW w \in Batches, WorkerStep(w) PROVE ClientGone(b)'
  BY <1>3, WorkerFrame
<1>4. ASSUME NEW c \in Batches, Crash(c) PROVE ClientGone(b)'
  BY <1>4 DEF Crash
<1>5. CASE LeaseStep
  BY <1>5, LeaseFrame
<1>6. CASE Finished \/ UNCHANGED vars
  BY <1>6 DEF Finished, vars
<1>7. QED  BY <1>1, <1>2, <1>3, <1>4, <1>5, <1>6 DEF Next

\* Nobody but the owner of the lock takes batches out of the queue.
LEMMA ListCurrentInvariant ==
  ASSUME "record" \notin LockExpiresAt, "slowClient" \notin Faults
  PROVE  Spec => []ListCurrent
<1>1. Init => ListCurrent
  BY DEF Init, ListCurrent
<1>2. TypeOK /\ TypeOK' /\ RecordOwned /\ ListCurrent /\ [Next]_vars =>
        ListCurrent'
  <2> SUFFICES ASSUME TypeOK, TypeOK', RecordOwned, ListCurrent, [Next]_vars,
                      NEW v \in Batches, lock' = v,
                      worker'[v] \in {"connect", "send", "refresh", "record"},
                      NEW t \in Batches, t \in todo'[v]
               PROVE  t \in input' \/ ClientGone(t)'
    BY DEF ListCurrent, TypeOK
  <2> DEFINE Current == t \in input' \/ ClientGone(t)'
  <2>1. ASSUME lock = v, t \in todo[v], t \in input \/ t \notin input',
               worker[v] \in {"connect", "send", "refresh", "record"},
               input \subseteq input'
        PROVE  Current
    BY <2>1, GoneIsForGood DEF ListCurrent
  <2>2. ASSUME NEW b \in Batches, AddBatch(b) PROVE Current
    <3>1. b # v
      BY <2>2 DEF AddBatch, TypeOK
    <3>2. QED  BY <2>1, <2>2, <3>1 DEF AddBatch, TypeOK
  <2>3. ASSUME NEW b \in Batches, ClientStep(b) PROVE Current
    BY <2>1, <2>3, ClientFrame
  <2>4. ASSUME NEW w \in Batches, WorkerStep(w) PROVE Current
    <3>1. CASE RecordResult(w)
      <4>1. w = v
        BY <3>1 DEF RecordResult, RecordOwned
      <4>2. PICK b \in Batches : /\ input' = input \ {b}
                                 /\ todo' = [todo EXCEPT ![w] = @ \ {b}]
        BY <3>1 DEF RecordResult
      <4>3. todo \in [Batches -> SUBSET Batches]
        BY DEF TypeOK
      <4>4. todo'[v] = todo[v] \ {b}
        BY <4>1, <4>2, <4>3
      <4>5. worker[v] = "record" /\ lock = v
        BY <3>1, <4>1 DEF RecordResult
      <4>6. t \in todo[v] /\ t # b /\ worker[v] = "record" /\ lock = v
        BY <4>4, <4>5
      <4>7. t \in input \/ ClientGone(t)
        BY <4>6 DEF ListCurrent
      <4>8. QED  BY <4>2, <4>6, <4>7, GoneIsForGood
    <3>2. CASE ListBatches(w)
      <4>1. CASE w = v   BY <3>2, <4>1 DEF ListBatches, TypeOK
      <4>2. CASE w # v   BY <2>1, <3>2, <4>2 DEF ListBatches, TypeOK
      <4>3. QED  BY <4>1, <4>2
    <3>3. CASE CheckPending(w) \/ RetryLock(w) \/ AcquireTimeout(w)
      BY <2>1, <3>3 DEF CheckPending, RetryLock, AcquireTimeout, TypeOK
    <3>4. CASE TryLock(w) \/ VerifyLock(w)
      BY <2>1, <3>4, BatchesAssumption DEF TryLock, VerifyLock, TypeOK
    <3>5. CASE Connect(w) \/ SendCommands(w) \/ RefreshLock(w)
      BY <2>1, <3>5 DEF Connect, SendCommands, RefreshLock, TypeOK
    <3>6. CASE SaveConfiguration(w) \/ ReleaseLock(w)
      BY <2>1, <3>6, BatchesAssumption
         DEF SaveConfiguration, ReleaseLock, TypeOK
    <3>7. QED
      BY <2>4, <3>1, <3>2, <3>3, <3>4, <3>5, <3>6 DEF WorkerStep
  <2>5. ASSUME NEW b \in Batches, Crash(b) PROVE Current
    BY <2>1, <2>5 DEF Crash, TypeOK
  <2>6. CASE ExpireLock
    BY <2>6, BatchesAssumption DEF ExpireLock
  <2>7. ASSUME NEW b \in Batches, ExpireInput(b) PROVE Current
    <3>1. CASE b = t   BY <2>7, <3>1, GoneIsForGood DEF ExpireInput
    <3>2. CASE b # t
      BY <2>7, <3>2, GoneIsForGood DEF ExpireInput, ListCurrent
    <3>3. QED  BY <3>1, <3>2
  <2>8. ASSUME NEW b \in Batches, ExpireOutput(b) PROVE Current
    BY <2>1, <2>8 DEF ExpireOutput
  <2>9. CASE Finished \/ UNCHANGED vars
    BY <2>1, <2>9 DEF Finished, vars
  <2>10. QED
    BY <2>2, <2>3, <2>4, <2>5, <2>6, <2>7, <2>8, <2>9 DEF Next, LeaseStep
<1>3. QED
  BY <1>1, <1>2, TypeCorrect, RecordOwnedInvariant, PTL DEF Spec

\* A result is recorded once while its caller waits: a worker that lost the
\* lock, and whose batches another one has recorded, writes no result.
THEOREM ResultsAreRecordedOnce ==
  ASSUME "record" \notin LockExpiresAt, "slowClient" \notin Faults
  PROVE  Spec => RecordedOnce
<1>1. TypeOK /\ RecordOwned /\ ListCurrent /\ [Next]_vars =>
        [\A b \in Batches :
           output'[b] \notin {output[b], "none"} =>
             b \in input \/ ClientGone(b)]_vars
  BY OnlyRecordWrites DEF RecordOwned, ListCurrent, RecordResult
<1>2. QED
  BY <1>1, TypeCorrect, RecordOwnedInvariant, ListCurrentInvariant, PTL
     DEF Spec, RecordedOnce

-----------------------------------------------------------------------------
(* No request is lost.                                                     *)

\* The steps of a caller that still waits for its result.
Waiting == {"loop", "watch", "reloop", "fetch", "last"}

\* Whatever crashes, refusals, lost locks and timeouts happen, the batch of a
\* caller that still waits is queued or its result is there.
THEOREM NoRequestIsLost ==
  ASSUME "slowClient" \notin Faults
  PROVE  Spec => []NothingLost
<1>1. Init => NothingLost
  BY DEF Init, NothingLost
<1>2. TypeOK /\ NothingLost /\ [Next]_vars => NothingLost'
  <2> SUFFICES ASSUME TypeOK, NothingLost, [Next]_vars,
                      NEW c \in Batches, client'[c] \in Waiting
               PROVE  c \in input' \/ output'[c] # "none"
    BY DEF NothingLost, Waiting
  <2> DEFINE Kept == c \in input' \/ output'[c] # "none"
  <2>1. ASSUME client[c] \in Waiting, input \subseteq input',
               output'[c] = output[c]
        PROVE  Kept
    BY <2>1 DEF NothingLost, Waiting
  <2>2. ASSUME NEW b \in Batches, AddBatch(b) PROVE Kept
    BY <2>1, <2>2 DEF AddBatch, TypeOK
  <2>3. ASSUME NEW b \in Batches, ClientStep(b) PROVE Kept
    <3>1. CASE b = c
      BY <2>1, <2>3, <3>1
         DEF ClientStep, StartWatch, DeadlinePasses, WatchEvent, PollResult,
             FetchResult, LastAttempt, GetAndDeleteResult, NoResult, TypeOK,
             Waiting
    <3>2. CASE b # c
      <4>1. client'[c] = client[c] /\ output'[c] = output[c] /\ input' = input
        BY <2>3, <3>2
           DEF ClientStep, StartWatch, DeadlinePasses, WatchEvent, PollResult,
               FetchResult, LastAttempt, GetAndDeleteResult, NoResult, TypeOK
      <4>2. QED  BY <2>1, <4>1
    <3>3. QED  BY <3>1, <3>2
  <2>4. ASSUME NEW w \in Batches, WorkerStep(w) PROVE Kept
    <3>1. client' = client
      BY <2>4, WorkerFrame
    <3>2. CASE RecordResult(w)
      <4>1. PICK b \in Batches : /\ output' = [output EXCEPT ![b] = outcome[w]]
                                 /\ input' = input \ {b}
        BY <3>2 DEF RecordResult
      <4>2. outcome[w] # "none"
        BY DEF TypeOK, Outcomes
      <4>3. CASE b = c
        BY <4>1, <4>2, <4>3 DEF TypeOK
      <4>4. CASE b # c
        BY <3>1, <4>1, <4>4 DEF NothingLost, Waiting, TypeOK
      <4>5. QED  BY <4>3, <4>4
    <3>3. CASE ~RecordResult(w)
      <4>1. input' = input /\ output' = output
        BY <2>4, <3>3 DEF WorkerStep, CheckPending, TryLock, RetryLock,
           AcquireTimeout, VerifyLock, ListBatches, Connect, SendCommands,
           RefreshLock, SaveConfiguration, ReleaseLock
      <4>2. QED  BY <2>1, <3>1, <4>1
    <3>4. QED  BY <3>2, <3>3
  <2>5. ASSUME NEW b \in Batches, Crash(b) PROVE Kept
    BY <2>1, <2>5 DEF Crash, TypeOK, Waiting
  <2>6. CASE ExpireLock
    BY <2>1, <2>6 DEF ExpireLock
  <2>7. ASSUME NEW b \in Batches, ExpireInput(b) PROVE Kept
    <3>1. b # c
      BY <2>7 DEF ExpireInput, ClientGone, Waiting
    <3>2. QED  BY <2>7, <3>1 DEF ExpireInput, NothingLost, Waiting
  <2>8. ASSUME NEW b \in Batches, ExpireOutput(b) PROVE Kept
    <3>1. b # c
      BY <2>8 DEF ExpireOutput, ClientGone, Waiting
    <3>2. QED  BY <2>1, <2>8, <3>1 DEF ExpireOutput, TypeOK
  <2>9. CASE Finished \/ UNCHANGED vars
    BY <2>1, <2>9 DEF Finished, vars
  <2>10. QED
    BY <2>2, <2>3, <2>4, <2>5, <2>6, <2>7, <2>8, <2>9 DEF Next, LeaseStep
<1>3. QED  BY <1>1, <1>2, TypeCorrect, PTL DEF Spec

-----------------------------------------------------------------------------
(* The order of execution.                                                 *)

\* The steps of a worker that has a list of batches to send.
Executing == {"connect", "send", "refresh", "record"}

\* Nothing is known of a batch before add_batch, and revisions grow.
Fresh ==
  /\ \A b \in Batches : createRev[b] < revision
  /\ \A b \in Batches : client[b] = "idle" =>
       /\ b \notin input
       /\ \A w \in Batches : b \notin todo[w]
       /\ \A i \in DOMAIN applied : applied[i].batch # b

\* What was executed is at least as old as what is queued ...
QueueNewer ==
  \A i \in DOMAIN applied, b \in input :
    createRev[applied[i].batch] <= createRev[b]

\* ... and as what the executing worker has on its list, which in turn comes
\* before whatever was queued after the listing.
ListInOrder ==
  \A w \in Batches : worker[w] \in Executing =>
    \A t \in todo[w] :
      /\ \A i \in DOMAIN applied : createRev[applied[i].batch] <= createRev[t]
      /\ \A b \in input : b \in todo[w] \/ createRev[t] <= createRev[b]

\* The inductive invariant of FIFO.
Order == Fresh /\ FIFO /\ QueueNewer /\ ListInOrder

\* Steps that add nothing to the queue, the lists and the history.
LEMMA OrderKept ==
  ASSUME TypeOK, Order,
         UNCHANGED <<revision, createRev, applied>>,
         input' \subseteq input,
         \A w \in Batches : todo'[w] \subseteq todo[w],
         \A b \in Batches : client'[b] = "idle" => client[b] = "idle",
         \A w \in Batches : worker'[w] \in Executing =>
           worker[w] \in Executing /\ input' \cap todo[w] \subseteq todo'[w]
  PROVE  Order'
<1>1. Fresh'
  BY DEF Order, Fresh, TypeOK
<1>2. FIFO'
  BY DEF Order, FIFO
<1>3. QueueNewer'
  BY DEF Order, QueueNewer
<1>4. ListInOrder'
  <2> SUFFICES ASSUME NEW w \in Batches, worker'[w] \in Executing,
                      NEW t \in todo'[w]
               PROVE  /\ \A i \in DOMAIN applied :
                           createRev[applied[i].batch] <= createRev[t]
                      /\ \A b \in input' :
                           b \in todo'[w] \/ createRev[t] <= createRev[b]
    BY DEF ListInOrder
  <2>1. worker[w] \in Executing /\ t \in todo[w]
    OBVIOUS
  <2>2. \A i \in DOMAIN applied : createRev[applied[i].batch] <= createRev[t]
    BY <2>1 DEF Order, ListInOrder
  <2>3. \A b \in input : b \in todo[w] \/ createRev[t] <= createRev[b]
    BY <2>1 DEF Order, ListInOrder
  <2>4. QED  BY <2>2, <2>3
<1>5. QED  BY <1>1, <1>2, <1>3, <1>4 DEF Order

\* A new batch gets a revision above all others.
LEMMA OrderAdd ==
  ASSUME TypeOK, Order, NEW c \in Batches, AddBatch(c)
  PROVE  Order'
<1> USE DEF AddBatch, TypeOK
<1>1. /\ createRev'[c] = revision
      /\ \A b \in Batches : b # c => createRev'[b] = createRev[b]
      /\ \A b \in Batches : createRev[b] < revision
  BY DEF Order, Fresh
<1>2. /\ c \notin input
      /\ \A w \in Batches : c \notin todo[w]
      /\ \A i \in DOMAIN applied : applied[i].batch # c
  BY DEF Order, Fresh
<1>3. \A i \in DOMAIN applied :
        applied[i].batch \in Batches /\
        createRev'[applied[i].batch] = createRev[applied[i].batch]
  <2> SUFFICES ASSUME NEW i \in DOMAIN applied
               PROVE  applied[i].batch \in Batches /\ applied[i].batch # c
    BY <1>1
  <2>1. applied[i] \in Execution
    OBVIOUS
  <2>2. QED  BY <1>2, <2>1 DEF Execution
<1>4. Fresh'
  BY <1>1, <1>2 DEF Order, Fresh
<1>5. FIFO'
  BY <1>3 DEF Order, FIFO
<1>6. QueueNewer'
  <2>1. ASSUME NEW i \in DOMAIN applied, NEW b \in input'
        PROVE  createRev'[applied[i].batch] <= createRev'[b]
    <3>1. CASE b = c   BY <1>1, <1>3, <3>1
    <3>2. CASE b # c   BY <1>1, <1>3, <3>2 DEF Order, QueueNewer
    <3>3. QED  BY <3>1, <3>2
  <2>2. QED  BY <2>1 DEF QueueNewer
<1>7. ListInOrder'
  <2>1. ASSUME NEW w \in Batches, worker'[w] \in Executing, NEW t \in todo[w]
        PROVE  /\ \A i \in DOMAIN applied :
                    createRev'[applied[i].batch] <= createRev'[t]
               /\ \A b \in input' :
                    b \in todo[w] \/ createRev'[t] <= createRev'[b]
    <3>1. worker[w] \in Executing
      BY <2>1 DEF Executing
    <3>2. t \in Batches /\ createRev'[t] = createRev[t]
      BY <1>1, <1>2
    <3>3. \A i \in DOMAIN applied :
            createRev[applied[i].batch] <= createRev[t]
      BY <3>1 DEF Order, ListInOrder
    <3>4. \A b \in input : b \in todo[w] \/ createRev[t] <= createRev[b]
      BY <3>1 DEF Order, ListInOrder
    <3>5. ASSUME NEW b \in input'
          PROVE  b \in todo[w] \/ createRev'[t] <= createRev'[b]
      <4>1. CASE b = c   BY <1>1, <3>2, <4>1
      <4>2. CASE b # c   BY <1>1, <3>2, <3>4, <4>2
      <4>3. QED  BY <4>1, <4>2
    <3>6. QED  BY <1>3, <3>2, <3>3, <3>5
  <2>2. QED  BY <2>1 DEF ListInOrder
<1>8. QED  BY <1>4, <1>5, <1>6, <1>7 DEF Order

\* Listing under the lock: nobody else is executing.
LEMMA OrderList ==
  ASSUME TypeOK, Owned, Order, NEW w \in Batches, ListBatches(w)
  PROVE  Order'
<1> USE DEF ListBatches, TypeOK
<1>1. Fresh'
  BY DEF Order, Fresh
<1>2. FIFO' /\ QueueNewer'
  BY DEF Order, FIFO, QueueNewer
<1>3. ListInOrder'
  <2> SUFFICES ASSUME NEW v \in Batches, worker'[v] \in Executing
               PROVE  \A t \in todo'[v] :
                        /\ \A i \in DOMAIN applied :
                             createRev[applied[i].batch] <= createRev[t]
                        /\ \A b \in input :
                             b \in todo'[v] \/ createRev[t] <= createRev[b]
    BY DEF ListInOrder
  <2>1. lock = w
    BY DEF Owned, Critical
  <2>2. v = w
    <3>1. CASE v # w
      <4>1. worker[v] \in Critical
        BY <3>1 DEF Executing, Critical
      <4>2. QED  BY <2>1, <3>1, <4>1 DEF Owned
    <3>2. QED  BY <3>1
  <2>3. todo'[v] = input
    BY <2>2
  <2>4. QED  BY <2>3 DEF Order, QueueNewer
<1>4. QED  BY <1>1, <1>2, <1>3 DEF Order

\* Sending the oldest batch of the list.
LEMMA OrderSend ==
  ASSUME TypeOK, Owned, Order, NEW w \in Batches, SendCommands(w)
  PROVE  Order'
<1> DEFINE n == Len(applied)
<1>1. PICK b \in Batches, o \in Outcomes :
        /\ IsOldest(b, todo[w])
        /\ applied' = Append(applied, [batch |-> b, outcome |-> o])
  BY DEF SendCommands
<1>2. /\ UNCHANGED <<revision, createRev, input, client, lock, todo>>
      /\ worker[w] = "send"
      /\ worker' = [worker EXCEPT ![w] = "refresh"]
  BY DEF SendCommands
<1>3. /\ n \in Nat
      /\ DOMAIN applied = 1 .. n
      /\ DOMAIN applied' = 1 .. (n + 1)
      /\ applied'[n + 1] = [batch |-> b, outcome |-> o]
      /\ \A i \in 1 .. n : applied'[i] = applied[i]
  BY <1>1 DEF TypeOK
<1>4. applied'[n + 1].batch = b
  BY <1>3
<1>5. b \in todo[w] /\ \A t \in todo[w] : createRev[b] <= createRev[t]
  BY <1>1 DEF IsOldest
<1>6. /\ \A i \in 1 .. n : createRev[applied[i].batch] <= createRev[b]
      /\ \A c \in input : c \in todo[w] \/ createRev[b] <= createRev[c]
  BY <1>2, <1>3, <1>5 DEF Order, ListInOrder, Executing
<1>7. \A c \in input : createRev[b] <= createRev[c]
  BY <1>5, <1>6
<1>8. createRev \in [Batches -> Nat]
  BY DEF TypeOK
<1>9. Fresh'
  <2>1. client[b] # "idle"
    BY <1>5 DEF Order, Fresh
  <2>2. ASSUME NEW c \in Batches, client[c] = "idle", NEW i \in DOMAIN applied'
        PROVE  applied'[i].batch # c
    <3>1. CASE i = n + 1   BY <1>4, <2>1, <2>2, <3>1
    <3>2. CASE i \in 1 .. n
      BY <1>3, <2>2, <3>2 DEF Order, Fresh
    <3>3. QED  BY <1>3, <3>1, <3>2
  <2>3. QED  BY <1>2, <2>2 DEF Order, Fresh
<1>10. FIFO'
  <2> SUFFICES ASSUME NEW i \in 1 .. (n + 1), NEW j \in 1 .. (n + 1), i <= j
               PROVE  createRev[applied'[i].batch] <= createRev[applied'[j].batch]
    BY <1>2, <1>3 DEF FIFO
  <2>1. CASE j \in 1 .. n
    <3>1. i \in 1 .. n
      BY <1>3, <2>1
    <3>2. QED  BY <1>3, <2>1, <3>1 DEF Order, FIFO
  <2>2. CASE j = n + 1 /\ i \in 1 .. n
    BY <1>3, <1>4, <1>6, <2>2
  <2>3. CASE j = n + 1 /\ i = n + 1
    BY <1>4, <1>8, <2>3
  <2>4. QED  BY <1>3, <2>1, <2>2, <2>3
<1>11. QueueNewer'
  <2> SUFFICES ASSUME NEW i \in 1 .. (n + 1), NEW c \in input
               PROVE  createRev[applied'[i].batch] <= createRev[c]
    BY <1>2, <1>3 DEF QueueNewer
  <2>1. CASE i \in 1 .. n
    BY <1>3, <2>1 DEF Order, QueueNewer
  <2>2. CASE i = n + 1
    BY <1>4, <1>7, <2>2
  <2>3. QED  BY <1>3, <2>1, <2>2
<1>12. ListInOrder'
  <2> SUFFICES ASSUME NEW v \in Batches, worker'[v] \in Executing,
                      NEW t \in todo[v]
               PROVE  /\ \A i \in 1 .. (n + 1) :
                           createRev[applied'[i].batch] <= createRev[t]
                      /\ \A c \in input :
                           c \in todo[v] \/ createRev[t] <= createRev[c]
    BY <1>2, <1>3 DEF ListInOrder
  <2>1. v = w
    <3>1. lock = w
      BY <1>2 DEF Owned, Critical
    <3>2. CASE v # w
      <4>1. worker[v] \in Critical
        BY <1>2, <3>2 DEF Executing, Critical, TypeOK
      <4>2. QED  BY <3>1, <3>2, <4>1 DEF Owned
    <3>3. QED  BY <3>2
  <2>2. /\ \A i \in 1 .. n : createRev[applied[i].batch] <= createRev[t]
        /\ \A c \in input : c \in todo[v] \/ createRev[t] <= createRev[c]
    BY <1>2, <1>3, <2>1 DEF Order, ListInOrder, Executing
  <2>3. createRev[b] <= createRev[t]
    BY <1>5, <2>1
  <2>4. QED  BY <1>3, <1>4, <2>2, <2>3
<1>13. QED  BY <1>9, <1>10, <1>11, <1>12 DEF Order

\* It holds while no step under the lock outlasts the lease.
LEMMA OrderInvariant ==
  ASSUME LockExpiresAt = {}
  PROVE  Spec => []Order
<1>1. Init => Order
  BY DEF Init, Order, Fresh, FIFO, QueueNewer, ListInOrder, Executing
<1>2. TypeOK /\ Owned /\ Order /\ [Next]_vars => Order'
  <2> SUFFICES ASSUME TypeOK, Owned, Order, [Next]_vars PROVE Order'
    OBVIOUS
  <2>1. ASSUME NEW b \in Batches, AddBatch(b) PROVE Order'
    BY <2>1, OrderAdd
  <2>2. ASSUME NEW b \in Batches, ClientStep(b) PROVE Order'
    <3>1. \A c \in Batches : client'[c] = "idle" => client[c] = "idle"
      BY <2>2 DEF ClientStep, StartWatch, DeadlinePasses, WatchEvent,
         PollResult, FetchResult, LastAttempt, GetAndDeleteResult, NoResult,
         TypeOK
    <3>2. QED  BY <2>2, <3>1, ClientFrame, OrderKept
  <2>3. ASSUME NEW w \in Batches, WorkerStep(w) PROVE Order'
    <3>1. CASE ListBatches(w)   BY <3>1, OrderList
    <3>2. CASE SendCommands(w)  BY <3>2, OrderSend
    <3>3. CASE RecordResult(w)
      <4>1. PICK b \in Batches :
              /\ input' = input \ {b}
              /\ todo' = [todo EXCEPT ![w] = @ \ {b}]
              /\ WorkerGoto(w, IF todo[w] = {b} THEN "save" ELSE "send")
        BY <3>3 DEF RecordResult
      <4>2. lock = w /\ worker[w] = "record"
        BY <3>3 DEF RecordResult, Owned, Critical
      <4>3. \A v \in Batches : worker'[v] \in Executing =>
              worker[v] \in Executing /\ input' \cap todo[v] \subseteq todo'[v]
        BY <4>1, <4>2 DEF Executing, TypeOK
      <4>4. \A v \in Batches : todo'[v] \subseteq todo[v]
        BY <4>1 DEF TypeOK
      <4>5. UNCHANGED <<revision, createRev, applied, client>>
        BY <3>3 DEF RecordResult
      <4>6. QED  BY <4>1, <4>3, <4>4, <4>5, OrderKept
    <3>4. CASE ReleaseLock(w)
      <4>1. \A v \in Batches : worker'[v] \in Executing =>
              worker[v] \in Executing /\ todo'[v] = todo[v]
        BY <3>4 DEF ReleaseLock, Executing, TypeOK
      <4>2. \A v \in Batches : todo'[v] \subseteq todo[v]
        BY <3>4 DEF ReleaseLock, TypeOK
      <4>3. UNCHANGED <<revision, createRev, input, applied, client>>
        BY <3>4 DEF ReleaseLock
      <4>4. QED  BY <4>1, <4>2, <4>3, OrderKept
    <3>5. CASE ~(ListBatches(w) \/ SendCommands(w) \/ RecordResult(w)
                 \/ ReleaseLock(w))
      <4>1. UNCHANGED <<revision, createRev, input, applied, client, todo>>
        BY <2>3, <3>5 DEF WorkerStep, CheckPending, TryLock, RetryLock,
           AcquireTimeout, VerifyLock, Connect, RefreshLock, SaveConfiguration
      <4>2. \A v \in Batches :
              worker'[v] \in Executing => worker[v] \in Executing
        BY <2>3, <3>5 DEF WorkerStep, CheckPending, TryLock, RetryLock,
           AcquireTimeout, VerifyLock, Connect, RefreshLock, SaveConfiguration,
           Executing, TypeOK
      <4>3. QED  BY <4>1, <4>2, OrderKept
    <3>6. QED  BY <3>1, <3>2, <3>3, <3>4, <3>5
  <2>4. ASSUME NEW b \in Batches, Crash(b) PROVE Order'
    <3>1. \A v \in Batches : worker'[v] \in Executing =>
            worker[v] \in Executing /\ todo'[v] = todo[v]
      BY <2>4 DEF Crash, Executing, TypeOK
    <3>2. \A v \in Batches : todo'[v] \subseteq todo[v]
      BY <2>4 DEF Crash, TypeOK
    <3>3. \A c \in Batches : client'[c] = "idle" => client[c] = "idle"
      BY <2>4 DEF Crash, TypeOK
    <3>4. UNCHANGED <<revision, createRev, input, applied>>
      BY <2>4 DEF Crash
    <3>5. QED  BY <3>1, <3>2, <3>3, <3>4, OrderKept
  <2>5. CASE LeaseStep
    BY <2>5, LeaseFrame, OrderKept
  <2>6. CASE Finished \/ UNCHANGED vars
    BY <2>6, OrderKept DEF Finished, vars
  <2>7. QED  BY <2>1, <2>2, <2>3, <2>4, <2>5, <2>6 DEF Next
<1>3. QED  BY <1>1, <1>2, TypeCorrect, OwnedInvariant, PTL DEF Spec

\* When no step outlasts lock_ttl the queue is FIFO: the switch executes
\* batches in the order of their create revisions, repetitions included.
THEOREM ExecutionIsFIFO ==
  ASSUME LockExpiresAt = {}
  PROVE  Spec => []FIFO
<1>1. Order => FIFO
  BY DEF Order
<1>2. QED  BY <1>1, OrderInvariant, PTL

-----------------------------------------------------------------------------
(* Calls are told apart by the revision of their input key.                *)

\* Revisions tell batches apart.
Unique ==
  /\ \A b \in Batches : createRev[b] < revision
  /\ \A b \in Batches : client[b] = "idle" <=> createRev[b] = 0
  /\ \A b, c \in Batches : createRev[b] = createRev[c] /\ createRev[b] # 0 =>
                             b = c
  /\ \A b \in Batches : client[b] = "idle" =>
       b \notin input /\ output[b] = "none" /\ \A w \in Batches : b \notin todo[w]
  /\ \A b \in Batches : ~ClientGone(b) => answer[b] = "none"

\* A step that adds no call keeps it when it gives nobody but callers that
\* end an answer, and nothing to batches of calls not made yet.
LEMMA UniqueKept ==
  ASSUME TypeOK, Unique,
         UNCHANGED <<revision, createRev>>,
         \A b \in Batches : client'[b] = "idle" <=> client[b] = "idle",
         \A b \in Batches : client[b] = "idle" =>
           /\ b \notin input' /\ output'[b] = "none"
           /\ \A w \in Batches : b \notin todo'[w],
         \A b \in Batches : ~ClientGone(b)' => ~ClientGone(b) /\ answer'[b] = answer[b]
  PROVE  Unique'
  BY DEF Unique

\* A caller still waits when it takes a step, and that step changes only its
\* own answer and result.
LEMMA ClientKeeps ==
  ASSUME TypeOK, NEW b \in Batches, ClientStep(b)
  PROVE  /\ client[b] # "idle" /\ ~ClientGone(b) /\ client'[b] # "idle"
         /\ \A c \in Batches \ {b} : /\ client'[c] = client[c]
                                     /\ answer'[c] = answer[c]
                                     /\ output'[c] = output[c]
         /\ output' = output \/ output'[b] = "none"
         /\ ~ClientGone(b)' => answer'[b] = answer[b]
         /\ answer'[b] \in Outcomes => answer'[b] \in {answer[b], output[b]}
<1> USE DEF TypeOK, ClientGone, Outcomes
<1>1. CASE StartWatch(b)      BY <1>1 DEF StartWatch
<1>2. CASE DeadlinePasses(b)  BY <1>2 DEF DeadlinePasses
<1>3. CASE WatchEvent(b)      BY <1>3 DEF WatchEvent
<1>4. CASE PollResult(b)
  BY <1>4 DEF PollResult, GetAndDeleteResult, NoResult
<1>5. CASE FetchResult(b)
  BY <1>5 DEF FetchResult, GetAndDeleteResult, NoResult
<1>6. CASE LastAttempt(b)
  BY <1>6 DEF LastAttempt, GetAndDeleteResult, NoResult
<1>7. QED
  BY <1>1, <1>2, <1>3, <1>4, <1>5, <1>6 DEF ClientStep

\* etcd gives every new key a revision of its own.
LEMMA UniqueInvariant == Spec => []Unique
<1>1. Init => Unique
  BY DEF Init, Unique
<1>2. TypeOK /\ Unique /\ [Next]_vars => Unique'
  <2> SUFFICES ASSUME TypeOK, Unique, [Next]_vars PROVE Unique'
    OBVIOUS
  <2>1. ASSUME NEW b \in Batches, AddBatch(b) PROVE Unique'
    <3>1. /\ createRev' = [createRev EXCEPT ![b] = revision]
          /\ client' = [client EXCEPT ![b] = "loop"]
          /\ revision' = revision + 1 /\ input' = input \cup {b}
          /\ UNCHANGED <<todo, output, answer>>
      BY <2>1 DEF AddBatch
    <3>2. revision \in Nat \ {0} /\ createRev \in [Batches -> Nat]
          /\ client \in [Batches -> ClientSteps]
      BY DEF TypeOK
    <3>3. client[b] = "idle"
      BY <2>1 DEF AddBatch
    <3>4. \A c \in Batches : createRev'[c] < revision'
      BY <3>1, <3>2 DEF Unique
    <3>5. \A c \in Batches : client'[c] = "idle" <=> createRev'[c] = 0
      BY <3>1, <3>2 DEF Unique
    <3>6. \A c, d \in Batches :
            createRev'[c] = createRev'[d] /\ createRev'[c] # 0 => c = d
      <4> SUFFICES ASSUME NEW c \in Batches, NEW d \in Batches,
                          createRev'[c] = createRev'[d], createRev'[c] # 0
                   PROVE  c = d
        OBVIOUS
      <4>1. createRev[c] < revision /\ createRev[d] < revision
        BY DEF Unique
      <4>2. CASE c = b \/ d = b   BY <3>1, <3>2, <4>1, <4>2
      <4>3. CASE c # b /\ d # b   BY <3>1, <3>2, <4>3 DEF Unique
      <4>4. QED  BY <4>2, <4>3
    <3>7. \A c \in Batches : client'[c] = "idle" =>
            /\ c \notin input' /\ output'[c] = "none"
            /\ \A w \in Batches : c \notin todo'[w]
      BY <3>1, <3>2 DEF Unique
    <3>8. \A c \in Batches : ~ClientGone(c)' => answer'[c] = "none"
      BY <3>1, <3>2, <3>3 DEF Unique, ClientGone
    <3>9. QED  BY <3>4, <3>5, <3>6, <3>7, <3>8 DEF Unique
  <2>2. ASSUME NEW b \in Batches, ClientStep(b) PROVE Unique'
    <3>1. \A c \in Batches : client'[c] = "idle" <=> client[c] = "idle"
      BY <2>2, ClientKeeps
    <3>2. \A c \in Batches : client[c] = "idle" => output'[c] = "none"
      BY <2>2, ClientKeeps DEF Unique
    <3>3. \A c \in Batches :
            ~ClientGone(c)' => ~ClientGone(c) /\ answer'[c] = answer[c]
      BY <2>2, ClientKeeps DEF ClientGone
    <3>4. QED
      BY <2>2, <3>1, <3>2, <3>3, ClientFrame, UniqueKept DEF Unique
  <2>3. ASSUME NEW w \in Batches, WorkerStep(w) PROVE Unique'
    <3>1. UNCHANGED <<revision, createRev, client, answer>>
      BY <2>3, WorkerFrame
    <3>2. CASE RecordResult(w)
      <4>1. PICK b \in Batches : /\ IsOldest(b, todo[w])
                                 /\ output' = [output EXCEPT ![b] = outcome[w]]
                                 /\ input' = input \ {b}
                                 /\ todo' = [todo EXCEPT ![w] = @ \ {b}]
        BY <3>2 DEF RecordResult
      <4>2. client[b] # "idle"
        BY <4>1 DEF IsOldest, Unique
      <4>3. \A c \in Batches : client[c] = "idle" =>
              /\ c \notin input' /\ output'[c] = "none"
              /\ \A v \in Batches : c \notin todo'[v]
        BY <4>1, <4>2 DEF TypeOK, Unique
      <4>4. QED  BY <3>1, <4>3, UniqueKept DEF ClientGone
    <3>3. CASE ~RecordResult(w)
      <4>1. input' = input /\ output' = output
        BY <2>3, <3>3 DEF WorkerStep, CheckPending, TryLock, RetryLock,
           AcquireTimeout, VerifyLock, ListBatches, Connect, SendCommands,
           RefreshLock, SaveConfiguration, ReleaseLock
      <4>2. \A v \in Batches : todo'[v] \subseteq todo[v] \cup input
        BY <2>3, <3>3 DEF WorkerStep, CheckPending, TryLock, RetryLock,
           AcquireTimeout, VerifyLock, ListBatches, Connect, SendCommands,
           RefreshLock, SaveConfiguration, ReleaseLock, TypeOK
      <4>3. QED  BY <3>1, <4>1, <4>2, UniqueKept DEF Unique, ClientGone
    <3>4. QED  BY <3>2, <3>3
  <2>4. ASSUME NEW b \in Batches, Crash(b) PROVE Unique'
    <3>1. \A c \in Batches : client'[c] = "idle" <=> client[c] = "idle"
      BY <2>4 DEF Crash, TypeOK
    <3>2. /\ UNCHANGED <<revision, createRev, input, output, answer>>
          /\ \A v \in Batches : todo'[v] \subseteq todo[v]
      BY <2>4 DEF Crash, TypeOK
    <3>3. \A c \in Batches : ~ClientGone(c)' => ~ClientGone(c)
      BY <2>4 DEF Crash, ClientGone, TypeOK
    <3>4. QED  BY <3>1, <3>2, <3>3, UniqueKept DEF Unique
  <2>5. CASE LeaseStep
    <3>1. \A c \in Batches : output'[c] \in {output[c], "none"}
      BY <2>5 DEF LeaseStep, ExpireLock, ExpireInput, ExpireOutput, TypeOK
    <3>2. QED  BY <2>5, <3>1, LeaseFrame, UniqueKept DEF Unique, ClientGone
  <2>6. CASE Finished \/ UNCHANGED vars
    BY <2>6, UniqueKept DEF Finished, vars, Unique, ClientGone
  <2>7. QED  BY <2>1, <2>2, <2>3, <2>4, <2>5, <2>6 DEF Next
<1>3. QED  BY <1>1, <1>2, TypeCorrect, PTL DEF Spec

-----------------------------------------------------------------------------
(* Every answer is the outcome of an execution of the same batch.          *)

\* The switch has executed b with the outcome o.
Executed(b, o) ==
  \E i \in DOMAIN applied : applied[i] = [batch |-> b, outcome |-> o]

\* Outcomes travel from the switch to the worker, the result key and the
\* caller; the worker's outcome is the one of the oldest batch on its list.
Traced ==
  /\ \A w \in Batches : worker[w] \in {"refresh", "record"} =>
       \A b \in Batches : IsOldest(b, todo[w]) => Executed(b, outcome[w])
  /\ \A b \in Batches : output[b] # "none" => Executed(b, output[b])
  /\ OwnAnswer

\* What was executed stays so.
LEMMA ExecutedGrows ==
  ASSUME TypeOK, NEW e \in Execution, applied' = Append(applied, e)
  PROVE  /\ \A b \in Batches, o \in Outcomes : Executed(b, o) => Executed(b, o)'
         /\ \A b \in Batches, o \in Outcomes :
              e = [batch |-> b, outcome |-> o] => Executed(b, o)'
<1>1. /\ Len(applied) \in Nat
      /\ DOMAIN applied = 1 .. Len(applied)
      /\ DOMAIN applied' = 1 .. (Len(applied) + 1)
      /\ applied'[Len(applied) + 1] = e
      /\ \A i \in 1 .. Len(applied) : applied'[i] = applied[i]
  BY DEF TypeOK
<1>2. QED  BY <1>1 DEF Executed

\* Steps that execute, record and answer nothing.
LEMMA TracedKept ==
  ASSUME TypeOK, Traced,
         UNCHANGED <<createRev, applied, answer>>,
         \A b \in Batches : output'[b] \in {output[b], "none"},
         \A w \in Batches : worker'[w] \in {"refresh", "record"} =>
           /\ worker[w] \in {"refresh", "record"}
           /\ todo'[w] = todo[w] /\ outcome'[w] = outcome[w]
  PROVE  Traced'
  BY DEF Traced, OwnAnswer, Executed, IsOldest

\* Outcomes come from executions and reach the caller they are about.
LEMMA TracedInvariant == Spec => []Traced
<1>1. Init => Traced
  BY DEF Init, Traced, OwnAnswer, Outcomes
<1>2. TypeOK /\ TypeOK' /\ Unique /\ Traced /\ [Next]_vars => Traced'
  <2> SUFFICES ASSUME TypeOK, TypeOK', Unique, Traced, [Next]_vars
               PROVE  Traced'
    OBVIOUS
  <2>1. ASSUME NEW c \in Batches, AddBatch(c) PROVE Traced'
    <3>1. /\ UNCHANGED <<applied, answer, output, todo, outcome>>
          /\ createRev' = [createRev EXCEPT ![c] = revision]
          /\ worker' = [worker EXCEPT ![c] = "start"]
          /\ client[c] = "idle"
      BY <2>1 DEF AddBatch
    <3>2. ASSUME NEW w \in Batches, worker'[w] \in {"refresh", "record"},
                 NEW b \in Batches, IsOldest(b, todo[w])'
          PROVE  Executed(b, outcome[w])'
      <4>1. worker[w] \in {"refresh", "record"}
        BY <3>1, <3>2 DEF TypeOK
      <4>2. c \notin todo[w]
        BY <3>1 DEF Unique
      <4>3. \A d \in todo[w] : createRev'[d] = createRev[d]
        BY <3>1, <4>2 DEF TypeOK
      <4>4. IsOldest(b, todo[w])
        BY <3>1, <3>2, <4>3 DEF IsOldest
      <4>5. QED  BY <3>1, <4>1, <4>4 DEF Traced, Executed
    <3>3. QED  BY <3>1, <3>2 DEF Traced, OwnAnswer, Executed
  <2>2. ASSUME NEW b \in Batches, ClientStep(b) PROVE Traced'
    <3>1. UNCHANGED <<createRev, worker, todo, outcome, applied>>
      BY <2>2, ClientFrame
    <3>2. \A c \in Batches : output'[c] \in {output[c], "none"}
      BY <2>2, ClientKeeps
    <3>3. \A c \in Batches : answer'[c] \in Outcomes =>
            answer'[c] = answer[c] \/ answer'[c] = output[c]
      BY <2>2, ClientKeeps
    <3>4. OwnAnswer'
      BY <3>1, <3>3 DEF Traced, OwnAnswer, Executed, Outcomes
    <3>5. QED  BY <3>1, <3>2, <3>4 DEF Traced, Executed, IsOldest
  <2>3. ASSUME NEW w \in Batches, WorkerStep(w) PROVE Traced'
    <3>1. /\ UNCHANGED <<createRev, answer>>
          /\ \A v \in Batches \ {w} : /\ worker'[v] = worker[v]
                                      /\ todo'[v] = todo[v]
                                      /\ outcome'[v] = outcome[v]
      BY <2>3, WorkerFrame
    <3>2. CASE SendCommands(w)
      <4>1. PICK b \in Batches, o \in Outcomes :
              /\ IsOldest(b, todo[w])
              /\ applied' = Append(applied, [batch |-> b, outcome |-> o])
              /\ outcome' = [outcome EXCEPT ![w] = o]
        BY <3>2 DEF SendCommands
      <4>2. UNCHANGED <<todo, output>>
        BY <3>2 DEF SendCommands
      <4>3. [batch |-> b, outcome |-> o] \in Execution
        BY DEF Execution
      <4>4. /\ \A c \in Batches, p \in Outcomes :
                 Executed(c, p) => Executed(c, p)'
            /\ Executed(b, o)'
        BY <4>1, <4>3, ExecutedGrows
      <4>5. \A c \in Batches : IsOldest(c, todo[w]) => c = b
        <5>1. SUFFICES ASSUME NEW c \in Batches, IsOldest(c, todo[w])
                       PROVE  c = b
          OBVIOUS
        <5>2. createRev[b] = createRev[c]
          BY <4>1, <5>1 DEF IsOldest, TypeOK
        <5>3. createRev[b] # 0
          BY <4>1 DEF IsOldest, Unique
        <5>4. QED  BY <5>2, <5>3 DEF Unique
      <4>6. ASSUME NEW v \in Batches, worker'[v] \in {"refresh", "record"},
                   NEW c \in Batches, IsOldest(c, todo[v])
            PROVE  Executed(c, outcome[v])'
        <5>1. CASE v = w
          <6>1. outcome'[v] = o /\ c = b
            BY <4>1, <4>5, <4>6, <5>1 DEF TypeOK
          <6>2. QED  BY <4>4, <6>1 DEF Executed
        <5>2. CASE v # w
          <6>1. outcome'[v] = outcome[v] /\ outcome[v] \in Outcomes
            BY <3>1, <5>2 DEF TypeOK
          <6>2. Executed(c, outcome[v])
            BY <3>1, <4>6, <5>2 DEF Traced
          <6>3. QED  BY <4>4, <6>1, <6>2 DEF Executed
        <5>3. QED  BY <5>1, <5>2
      <4>7. \A v \in Batches : worker'[v] \in {"refresh", "record"} =>
              \A c \in Batches :
                IsOldest(c, todo[v])' => Executed(c, outcome[v])'
        BY <3>1, <4>2, <4>6 DEF IsOldest, Executed
      <4>8. \A c \in Batches : output'[c] # "none" => Executed(c, output[c])'
        BY <4>2, <4>4 DEF Traced, TypeOK, Executed
      <4>9. OwnAnswer'
        BY <3>1, <4>4 DEF Traced, OwnAnswer, Executed
      <4>10. QED  BY <4>7, <4>8, <4>9 DEF Traced
    <3>3. CASE RecordResult(w)
      <4>1. PICK b \in Batches :
              /\ IsOldest(b, todo[w])
              /\ output' = [output EXCEPT ![b] = outcome[w]]
              /\ WorkerGoto(w, IF todo[w] = {b} THEN "save" ELSE "send")
        BY <3>3 DEF RecordResult
      <4>2. UNCHANGED applied /\ worker[w] = "record"
        BY <3>3 DEF RecordResult
      <4>3. Executed(b, outcome[w])
        BY <4>1, <4>2 DEF Traced
      <4>4. \A c \in Batches : output'[c] # "none" => Executed(c, output[c])'
        BY <4>1, <4>2, <4>3 DEF Traced, Executed, TypeOK
      <4>5. worker'[w] \notin {"refresh", "record"}
        BY <4>1 DEF TypeOK
      <4>6. \A v \in Batches : worker'[v] \in {"refresh", "record"} =>
              \A c \in Batches :
                IsOldest(c, todo[v])' => Executed(c, outcome[v])'
        BY <3>1, <4>2, <4>5 DEF Traced, Executed, IsOldest
      <4>7. OwnAnswer'
        BY <3>1, <4>2 DEF Traced, OwnAnswer, Executed
      <4>8. QED  BY <4>4, <4>6, <4>7 DEF Traced
    <3>4. CASE RefreshLock(w)
      <4>1. /\ UNCHANGED <<applied, output, todo, outcome>>
            /\ \A v \in Batches : worker'[v] \in {"refresh", "record"} =>
                 worker[v] \in {"refresh", "record"}
        BY <3>4 DEF RefreshLock, TypeOK
      <4>2. QED  BY <3>1, <4>1, TracedKept
    <3>5. CASE ~(SendCommands(w) \/ RecordResult(w) \/ RefreshLock(w))
      <4>1. /\ UNCHANGED <<applied, output>>
            /\ worker'[w] \notin {"refresh", "record"}
        BY <2>3, <3>5 DEF WorkerStep, CheckPending, TryLock, RetryLock,
           AcquireTimeout, VerifyLock, ListBatches, Connect,
           SaveConfiguration, ReleaseLock, TypeOK
      <4>2. QED  BY <3>1, <4>1, TracedKept
    <3>6. QED  BY <3>2, <3>3, <3>4, <3>5
  <2>4. ASSUME NEW b \in Batches, Crash(b) PROVE Traced'
    <3>1. /\ UNCHANGED <<createRev, applied, answer, output, outcome>>
          /\ \A v \in Batches : worker'[v] \in {"refresh", "record"} =>
               worker'[v] = worker[v] /\ todo'[v] = todo[v]
      BY <2>4 DEF Crash, TypeOK
    <3>2. QED  BY <3>1, TracedKept
  <2>5. CASE LeaseStep
    <3>1. \A c \in Batches : output'[c] \in {output[c], "none"}
      BY <2>5 DEF LeaseStep, ExpireLock, ExpireInput, ExpireOutput, TypeOK
    <3>2. QED  BY <2>5, <3>1, LeaseFrame, TracedKept
  <2>6. CASE Finished \/ UNCHANGED vars
    BY <2>6, TracedKept DEF Finished, vars
  <2>7. QED  BY <2>1, <2>2, <2>3, <2>4, <2>5, <2>6 DEF Next
<1>3. QED  BY <1>1, <1>2, TypeCorrect, UniqueInvariant, PTL DEF Spec

\* Whatever faults happen and wherever the lock is lost, an answer is what
\* the switch made of the caller's own batch.
THEOREM AnswersAreOwn == Spec => []OwnAnswer
<1>1. Traced => OwnAnswer
  BY DEF Traced
<1>2. QED  BY <1>1, TracedInvariant, PTL

-----------------------------------------------------------------------------
(* BatchQueue implements RequestQueue when no step outlasts lock_ttl.      *)

\* The last execution of b had the outcome o.
LastExecution(b, o) ==
  \E i \in DOMAIN applied :
    /\ applied[i].batch = b /\ applied[i].outcome = o
    /\ \A j \in DOMAIN applied : applied[j].batch = b => j <= i

\* A batch with a result is on no list, hence is not executed again; so its
\* result stays the outcome of its last execution.
Settled(b) == output[b] # "none" \/ answer[b] \in Outcomes

\* The same of all batches, and of those about to be recorded.
Ledger ==
  /\ \A b \in Batches : Settled(b) =>
       /\ b \notin input
       /\ \A w \in Batches : worker[w] \in Executing => b \notin todo[w]
  /\ \A b \in Batches : output[b] # "none" => LastExecution(b, output[b])
  /\ \A w \in Batches : worker[w] \in {"refresh", "record"} =>
       \A b \in Batches : IsOldest(b, todo[w]) => LastExecution(b, outcome[w])

\* Steps that execute nothing, record nothing and list nothing.
LEMMA LedgerKept ==
  ASSUME TypeOK, Ledger,
         UNCHANGED <<createRev, applied>>, input' \subseteq input,
         \A b \in Batches : output'[b] \in {output[b], "none"},
         \A b \in Batches : Settled(b)' => Settled(b),
         \A w \in Batches : worker'[w] \in Executing =>
           worker[w] \in Executing /\ todo'[w] = todo[w],
         \A w \in Batches : worker'[w] \in {"refresh", "record"} =>
           /\ worker[w] \in {"refresh", "record"}
           /\ todo'[w] = todo[w] /\ outcome'[w] = outcome[w]
  PROVE  Ledger'
<1>1. \A b \in Batches : Settled(b)' =>
        /\ b \notin input'
        /\ \A w \in Batches : worker'[w] \in Executing => b \notin todo'[w]
  BY DEF Ledger
<1>2. \A b \in Batches : output'[b] # "none" => LastExecution(b, output[b])'
  BY DEF Ledger, LastExecution
<1>3. \A w \in Batches : worker'[w] \in {"refresh", "record"} =>
        \A b \in Batches : IsOldest(b, todo[w])' => LastExecution(b, outcome[w])'
  BY DEF Ledger, LastExecution, IsOldest
<1>4. QED  BY <1>1, <1>2, <1>3 DEF Ledger

\* Only the owner of the lock executes.
LEMMA OneExecutes ==
  ASSUME Owned, NEW v \in Batches, NEW w \in Batches,
         worker[v] \in Critical, worker[w] \in Critical
  PROVE  v = w
  BY DEF Owned

\* An execution is the last one of its batch and changes no other's.
LEMMA LastExecutionGrows ==
  ASSUME TypeOK, NEW b \in Batches, NEW o \in Outcomes,
         applied' = Append(applied, [batch |-> b, outcome |-> o])
  PROVE  /\ LastExecution(b, o)'
         /\ \A c \in Batches, p \in Outcomes :
              c # b /\ LastExecution(c, p) => LastExecution(c, p)'
<1> DEFINE n == Len(applied)
<1>1. /\ n \in Nat
      /\ DOMAIN applied = 1 .. n
      /\ DOMAIN applied' = 1 .. (n + 1)
      /\ applied'[n + 1] = [batch |-> b, outcome |-> o]
      /\ \A i \in 1 .. n : applied'[i] = applied[i]
  BY DEF TypeOK
<1>2. LastExecution(b, o)'
  <2>1. applied'[n + 1].batch = b /\ applied'[n + 1].outcome = o
    BY <1>1
  <2>2. n + 1 \in DOMAIN applied' /\ \A j \in DOMAIN applied' : j <= n + 1
    BY <1>1
  <2>3. QED  BY <2>1, <2>2 DEF LastExecution
<1>3. ASSUME NEW c \in Batches, NEW p \in Outcomes, c # b, LastExecution(c, p)
      PROVE  LastExecution(c, p)'
  <2>1. PICK i \in DOMAIN applied :
          /\ applied[i].batch = c /\ applied[i].outcome = p
          /\ \A j \in DOMAIN applied : applied[j].batch = c => j <= i
    BY <1>3 DEF LastExecution
  <2>2. i \in DOMAIN applied' /\ applied'[i] = applied[i]
    BY <1>1
  <2>3. applied'[n + 1].batch # c
    BY <1>1, <1>3
  <2>4. \A j \in DOMAIN applied' : applied'[j].batch = c => j <= i
    BY <1>1, <2>1, <2>3
  <2>5. QED  BY <2>1, <2>2, <2>4 DEF LastExecution
<1>4. QED  BY <1>2, <1>3

\* It holds while no step under the lock outlasts the lease.
LEMMA LedgerInvariant ==
  ASSUME LockExpiresAt = {}
  PROVE  Spec => []Ledger
<1>1. Init => Ledger
  BY DEF Init, Ledger, Settled, Outcomes
<1>2. TypeOK /\ Owned /\ Unique /\ Ledger /\ [Next]_vars => Ledger'
  <2> SUFFICES ASSUME TypeOK, Owned, Unique, Ledger, [Next]_vars
               PROVE  Ledger'
    OBVIOUS
  <2>1. ASSUME NEW c \in Batches, AddBatch(c) PROVE Ledger'
    <3>1. /\ UNCHANGED <<applied, answer, output, todo, outcome>>
          /\ createRev' = [createRev EXCEPT ![c] = revision]
          /\ worker' = [worker EXCEPT ![c] = "start"]
          /\ input' = input \cup {c}
          /\ client[c] = "idle"
      BY <2>1 DEF AddBatch
    <3>2. ~Settled(c)
      BY <3>1 DEF Unique, Settled, ClientGone, Outcomes
    <3>3. \A v \in Batches : c \notin todo[v]
      BY <3>1 DEF Unique
    <3>4. \A v \in Batches :
            worker'[v] \in Executing => worker[v] \in Executing
      BY <3>1 DEF TypeOK, Executing
    <3>5. \A b \in Batches : Settled(b)' =>
            /\ b \notin input'
            /\ \A w \in Batches : worker'[w] \in Executing => b \notin todo'[w]
      BY <3>1, <3>2, <3>4 DEF Ledger, Settled
    <3>6. \A b \in Batches : output'[b] # "none" => LastExecution(b, output[b])'
      BY <3>1 DEF Ledger, LastExecution
    <3>7. ASSUME NEW w \in Batches, worker'[w] \in {"refresh", "record"},
                 NEW b \in Batches, IsOldest(b, todo[w])'
          PROVE  LastExecution(b, outcome[w])'
      <4>1. worker[w] \in {"refresh", "record"}
        BY <3>1, <3>7 DEF TypeOK
      <4>2. \A d \in todo[w] : createRev'[d] = createRev[d]
        BY <3>1, <3>3 DEF TypeOK
      <4>3. IsOldest(b, todo[w])
        BY <3>1, <3>7, <4>2 DEF IsOldest
      <4>4. QED  BY <3>1, <4>1, <4>3 DEF Ledger, LastExecution
    <3>8. QED  BY <3>5, <3>6, <3>7 DEF Ledger
  <2>2. ASSUME NEW b \in Batches, ClientStep(b) PROVE Ledger'
    <3>1. \A c \in Batches : output'[c] \in {output[c], "none"}
      BY <2>2, ClientKeeps
    <3>2. \A c \in Batches : Settled(c)' => Settled(c)
      BY <2>2, <3>1, ClientKeeps DEF Settled, Outcomes
    <3>3. QED  BY <2>2, <3>1, <3>2, ClientFrame, LedgerKept
  <2>3. ASSUME NEW w \in Batches, WorkerStep(w) PROVE Ledger'
    <3>1. /\ UNCHANGED <<createRev, answer>>
          /\ \A v \in Batches \ {w} : /\ worker'[v] = worker[v]
                                      /\ todo'[v] = todo[v]
                                      /\ outcome'[v] = outcome[v]
      BY <2>3, WorkerFrame
    <3>2. CASE ListBatches(w)
      <4>1. /\ UNCHANGED <<applied, output, input>>
            /\ todo'[w] = input /\ worker[w] = "list"
            /\ worker'[w] \notin {"refresh", "record"}
        BY <3>2 DEF ListBatches, TypeOK
      <4>2. \A b \in Batches : Settled(b)' =>
              /\ b \notin input'
              /\ \A v \in Batches : worker'[v] \in Executing => b \notin todo'[v]
        BY <3>1, <4>1 DEF Ledger, Settled
      <4>3. \A b \in Batches : output'[b] # "none" => LastExecution(b, output[b])'
        BY <4>1 DEF Ledger, LastExecution
      <4>4. \A v \in Batches : worker'[v] \in {"refresh", "record"} =>
              \A b \in Batches :
                IsOldest(b, todo[v])' => LastExecution(b, outcome[v])'
        BY <3>1, <4>1 DEF Ledger, LastExecution, IsOldest
      <4>5. QED  BY <4>2, <4>3, <4>4 DEF Ledger
    <3>3. CASE SendCommands(w)
      <4>1. PICK b \in Batches, o \in Outcomes :
              /\ IsOldest(b, todo[w])
              /\ applied' = Append(applied, [batch |-> b, outcome |-> o])
              /\ outcome' = [outcome EXCEPT ![w] = o]
        BY <3>3 DEF SendCommands
      <4>2. /\ UNCHANGED <<todo, output, input>>
            /\ worker[w] = "send" /\ worker'[w] = "refresh"
        BY <3>3 DEF SendCommands, TypeOK
      <4>3. ~Settled(b)
        BY <4>1, <4>2 DEF Ledger, IsOldest, Executing
      <4>4. \A c \in Batches : IsOldest(c, todo[w]) => c = b
        <5>1. SUFFICES ASSUME NEW c \in Batches, IsOldest(c, todo[w])
                       PROVE  c = b
          OBVIOUS
        <5>2. createRev[b] = createRev[c]
          BY <4>1, <5>1 DEF IsOldest, TypeOK
        <5>3. createRev[b] # 0
          BY <4>1 DEF IsOldest, Unique
        <5>4. QED  BY <5>2, <5>3 DEF Unique
      <4>5. \A v \in Batches : worker'[v] \in {"refresh", "record"} => v = w
        <5>1. SUFFICES ASSUME NEW v \in Batches \ {w},
                              worker[v] \in {"refresh", "record"}
                       PROVE  FALSE
          BY <3>1
        <5>2. QED  BY <4>2, <5>1, OneExecutes DEF Critical
      <4>6. \A c \in Batches : Settled(c)' =>
              /\ c \notin input'
              /\ \A v \in Batches : worker'[v] \in Executing => c \notin todo'[v]
        BY <3>1, <4>2 DEF Ledger, Settled, Executing
      <4>7. \A c \in Batches : output'[c] # "none" => LastExecution(c, output[c])'
        <5>1. SUFFICES ASSUME NEW c \in Batches, output[c] # "none"
                       PROVE  LastExecution(c, output[c])'
          BY <4>2
        <5>2. c # b /\ output[c] \in Outcomes /\ LastExecution(c, output[c])
          BY <4>3, <5>1 DEF Settled, Ledger, TypeOK
        <5>3. QED  BY <4>1, <4>2, <5>2, LastExecutionGrows DEF LastExecution
      <4>8. outcome'[w] = o /\ LastExecution(b, o)'
        BY <4>1, LastExecutionGrows DEF TypeOK
      <4>9. \A v \in Batches : worker'[v] \in {"refresh", "record"} =>
              \A c \in Batches :
                IsOldest(c, todo[v])' => LastExecution(c, outcome[v])'
        BY <3>1, <4>2, <4>4, <4>5, <4>8 DEF IsOldest, LastExecution
      <4>10. QED  BY <4>6, <4>7, <4>9 DEF Ledger
    <3>4. CASE RecordResult(w)
      <4>1. PICK b \in Batches :
              /\ IsOldest(b, todo[w])
              /\ output' = [output EXCEPT ![b] = outcome[w]]
              /\ input' = input \ {b}
              /\ todo' = [todo EXCEPT ![w] = @ \ {b}]
              /\ WorkerGoto(w, IF todo[w] = {b} THEN "save" ELSE "send")
        BY <3>4 DEF RecordResult
      <4>2. UNCHANGED applied /\ worker[w] = "record"
        BY <3>4 DEF RecordResult
      <4>3. worker'[w] \notin {"refresh", "record"}
        BY <4>1 DEF TypeOK
      <4>4. \A v \in Batches : worker'[v] \in Executing => v = w
        <5>1. SUFFICES ASSUME NEW v \in Batches \ {w}, worker[v] \in Executing
                       PROVE  FALSE
          BY <3>1
        <5>2. QED  BY <4>2, <5>1, OneExecutes DEF Critical, Executing
      <4>5. \A c \in Batches : Settled(c)' =>
              /\ c \notin input'
              /\ \A v \in Batches : worker'[v] \in Executing => c \notin todo'[v]
        <5>1. SUFFICES ASSUME NEW c \in Batches, Settled(c)'
                       PROVE  c \notin input' /\ c \notin todo'[w]
          BY <4>4
        <5>2. CASE c = b
          BY <4>1, <5>2 DEF TypeOK
        <5>3. CASE c # b
          <6>1. Settled(c)
            BY <3>1, <4>1, <5>1, <5>3 DEF Settled, TypeOK
          <6>2. c \notin input /\ c \notin todo[w]
            BY <4>2, <6>1 DEF Ledger, Executing
          <6>3. QED  BY <4>1, <6>2 DEF TypeOK
        <5>4. QED  BY <5>2, <5>3
      <4>6. LastExecution(b, outcome[w])
        BY <4>1, <4>2 DEF Ledger
      <4>7. \A c \in Batches : output'[c] # "none" => LastExecution(c, output[c])'
        <5>1. SUFFICES ASSUME NEW c \in Batches, output'[c] # "none"
                       PROVE  LastExecution(c, output'[c])
          BY <4>2 DEF LastExecution
        <5>2. CASE c = b
          <6>1. output'[c] = outcome[w]
            BY <4>1, <5>2 DEF TypeOK
          <6>2. QED  BY <4>6, <5>2, <6>1
        <5>3. CASE c # b
          <6>1. output'[c] = output[c]
            BY <4>1, <5>3 DEF TypeOK
          <6>2. QED  BY <5>1, <6>1 DEF Ledger
        <5>4. QED  BY <5>2, <5>3
      <4>8. \A v \in Batches : worker'[v] \in {"refresh", "record"} =>
              \A c \in Batches :
                IsOldest(c, todo[v])' => LastExecution(c, outcome[v])'
        BY <4>3, <4>4 DEF Executing
      <4>9. QED  BY <4>5, <4>7, <4>8 DEF Ledger
    <3>5. CASE RefreshLock(w) \/ Connect(w)
      <4>1. /\ UNCHANGED <<applied, input, output, todo, outcome>>
            /\ \A v \in Batches :
                 worker'[v] \in Executing => worker[v] \in Executing
            /\ \A v \in Batches : worker'[v] \in {"refresh", "record"} =>
                 worker[v] \in {"refresh", "record"}
        BY <3>5 DEF RefreshLock, Connect, Executing, TypeOK
      <4>2. QED  BY <3>1, <4>1, LedgerKept DEF Settled
    <3>6. CASE ~(ListBatches(w) \/ SendCommands(w) \/ RecordResult(w)
                 \/ RefreshLock(w) \/ Connect(w))
      <4>1. /\ UNCHANGED <<applied, input, output>>
            /\ worker'[w] \notin Executing
        BY <2>3, <3>6 DEF WorkerStep, CheckPending, TryLock, RetryLock,
           AcquireTimeout, VerifyLock, SaveConfiguration, ReleaseLock,
           Executing, TypeOK
      <4>2. QED  BY <3>1, <4>1, LedgerKept DEF Settled, Executing
    <3>7. QED  BY <3>2, <3>3, <3>4, <3>5, <3>6
  <2>4. ASSUME NEW b \in Batches, Crash(b) PROVE Ledger'
    <3>1. /\ UNCHANGED <<createRev, applied, input, answer, output, outcome>>
          /\ \A v \in Batches :
               worker'[v] \in Executing \cup {"refresh", "record"} =>
                 worker'[v] = worker[v] /\ todo'[v] = todo[v]
      BY <2>4 DEF Crash, Executing, TypeOK
    <3>2. QED  BY <3>1, LedgerKept DEF Settled
  <2>5. CASE LeaseStep
    <3>1. \A c \in Batches : output'[c] \in {output[c], "none"}
      BY <2>5 DEF LeaseStep, ExpireLock, ExpireInput, ExpireOutput, TypeOK
    <3>2. QED  BY <2>5, <3>1, LeaseFrame, LedgerKept DEF Settled
  <2>6. CASE Finished \/ UNCHANGED vars
    BY <2>6, LedgerKept DEF Finished, vars, Settled
  <2>7. QED  BY <2>1, <2>2, <2>3, <2>4, <2>5, <2>6 DEF Next
<1>3. QED
  BY <1>1, <1>2, TypeCorrect, OwnedInvariant, UniqueInvariant, PTL DEF Spec

\* Steps that neither add, execute nor answer are stutters of RequestQueue.
LEMMA StepsRefine ==
  ASSUME TypeOK, Owned, Order, Unique, Ledger, [Next]_vars
  PROVE  [Promise!Next]_<<revision, createRev, applied, answer>>
<1> DEFINE Goal == [Promise!Next]_<<revision, createRev, applied, answer>>
<1>1. ASSUME NEW b \in Batches, AddBatch(b) PROVE Goal
  <2>1. createRev[b] = 0
    BY <1>1 DEF AddBatch, Unique
  <2>2. Promise!Submit(b)
    BY <1>1, <2>1 DEF AddBatch, Promise!Submit
  <2>3. QED  BY <2>2 DEF Promise!Next
<1>2. ASSUME NEW b \in Batches, ClientStep(b) PROVE Goal
  <2>1. UNCHANGED <<revision, createRev, applied>>
    BY <1>2, ClientFrame
  <2>2. answer[b] = "none" /\ createRev[b] # 0
    BY <1>2, ClientKeeps DEF Unique
  <2>3. \/ UNCHANGED answer
        \/ GetAndDeleteResult(b)
        \/ \E f \in Failures : answer' = [answer EXCEPT ![b] = f]
    BY <1>2 DEF ClientStep, StartWatch, DeadlinePasses, WatchEvent, PollResult,
         FetchResult, LastAttempt, Failures
  <2>4. CASE UNCHANGED answer
    BY <2>1, <2>4
  <2>5. CASE GetAndDeleteResult(b)
    <3>1. PICK i \in DOMAIN applied :
            /\ applied[i].batch = b /\ applied[i].outcome = output[b]
            /\ \A j \in DOMAIN applied : applied[j].batch = b => j <= i
      BY <2>5 DEF GetAndDeleteResult, Ledger, LastExecution
    <3>2. Promise!Answer(b)
      BY <2>1, <2>2, <2>5, <3>1
         DEF GetAndDeleteResult, Promise!Answer, Promise!IsLastExecution
    <3>3. QED  BY <3>2 DEF Promise!Next
  <2>6. CASE \E f \in Failures : answer' = [answer EXCEPT ![b] = f]
    <3>1. Promise!GiveUp(b)
      BY <2>1, <2>2, <2>6 DEF Promise!GiveUp
    <3>2. QED  BY <3>1 DEF Promise!Next
  <2>7. QED  BY <2>3, <2>4, <2>5, <2>6
<1>3. ASSUME NEW w \in Batches, WorkerStep(w) PROVE Goal
  <2>1. UNCHANGED <<revision, createRev, answer>>
    BY <1>3, WorkerFrame
  <2>2. CASE SendCommands(w)
    <3>1. PICK b \in Batches, o \in Outcomes :
            /\ IsOldest(b, todo[w])
            /\ applied' = Append(applied, [batch |-> b, outcome |-> o])
      BY <2>2 DEF SendCommands
    <3>2. worker[w] \in Executing /\ b \in todo[w]
      BY <2>2, <3>1 DEF SendCommands, Executing, IsOldest
    <3>3. createRev[b] # 0
      BY <3>2 DEF Unique
    <3>4. answer[b] \notin Outcomes
      BY <3>2 DEF Ledger, Settled
    <3>5. \A i \in DOMAIN applied : createRev[applied[i].batch] <= createRev[b]
      BY <3>2 DEF Order, ListInOrder
    <3>6. Promise!Execute(b)
      BY <2>1, <3>1, <3>3, <3>4, <3>5 DEF Promise!Execute
    <3>7. QED  BY <3>6 DEF Promise!Next
  <2>3. CASE ~SendCommands(w)
    <3>1. UNCHANGED applied
      BY <1>3, <2>3 DEF WorkerStep, CheckPending, TryLock, RetryLock,
         AcquireTimeout, VerifyLock, ListBatches, Connect, RecordResult,
         RefreshLock, SaveConfiguration, ReleaseLock
    <3>2. QED  BY <2>1, <3>1
  <2>4. QED  BY <2>2, <2>3
<1>4. ASSUME NEW b \in Batches, Crash(b) PROVE Goal
  BY <1>4 DEF Crash
<1>5. CASE LeaseStep
  BY <1>5, LeaseFrame
<1>6. CASE Finished \/ UNCHANGED vars
  BY <1>6 DEF Finished, vars
<1>7. QED  BY <1>1, <1>2, <1>3, <1>4, <1>5, <1>6 DEF Next

\* When no step outlasts lock_ttl, the queue with its workers, leases, watches
\* and crashes is a FIFO that executes each request until it is answered, and
\* answers with the outcome of the request's last execution.
THEOREM QueueImplementsPromise ==
  ASSUME LockExpiresAt = {}
  PROVE  Spec => KeepsPromise
<1>1. Init => Promise!Init
  BY DEF Init, Promise!Init
<1>2. TypeOK /\ Owned /\ Order /\ Unique /\ Ledger /\ [Next]_vars =>
        [Promise!Next]_<<revision, createRev, applied, answer>>
  BY StepsRefine
<1>3. QED
  BY <1>1, <1>2, TypeCorrect, OwnedInvariant, OrderInvariant, UniqueInvariant,
     LedgerInvariant, PTL
     DEF Spec, KeepsPromise, Promise!Spec, Promise!abstractVars
=============================================================================
