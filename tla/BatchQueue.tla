----------------------------- MODULE BatchQueue -----------------------------
(***************************************************************************)
(* The etcd queue of networking_generic_switch/batching.py for one switch. *)
(*                                                                         *)
(* A batch is one call of SwitchBatch.do_batch: its caller writes an input *)
(* key (SwitchQueue.add_batch), starts a worker thread of its own and      *)
(* waits for the result key (wait_for_result).  The worker takes the       *)
(* execute lock, sends EVERY batch that is queued, whoever added it, and   *)
(* replaces each input key by a result key (_execute_pending_batches,      *)
(* _send_commands, record_result).  Callers and workers of one switch run  *)
(* in different Neutron processes and share only etcd and the switch.      *)
(*                                                                         *)
(* One etcd transaction is one step.  Commands are abstracted to the batch *)
(* they belong to; what the switch ran is the history variable applied.    *)
(***************************************************************************)
EXTENDS Integers, Sequences, FiniteSets

CONSTANTS
  Batches,        \* the do_batch calls
  NoBatch,        \* the execute lock is free
  Faults,         \* what the environment may do, see FaultKinds
  LockExpiresAt   \* worker steps that may outlast lock_ttl (120 s)

FaultKinds == {"crash",           \* a Neutron process dies
               "connect",         \* the switch refuses the connection
               "missedWatch",     \* etcd does not deliver a watch event
               "clientTimeout",   \* 300 s pass in wait_for_result
               "acquireTimeout",  \* 300 s pass in acquire_worker_lock
               "slowClient"}      \* a caller sleeps longer than a 600 s lease

WorkerSteps == {"none", "start", "acquire", "pending", "verify", "list",
                "connect", "send", "refresh", "record", "save", "release",
                "done", "crashed"}

\* The steps a worker takes between lock.acquire() and lock.release().
Critical == {"verify", "list", "connect", "send", "refresh", "record",
             "save", "release"}

\* The part of them with a connection to the switch (_send_commands).
InSession == {"send", "refresh", "record", "save"}

ClientSteps == {"idle", "loop", "watch", "reloop", "fetch", "last", "done",
                "crashed"}

Outcomes == {"result", "error"}       \* keys of the recorded batch
Failures == {"timed out", "deleted"}  \* GenericSwitchBatchError of the wait
Answers  == {"none"} \cup Outcomes \cup Failures

ASSUME BatchesAssumption == NoBatch \notin Batches
ASSUME FaultsAssumption == Faults \subseteq FaultKinds
ASSUME ExpiryAssumption == LockExpiresAt \subseteq Critical

VARIABLES
  revision,   \* the revision etcd gives to the next created input key
  createRev,  \* create_revision of each batch's input key, 0 before it
  input,      \* batches whose input key exists
  output,     \* value of each result key, "none" when it does not exist
  event,      \* first event of the result key that the caller's watch covers
  lock,       \* whose execute lock exists: a batch (its worker) or NoBatch
  client,     \* program counter of do_batch / wait_for_result
  answer,     \* what do_batch returned or raised
  worker,     \* program counter of _execute_pending_batches
  todo,       \* batches the worker has fetched and not yet recorded
  outcome,    \* outcome of the batch the worker has just sent
  applied     \* history: what the switch executed, in order

etcdVars   == <<revision, createRev, input>>
clientVars == <<client, answer>>
workerVars == <<worker, todo, outcome>>
vars == <<revision, createRev, input, output, event, lock, client, answer,
          worker, todo, outcome, applied>>

Execution == [batch : Batches, outcome : Outcomes]

TypeOK ==
  /\ revision \in Nat \ {0}
  /\ createRev \in [Batches -> Nat]
  /\ input \subseteq Batches
  /\ output \in [Batches -> {"none"} \cup Outcomes]
  /\ event \in [Batches -> {"none", "put", "delete"}]
  /\ lock \in Batches \cup {NoBatch}
  /\ client \in [Batches -> ClientSteps]
  /\ answer \in [Batches -> Answers]
  /\ worker \in [Batches -> WorkerSteps]
  /\ todo \in [Batches -> SUBSET Batches]
  /\ outcome \in [Batches -> Outcomes]
  /\ applied \in Seq(Execution)

Init ==
  /\ revision = 1
  /\ createRev = [b \in Batches |-> 0]
  /\ input = {}
  /\ output = [b \in Batches |-> "none"]
  /\ event = [b \in Batches |-> "none"]
  /\ lock = NoBatch
  /\ client = [b \in Batches |-> "idle"]
  /\ answer = [b \in Batches |-> "none"]
  /\ worker = [b \in Batches |-> "none"]
  /\ todo = [b \in Batches |-> {}]
  /\ outcome = [b \in Batches |-> "result"]
  /\ applied = <<>>

-----------------------------------------------------------------------------
(* The caller: do_batch, add_batch and wait_for_result.                    *)

ClientGone(b) == client[b] \in {"done", "crashed"}

ClientGoto(b, step) == client' = [client EXCEPT ![b] = step]

\* add_batch creates the input key under a lease of 600 s; do_batch then
\* starts the worker thread, which first runs some time later.
AddBatch(b) ==
  /\ client[b] = "idle"
  /\ createRev' = [createRev EXCEPT ![b] = revision]
  /\ revision' = revision + 1
  /\ input' = input \cup {b}
  /\ worker' = [worker EXCEPT ![b] = "start"]
  /\ ClientGoto(b, "loop")
  /\ UNCHANGED <<output, event, lock, answer, todo, outcome, applied>>

\* watch_once: from create_revision at first, hence with past events; from
\* now on ("reloop": start_revision = None) after a watch that timed out.
StartWatch(b) ==
  /\ client[b] \in {"loop", "reloop"}
  /\ event' = IF client[b] = "loop" THEN event
              ELSE [event EXCEPT ![b] = "none"]
  /\ ClientGoto(b, "watch")
  /\ UNCHANGED <<etcdVars, output, lock, answer, workerVars, applied>>

\* The while condition fails: 300 s have passed.
DeadlinePasses(b) ==
  /\ "clientTimeout" \in Faults
  /\ client[b] \in {"loop", "reloop"}
  /\ ClientGoto(b, "last")
  /\ UNCHANGED <<etcdVars, output, event, lock, answer, workerVars, applied>>

\* Mutant: the event itself is returned.
ReturnEvent(b) ==
  /\ client[b] = "watch"
  /\ event[b] # "none"
  /\ ClientGoto(b, "done")
  /\ answer' = [answer EXCEPT ![b] = event[b]]
  /\ UNCHANGED <<etcdVars, output, event, lock, workerVars, applied>>

\* watch_once returns an event; a key of version 0 has been deleted.
WatchEvent(b) ==
  /\ client[b] = "watch"
  /\ \/ /\ event[b] = "put"
        /\ ClientGoto(b, "fetch")
        /\ UNCHANGED answer
     \/ /\ event[b] = "delete"
        /\ ClientGoto(b, "done")
        /\ answer' = [answer EXCEPT ![b] = "deleted"]
  /\ UNCHANGED <<etcdVars, output, event, lock, workerVars, applied>>

\* _get_and_delete_result is one transaction: the key's value is the answer.
GetAndDeleteResult(b) ==
  /\ output[b] # "none"
  /\ answer' = [answer EXCEPT ![b] = output[b]]
  /\ output' = [output EXCEPT ![b] = "none"]
  /\ ClientGoto(b, "done")

\* ... or None: the caller goes on at another step.
NoResult(b, step) ==
  /\ output[b] = "none"
  /\ ClientGoto(b, step)
  /\ UNCHANGED output

\* Mutant: a watch that timed out is started again without a look at the key.
WatchAgain(b) ==
  /\ client[b] = "watch"
  /\ event[b] = "none" \/ "missedWatch" \in Faults
  /\ ClientGoto(b, "reloop")
  /\ UNCHANGED <<etcdVars, output, answer, event, lock, workerVars, applied>>

\* watch_once raises WatchTimedOut: no event within 10 s, or one was missed.
PollResult(b) ==
  /\ client[b] = "watch"
  /\ event[b] = "none" \/ "missedWatch" \in Faults
  /\ \/ GetAndDeleteResult(b)
     \/ NoResult(b, "reloop") /\ UNCHANGED answer
  /\ UNCHANGED <<etcdVars, event, lock, workerVars, applied>>

FetchResult(b) ==
  /\ client[b] = "fetch"
  /\ \/ GetAndDeleteResult(b)
     \/ NoResult(b, "last") /\ UNCHANGED answer
  /\ UNCHANGED <<etcdVars, event, lock, workerVars, applied>>

\* The attempt after the loop; without a result the caller gives up and
\* leaves the input key in the queue.
LastAttempt(b) ==
  /\ client[b] = "last"
  /\ \/ GetAndDeleteResult(b)
     \/ /\ NoResult(b, "done")
        /\ answer' = [answer EXCEPT ![b] = "timed out"]
  /\ UNCHANGED <<etcdVars, event, lock, workerVars, applied>>

-----------------------------------------------------------------------------
(* The worker thread of batch w: _execute_pending_batches.                 *)

\* get_batches(item): what is queued up to and including the worker's batch.
Pending(w) == {b \in input : createRev[b] <= createRev[w]}

\* Mutant: sort_order is "descend".
IsNewest(b, S) == b \in S /\ \A c \in S : createRev[b] >= createRev[c]

\* Batches are executed in the order of their create revision.
IsOldest(b, S) == b \in S /\ \A c \in S : createRev[b] <= createRev[c]

WorkerGoto(w, step) == worker' = [worker EXCEPT ![w] = step]

CheckPending(w) ==
  /\ worker[w] = "start"
  /\ WorkerGoto(w, IF Pending(w) = {} THEN "done" ELSE "acquire")
  /\ UNCHANGED <<etcdVars, output, event, lock, clientVars, todo, outcome,
                 applied>>

\* Mutant: the lock key is written whether it exists or not.
TakeLock(w) ==
  /\ worker[w] = "acquire"
  /\ lock' = w
  /\ WorkerGoto(w, "verify")
  /\ UNCHANGED <<etcdVars, output, event, clientVars, todo, outcome, applied>>

\* lock.acquire(): create the lock key unless it exists.
TryLock(w) ==
  /\ worker[w] = "acquire"
  /\ \/ /\ lock = NoBatch
        /\ lock' = w
        /\ WorkerGoto(w, "verify")
     \/ /\ lock # NoBatch
        /\ WorkerGoto(w, "pending")
        /\ UNCHANGED lock
  /\ UNCHANGED <<etcdVars, output, event, clientVars, todo, outcome, applied>>

\* After a failed attempt: stop when there is nothing left to do, else retry.
RetryLock(w) ==
  /\ worker[w] = "pending"
  /\ WorkerGoto(w, IF Pending(w) = {} THEN "done" ELSE "acquire")
  /\ UNCHANGED <<etcdVars, output, event, lock, clientVars, todo, outcome,
                 applied>>

\* ... until 300 s have passed: tenacity raises RetryError.
AcquireTimeout(w) ==
  /\ "acquireTimeout" \in Faults
  /\ worker[w] = "pending"
  /\ Pending(w) # {}
  /\ WorkerGoto(w, "done")
  /\ UNCHANGED <<etcdVars, output, event, lock, clientVars, todo, outcome,
                 applied>>

\* lock.is_acquired() right after acquire; raising here skips the release.
VerifyLock(w) ==
  /\ worker[w] = "verify"
  /\ WorkerGoto(w, IF lock = w THEN "list" ELSE "done")
  /\ UNCHANGED <<etcdVars, output, event, lock, clientVars, todo, outcome,
                 applied>>

\* Mutant: the batches are popped from the queue when they are listed.
PopBatches(w) ==
  /\ worker[w] = "list"
  /\ todo' = [todo EXCEPT ![w] = input]
  /\ input' = {}
  /\ WorkerGoto(w, IF input = {} THEN "release" ELSE "connect")
  /\ UNCHANGED <<revision, createRev, output, event, lock, clientVars, outcome,
                 applied>>

\* get_batches() under the lock: everything queued, newer batches included.
ListBatches(w) ==
  /\ worker[w] = "list"
  /\ todo' = [todo EXCEPT ![w] = input]
  /\ WorkerGoto(w, IF input = {} THEN "release" ELSE "connect")
  /\ UNCHANGED <<etcdVars, output, event, lock, clientVars, outcome, applied>>

\* device._get_connection(); its exception ends _send_commands.
Connect(w) ==
  /\ worker[w] = "connect"
  /\ \/ WorkerGoto(w, "send")
     \/ "connect" \in Faults /\ WorkerGoto(w, "release")
  /\ UNCHANGED <<etcdVars, output, event, lock, clientVars, todo, outcome,
                 applied>>

\* send_config_set returns output or raises; both are kept in the batch.
SendCommands(w) ==
  /\ worker[w] = "send"
  /\ \E b \in Batches, o \in Outcomes :
       /\ IsOldest(b, todo[w])
       /\ applied' = Append(applied, [batch |-> b, outcome |-> o])
       /\ outcome' = [outcome EXCEPT ![w] = o]
  /\ WorkerGoto(w, "refresh")
  /\ UNCHANGED <<etcdVars, output, event, lock, clientVars, todo>>

\* Mutant: the lock is not looked at after the commands were sent.
RecordUnchecked(w) ==
  /\ worker[w] = "refresh"
  /\ WorkerGoto(w, "record")
  /\ UNCHANGED <<etcdVars, output, event, lock, clientVars, todo, outcome,
                 applied>>

\* lock.refresh() and lock.is_acquired(): a worker whose lease has run out
\* raises, and the finally clause still calls lock.release().
RefreshLock(w) ==
  /\ worker[w] = "refresh"
  /\ WorkerGoto(w, IF lock = w THEN "record" ELSE "release")
  /\ UNCHANGED <<etcdVars, output, event, lock, clientVars, todo, outcome,
                 applied>>

\* Mutant: the input key is left to its lease.
RecordAndKeep(w) ==
  /\ worker[w] = "record"
  /\ \E b \in Batches :
       /\ IsOldest(b, todo[w])
       /\ output' = [output EXCEPT ![b] = outcome[w]]
       /\ event' = [event EXCEPT ![b] = IF @ = "none" THEN "put" ELSE @]
       /\ todo' = [todo EXCEPT ![w] = @ \ {b}]
       /\ WorkerGoto(w, IF todo[w] = {b} THEN "save" ELSE "send")
  /\ UNCHANGED <<etcdVars, lock, clientVars, outcome, applied>>

\* Mutant: the result is recorded for any of the listed batches.
RecordAny(w) ==
  /\ worker[w] = "record"
  /\ \E b \in todo[w] :
       /\ output' = [output EXCEPT ![b] = outcome[w]]
       /\ event' = [event EXCEPT ![b] = IF @ = "none" THEN "put" ELSE @]
       /\ input' = input \ {b}
       /\ todo' = [todo EXCEPT ![w] = @ \ {b}]
       /\ WorkerGoto(w, IF todo[w] = {b} THEN "save" ELSE "send")
  /\ UNCHANGED <<revision, createRev, lock, clientVars, outcome, applied>>

\* record_result: put the result key and delete the input key at once.
RecordResult(w) ==
  /\ worker[w] = "record"
  /\ \E b \in Batches :
       /\ IsOldest(b, todo[w])
       /\ output' = [output EXCEPT ![b] = outcome[w]]
       /\ event' = [event EXCEPT ![b] = IF @ = "none" THEN "put" ELSE @]
       /\ input' = input \ {b}
       /\ todo' = [todo EXCEPT ![w] = @ \ {b}]
       /\ WorkerGoto(w, IF todo[w] = {b} THEN "save" ELSE "send")
  /\ UNCHANGED <<revision, createRev, lock, clientVars, outcome, applied>>

\* save_configuration; its failure is only logged.
SaveConfiguration(w) ==
  /\ worker[w] = "save"
  /\ WorkerGoto(w, "release")
  /\ UNCHANGED <<etcdVars, output, event, lock, clientVars, todo, outcome,
                 applied>>

\* lock.release() deletes the lock key only when it is the worker's own.
ReleaseLock(w) ==
  /\ worker[w] = "release"
  /\ lock' = IF lock = w THEN NoBatch ELSE lock
  /\ todo' = [todo EXCEPT ![w] = {}]
  /\ WorkerGoto(w, "done")
  /\ UNCHANGED <<etcdVars, output, event, clientVars, outcome, applied>>

-----------------------------------------------------------------------------
(* The environment: etcd leases and crashes.                               *)

WorkerGone(w) == worker[w] \in {"done", "crashed"}

\* Mutant: the lock has no lease.
LockStays == FALSE

\* The lock's lease runs out: its owner no longer refreshes it, or is in a
\* step that takes longer than lock_ttl.
ExpireLock ==
  /\ lock # NoBatch
  /\ WorkerGone(lock) \/ worker[lock] \in LockExpiresAt
  /\ lock' = NoBatch
  /\ UNCHANGED <<etcdVars, output, event, clientVars, workerVars, applied>>

\* An input key outlives its caller's wait: 600 s against 300 s.
ExpireInput(b) ==
  /\ b \in input
  /\ ClientGone(b) \/ "slowClient" \in Faults
  /\ input' = input \ {b}
  /\ UNCHANGED <<revision, createRev, output, event, lock, clientVars,
                 workerVars, applied>>

\* So does a result key, written during the wait or after it.
ExpireOutput(b) ==
  /\ output[b] # "none"
  /\ ClientGone(b) \/ "slowClient" \in Faults
  /\ output' = [output EXCEPT ![b] = "none"]
  /\ event' = [event EXCEPT ![b] = IF @ = "none" THEN "delete" ELSE @]
  /\ UNCHANGED <<etcdVars, lock, clientVars, workerVars, applied>>

\* The process of a caller dies with the caller's worker thread.
Crash(b) ==
  /\ "crash" \in Faults
  /\ client[b] # "idle"
  /\ ~(ClientGone(b) /\ WorkerGone(b))
  /\ client' = [client EXCEPT ![b] = IF @ = "done" THEN @ ELSE "crashed"]
  /\ worker' = [worker EXCEPT ![b] = IF @ = "done" THEN @ ELSE "crashed"]
  /\ todo' = [todo EXCEPT ![b] = {}]
  /\ UNCHANGED <<etcdVars, output, event, lock, answer, outcome, applied>>

\* Every call has ended: the queue rests until the next one.
Finished ==
  /\ \A b \in Batches : ClientGone(b) /\ WorkerGone(b)
  /\ UNCHANGED vars

-----------------------------------------------------------------------------
ClientStep(b) ==
  \/ StartWatch(b) \/ DeadlinePasses(b) \/ WatchEvent(b) \/ PollResult(b)
  \/ FetchResult(b) \/ LastAttempt(b)

WorkerStep(w) ==
  \/ CheckPending(w) \/ TryLock(w) \/ RetryLock(w) \/ AcquireTimeout(w)
  \/ VerifyLock(w) \/ ListBatches(w) \/ Connect(w) \/ SendCommands(w) \/ RefreshLock(w)
  \/ RecordResult(w) \/ SaveConfiguration(w) \/ ReleaseLock(w)

LeaseStep == ExpireLock \/ \E b \in Batches : ExpireInput(b) \/ ExpireOutput(b)

Next ==
  \/ \E b \in Batches : AddBatch(b) \/ ClientStep(b) \/ WorkerStep(b)
                        \/ Crash(b)
  \/ LeaseStep
  \/ Finished

Spec == Init /\ [][Next]_vars

\* Threads are scheduled, and etcd expires the lock of an owner that is gone.
\* Nothing is assumed of faults, of leases that end early and of timeouts.
Fairness ==
  /\ \A b \in Batches : WF_vars(ClientStep(b)) /\ WF_vars(WorkerStep(b))
  /\ WF_vars(ExpireLock /\ WorkerGone(lock))

FairSpec == Spec /\ Fairness

-----------------------------------------------------------------------------
(* Properties.                                                             *)

\* The execute lock serialises the switch: two workers never have a session
\* open at once, although a worker may die with the lock, abort, or give up.
SerialSessions ==
  \A v, w \in Batches :
    worker[v] \in InSession /\ worker[w] \in InSession => v = w

\* "FIFO style queue": the switch executes batches in the order in which
\* their input keys were created.  A batch may be executed twice in a row
\* (its first worker died before record_result) but never after a newer one.
FIFO ==
  \A i, j \in DOMAIN applied :
    i <= j => createRev[applied[i].batch] <= createRev[applied[j].batch]

\* do_batch returns what the switch made of this very batch, although most
\* batches are executed by the worker of another caller.
OwnAnswer ==
  \A b \in Batches :
    answer[b] \in Outcomes =>
      \E i \in DOMAIN applied :
        applied[i] = [batch |-> b, outcome |-> answer[b]]

\* While a caller waits, its batch is queued or its result is there: no
\* crash, abort or expiry of the lock loses a request.
NothingLost ==
  \A b \in Batches :
    client[b] \in {"loop", "watch", "reloop", "fetch", "last"} =>
      b \in input \/ output[b] # "none"

\* What record_result assumes, "a lock is held", although the lease may have
\* ended, and another worker have taken the lock, while the commands were
\* sent: the check in front of record_result sees it.
RecordsUnderLock ==
  [][\A b \in Batches :
       output'[b] \notin {output[b], "none"} =>
         \E w \in Batches : lock = w /\ worker[w] = "record"]_vars

\* A result is recorded once while its caller waits: a worker that has lost
\* the lock never overwrites what another one has recorded.
RecordedOnce ==
  [][\A b \in Batches :
       output'[b] \notin {output[b], "none"} => b \in input \/ ClientGone(b)]_vars

\* Every worker thread ends: it gets the lock, finds nothing to do, or times
\* out.  (_wait_for_threads joins them at exit.)
WorkersEnd == \A b \in Batches : worker[b] = "start" ~> WorkerGone(b)

\* No lease of the execute lock ends under the worker that holds it.
LeasesOutlastSteps ==
  [](\A w \in Batches : worker[w] \in Critical => lock = w)

\* A caller that stays alive gets the outcome of its batch although other
\* processes die, with or without the lock, and etcd loses watch events (the
\* fix of LP#2152047); as long as the switch answers and no timeout passes.
\* A worker that loses its lock while it sends leaves its batches queued, for
\* a worker that may never come: nothing is promised then.
EveryoneAnswered ==
  LeasesOutlastSteps =>
    \A b \in Batches :
      client[b] = "loop" ~> answer[b] \in Outcomes \/ client[b] = "crashed"

\* The queue implements the promise of RequestQueue.
Promise == INSTANCE RequestQueue
             WITH Requests <- Batches, next <- revision, ticket <- createRev,
                  log <- applied
KeepsPromise == Promise!Spec
=============================================================================
