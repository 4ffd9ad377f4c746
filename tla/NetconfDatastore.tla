-------------------------- MODULE NetconfDatastore --------------------------
(***************************************************************************)
(* How NETCONF devices change the configuration of one switch:             *)
(* send_config_to_device and _lock_and_configure of                        *)
(* devices/netconf_devices/netconf_switch.py.                              *)
(*                                                                         *)
(* A call is one thread's send_config_to_device: it opens a session of its *)
(* own, locks a datastore, edits and commits, and tries again when the     *)
(* lock is denied or the switch answers operation-failed.  One RPC is one  *)
(* step.  The switch is external and does what RFC 6241 demands of it: it  *)
(* ends the lock, the uncommitted edits and the unconfirmed commit of a    *)
(* session that ends.  A datastore says who wrote each item last.          *)
(* validate changes nothing; that it fails is the failure of what follows. *)
(***************************************************************************)
EXTENDS Integers, FiniteSets

CONSTANTS
  Calls, NoCall,
  Operator,        \* another manager of the switch, without NETCONF
  Items,           \* what can be configured
  ItemsOf,         \* the items that the edit-config of each call writes
  MaxConnections,  \* ngs_max_connections
  MaxAttempts,     \* stop_after_attempt (10)
  Scenarios        \* switches and environments, see AllScenarios

FaultKinds == {"timeout",  \* acquire_timeout passes, or the connection fails
               "busy",     \* an RPC is answered operation-failed
               "refused",  \* an RPC is answered with another error
               "slow",     \* the confirmed-commit timeout passes
               "lost",     \* the session ends
               "crash"}    \* the Neutron process dies

AllScenarios ==
  [target : {"candidate", "running", "none"},  \* _get_datastore_target
   confirmed : BOOLEAN,    \* ngs_netconf_confirmed_commit and :confirmed-commit
   saves : BOOLEAN,        \* _save_running_config has a way to save
   coordinated : BOOLEAN,  \* [ngs_coordination] backend_url is configured
   operator : BOOLEAN,     \* the operator is at work
   faults : SUBSET FaultKinds]

Steps == {"idle", "pool", "connect", "lock", "clear", "again", "discard",
          "edit", "confirm", "commit", "save", "unlock", "close", "done",
          "crashed"}

\* Steps with an open session; the ones within client.locked.
Configuring == {"discard", "edit", "confirm", "commit", "save"}
InSession == {"lock", "clear", "again", "unlock", "close"} \cup Configuring

Writers == Calls \cup {NoCall, Operator}

ASSUME NamesAssumption == {NoCall, Operator} \cap Calls = {}
                          /\ NoCall # Operator
ASSUME ItemsAssumption == ItemsOf \in [Calls -> SUBSET Items \ {{}}]
ASSUME BoundsAssumption ==
  MaxConnections \in Nat \ {0} /\ MaxAttempts \in Nat \ {0}
ASSUME ScenariosAssumption == Scenarios \subseteq AllScenarios

VARIABLES
  scenario,   \* the switch and its environment
  candidate, running, startup,  \* datastores: who wrote each item last
  before,     \* what the switch rolls back to
  pending,    \* whose confirmed commit is not confirmed yet
  lock,       \* who has the lock of the target datastore
  session,    \* whether the switch has the session of a call
  slots,      \* calls that have a lock of the pool (PoolLock)
  pc,         \* where each call is
  attempt,    \* of _lock_and_configure
  raised,     \* how the last attempt ended
  left        \* history: step at which the session or the process was lost

storeVars == <<candidate, running, startup>>
switchVars == <<storeVars, before, pending, lock, session>>
callVars == <<slots, pc, attempt, raised, left>>
vars == <<scenario, switchVars, callVars>>

Stores == [Items -> Writers]

TypeOK ==
  /\ scenario \in Scenarios
  /\ candidate \in Stores /\ running \in Stores /\ startup \in Stores
  /\ before \in Stores
  /\ pending \in Calls \cup {NoCall}
  /\ lock \in Writers
  /\ session \in [Calls -> BOOLEAN]
  /\ slots \subseteq Calls
  /\ pc \in [Calls -> Steps]
  /\ attempt \in [Calls -> 1 .. MaxAttempts]
  /\ raised \in [Calls -> {"none", "retry", "error"}]
  /\ left \in [Calls -> Steps \cup {"none"}]

Factory == [i \in Items |-> NoCall]

Init ==
  /\ scenario \in Scenarios
  /\ candidate = Factory /\ running = Factory /\ startup = Factory
  /\ before = Factory
  /\ pending = NoCall
  /\ lock = NoCall
  /\ session = [c \in Calls |-> FALSE]
  /\ slots = {}
  /\ pc = [c \in Calls |-> "idle"]
  /\ attempt = [c \in Calls |-> 1]
  /\ raised = [c \in Calls |-> "none"]
  /\ left = [c \in Calls |-> "none"]

-----------------------------------------------------------------------------
(* The call enters and leaves its with blocks.                             *)

Goto(c, step) == pc' = [pc EXCEPT ![c] = step]
Raise(c, what) == raised' = [raised EXCEPT ![c] = what]

Start(c) ==
  /\ pc[c] = "idle"
  /\ Goto(c, IF scenario.coordinated THEN "pool" ELSE "connect")
  /\ UNCHANGED <<switchVars, slots, attempt, raised, left>>

\* PoolLock.__enter__: one of ngs_max_connections locks.
EnterPool(c) ==
  /\ pc[c] = "pool"
  /\ Cardinality(slots) < MaxConnections
  /\ slots' = slots \cup {c}
  /\ Goto(c, "connect")
  /\ UNCHANGED <<switchVars, attempt, raised, left>>

\* manager.connect; without a usable datastore nothing is sent.
Connect(c) ==
  /\ pc[c] = "connect"
  /\ session' = [session EXCEPT ![c] = TRUE]
  /\ Goto(c, IF scenario.target = "none" THEN "close" ELSE "lock")
  /\ UNCHANGED <<storeVars, before, pending, lock, slots, attempt, raised,
                 left>>

\* The wait for the pool or the connection fails; the exception is not one
\* that is retried.
NoConnection(c) ==
  /\ "timeout" \in scenario.faults
  /\ pc[c] \in {"pool", "connect"}
  /\ Raise(c, "error")
  /\ slots' = slots \ {c}
  /\ Goto(c, "done")
  /\ UNCHANGED <<switchVars, attempt, left>>

RollBack ==
  /\ running' = before
  /\ pending' = NoCall

\* RFC 6241: the switch ends what a session has left open.
EndSession(c) ==
  /\ session' = [session EXCEPT ![c] = FALSE]
  /\ lock' = IF lock = c THEN NoCall ELSE lock
  /\ IF pending = c THEN RollBack ELSE UNCHANGED <<running, pending>>
  /\ candidate' = IF lock = c THEN running' ELSE candidate
  /\ UNCHANGED <<startup, before>>

\* The ends of both with blocks.  That the session is gone is ignored here,
\* but only after _lock_and_configure has returned (ncclient issue 525).
Close(c) ==
  /\ pc[c] = "close"
  /\ IF session[c]
       THEN EndSession(c) /\ UNCHANGED raised
       ELSE /\ IF scenario.target = "none" THEN Raise(c, "error")
                                           ELSE UNCHANGED raised
            /\ UNCHANGED switchVars
  /\ slots' = slots \ {c}
  /\ Goto(c, "done")
  /\ UNCHANGED <<attempt, left>>

-----------------------------------------------------------------------------
(* _lock_and_configure.                                                    *)

Dirty == scenario.target = "candidate" /\ candidate # running

\* client.locked: a switch may also refuse the lock of a candidate that
\* somebody has edited without it.
LockGranted(c) ==
  /\ pc[c] = "lock"
  /\ session[c]
  /\ lock = NoCall
  /\ lock' = c
  /\ Goto(c, IF scenario.target = "candidate" THEN "discard" ELSE "edit")
  /\ UNCHANGED <<storeVars, before, pending, session, slots, attempt, raised,
                 left>>

\* lock-denied names the session, 0 when it is not one of NETCONF; then the
\* candidate is discarded.
LockDenied(c) ==
  /\ pc[c] = "lock"
  /\ session[c]
  /\ lock # NoCall \/ Dirty
  /\ Goto(c, IF lock \notin Calls /\ scenario.target = "candidate"
               THEN "clear" ELSE "again")
  /\ UNCHANGED <<switchVars, slots, attempt, raised, left>>

\* discard_changes in the except clause, without the lock: whoever has it by
\* now is protected by the switch, and no error here is one that is retried.
ClearCandidate(c) ==
  /\ pc[c] = "clear"
  /\ session[c]
  /\ \/ /\ lock = NoCall
        /\ candidate' = running
        /\ Goto(c, "again")
        /\ UNCHANGED raised
     \/ /\ lock # NoCall \/ scenario.faults \cap {"busy", "refused"} # {}
        /\ Raise(c, "error")
        /\ Goto(c, "close")
        /\ UNCHANGED candidate
  /\ UNCHANGED <<running, startup, before, pending, lock, session, slots,
                 attempt, left>>

\* Mutant: there is no last attempt.
RetryForever(c) ==
  /\ pc[c] = "again"
  /\ Raise(c, "none")
  /\ Goto(c, "lock")
  /\ UNCHANGED <<switchVars, slots, attempt, left>>

\* tenacity, after lock-denied and operation-failed.
Retry(c) ==
  /\ pc[c] = "again"
  /\ IF attempt[c] < MaxAttempts
       THEN /\ attempt' = [attempt EXCEPT ![c] = @ + 1]
            /\ Raise(c, "none")
            /\ Goto(c, "lock")
       ELSE /\ Raise(c, "error")
            /\ Goto(c, "close")
            /\ UNCHANGED attempt
  /\ UNCHANGED <<switchVars, slots, left>>

\* Mutant: the candidate is edited as it is.
KeepCandidate(c) ==
  /\ pc[c] = "discard"
  /\ session[c]
  /\ Goto(c, "edit")
  /\ UNCHANGED <<switchVars, slots, attempt, raised, left>>

\* discard_changes under the lock.
Discard(c) ==
  /\ pc[c] = "discard"
  /\ session[c]
  /\ candidate' = running
  /\ Goto(c, "edit")
  /\ UNCHANGED <<running, startup, before, pending, lock, session, slots,
                 attempt, raised, left>>

Written(store, items, c) ==
  [i \in Items |-> IF i \in items THEN c ELSE store[i]]

EditTarget(c, items) ==
  IF scenario.target = "candidate"
    THEN candidate' = Written(candidate, items, c) /\ UNCHANGED running
    ELSE running' = Written(running, items, c) /\ UNCHANGED candidate

\* Mutant: the running configuration is never saved.
EditOnly(c) ==
  /\ pc[c] = "edit"
  /\ session[c]
  /\ EditTarget(c, ItemsOf[c])
  /\ Goto(c, IF scenario.target = "running" THEN "unlock"
             ELSE IF scenario.confirmed THEN "confirm" ELSE "commit")
  /\ UNCHANGED <<startup, before, pending, lock, session, slots, attempt,
                 raised, left>>

\* edit_config.
Edit(c) ==
  /\ pc[c] = "edit"
  /\ session[c]
  /\ EditTarget(c, ItemsOf[c])
  /\ Goto(c, CASE scenario.target = "running" /\ scenario.saves -> "save"
               [] scenario.target = "running" /\ ~scenario.saves -> "unlock"
               [] scenario.target = "candidate" /\ scenario.confirmed -> "confirm"
               [] OTHER -> "commit")
  /\ UNCHANGED <<startup, before, pending, lock, session, slots, attempt,
                 raised, left>>

\* Only its own session may follow up on a confirmed commit.
MayCommit(c) == session[c] /\ pending \in {NoCall, c}

\* Mutant: the first commit is a plain one.
CommitAtOnce(c) ==
  /\ pc[c] = "confirm"
  /\ MayCommit(c)
  /\ running' = candidate
  /\ Goto(c, "commit")
  /\ UNCHANGED <<candidate, startup, before, pending, lock, session, slots,
                 attempt, raised, left>>

\* commit(confirmed=True).
ConfirmedCommit(c) ==
  /\ pc[c] = "confirm"
  /\ MayCommit(c)
  /\ running' = candidate
  /\ before' = IF pending = c THEN before ELSE running
  /\ pending' = c
  /\ Goto(c, "commit")
  /\ UNCHANGED <<candidate, startup, lock, session, slots, attempt, raised,
                 left>>

\* Mutant: the commit is not confirmed.
LeaveUnconfirmed(c) ==
  /\ pc[c] = "commit"
  /\ MayCommit(c)
  /\ Goto(c, "unlock")
  /\ UNCHANGED <<switchVars, slots, attempt, raised, left>>

\* commit(), which also confirms.
Commit(c) ==
  /\ pc[c] = "commit"
  /\ MayCommit(c)
  /\ running' = candidate
  /\ pending' = NoCall
  /\ Goto(c, "unlock")
  /\ UNCHANGED <<candidate, startup, before, lock, session, slots, attempt,
                 raised, left>>

\* _save_running_config.
Save(c) ==
  /\ pc[c] = "save"
  /\ session[c]
  /\ startup' = running
  /\ Goto(c, "unlock")
  /\ UNCHANGED <<candidate, running, before, pending, lock, session, slots,
                 attempt, raised, left>>

\* Why an RPC is answered with operation-failed, and with another error.
Errors(c) ==
  {e \in {"retry", "error"} :
     \/ e = "retry" /\ "busy" \in scenario.faults
     \/ e = "retry" /\ pc[c] \in {"confirm", "commit"} /\ ~MayCommit(c)
     \/ e = "error" /\ "refused" \in scenario.faults}

\* Mutant: the error of an edit that was done in part is swallowed.
IgnoreError(c) ==
  /\ pc[c] \in Configuring
  /\ session[c]
  /\ \E e \in Errors(c) :
       IF pc[c] = "edit" /\ scenario.target = "candidate"
         THEN UNCHANGED raised /\ Goto(c, "commit")
         ELSE Raise(c, e) /\ Goto(c, "unlock")
  /\ IF pc[c] = "edit"
       THEN \E items \in SUBSET ItemsOf[c] : EditTarget(c, items)
       ELSE UNCHANGED <<candidate, running>>
  /\ UNCHANGED <<startup, before, pending, lock, session, slots, attempt, left>>

\* An RPC under the lock fails.  An edit may have been done in part.
RpcFails(c) ==
  /\ pc[c] \in Configuring
  /\ session[c]
  /\ \E e \in Errors(c) : Raise(c, e)
  /\ IF pc[c] = "edit"
       THEN \E items \in SUBSET ItemsOf[c] : EditTarget(c, items)
       ELSE UNCHANGED <<candidate, running>>
  /\ Goto(c, "unlock")
  /\ UNCHANGED <<startup, before, pending, lock, session, slots, attempt, left>>

\* The end of client.locked; the switch discards what was not committed.
Unlock(c) ==
  /\ pc[c] = "unlock"
  /\ session[c]
  /\ lock' = NoCall
  /\ candidate' = running
  /\ Goto(c, IF raised[c] = "retry" THEN "again" ELSE "close")
  /\ UNCHANGED <<running, startup, before, pending, session, slots, attempt,
                 raised, left>>

\* The client finds that its session is gone: SessionCloseError.
FindLost(c) ==
  /\ pc[c] \in InSession \ {"close", "again"}
  /\ ~session[c]
  /\ Raise(c, "error")
  /\ Goto(c, "close")
  /\ UNCHANGED <<switchVars, slots, attempt, left>>

-----------------------------------------------------------------------------
(* The environment.                                                        *)

\* The confirmed-commit timeout passes before the confirming commit.
ConfirmTimeout ==
  /\ "slow" \in scenario.faults
  /\ pending # NoCall
  /\ RollBack
  /\ UNCHANGED <<candidate, startup, before, lock, session, callVars>>

LoseSession(c) ==
  /\ "lost" \in scenario.faults
  /\ session[c] /\ pc[c] \in InSession
  /\ EndSession(c)
  /\ left' = [left EXCEPT ![c] = pc[c]]
  /\ UNCHANGED <<slots, pc, attempt, raised>>

\* The Neutron process dies; the switch does not know yet.
Crash(c) ==
  /\ "crash" \in scenario.faults
  /\ pc[c] \notin {"idle", "done", "crashed"}
  /\ left' = [left EXCEPT ![c] = IF session[c] THEN pc[c] ELSE @]
  /\ Goto(c, "crashed")
  /\ UNCHANGED <<switchVars, slots, attempt, raised>>

\* The switch misses the keepalives of a dead client.
NoticeCrash(c) ==
  /\ pc[c] = "crashed"
  /\ session[c]
  /\ EndSession(c)
  /\ UNCHANGED callVars

\* The coordination service expires the locks of dead processes.
ExpireSlot(c) ==
  /\ pc[c] = "crashed"
  /\ c \in slots
  /\ slots' = slots \ {c}
  /\ UNCHANGED <<switchVars, pc, attempt, raised, left>>

\* Somebody edits the candidate by hand, with or without its lock.
OperatorEdits ==
  /\ scenario.operator
  /\ lock \in {NoCall, Operator}
  /\ \E i \in Items \ UNION {ItemsOf[c] : c \in Calls} :
       candidate' = [candidate EXCEPT ![i] = Operator]
  /\ UNCHANGED <<running, startup, before, pending, lock, session, callVars>>

OperatorLocks ==
  /\ scenario.operator
  /\ lock = NoCall
  /\ lock' = Operator
  /\ UNCHANGED <<storeVars, before, pending, session, callVars>>

OperatorUnlocks ==
  /\ lock = Operator
  /\ lock' = NoCall
  /\ candidate' = running
  /\ UNCHANGED <<running, startup, before, pending, session, callVars>>

Step(c) ==
  \/ Start(c) \/ EnterPool(c) \/ Connect(c) \/ Close(c)
  \/ LockGranted(c) \/ LockDenied(c) \/ ClearCandidate(c) \/ Retry(c)
  \/ Discard(c) \/ Edit(c) \/ ConfirmedCommit(c) \/ Commit(c) \/ Save(c)
  \/ RpcFails(c) \/ Unlock(c) \/ FindLost(c)

Over(c) == pc[c] \in {"done", "crashed"}

\* Every call has ended, and the switch has nothing of it open.
Terminated ==
  /\ \A c \in Calls : Over(c) /\ ~session[c] /\ c \notin slots
  /\ UNCHANGED <<switchVars, callVars>>

Next ==
  /\ \/ \E c \in Calls :
          \/ Step(c) \/ NoConnection(c)
          \/ LoseSession(c) \/ Crash(c) \/ NoticeCrash(c) \/ ExpireSlot(c)
     \/ ConfirmTimeout
     \/ OperatorEdits \/ OperatorLocks \/ OperatorUnlocks
     \/ Terminated
  /\ UNCHANGED scenario

Spec == Init /\ [][Next]_vars

\* Threads run, keepalives detect dead clients, tooz locks of the dead expire.
Fairness ==
  \A c \in Calls : /\ WF_vars(Step(c) /\ UNCHANGED scenario)
                   /\ WF_vars(NoticeCrash(c) /\ UNCHANGED scenario)
                   /\ WF_vars(ExpireSlot(c) /\ UNCHANGED scenario)

FairSpec == Spec /\ Fairness

-----------------------------------------------------------------------------
(* Properties.                                                             *)

Done(c) == pc[c] = "done" /\ raised[c] = "none"
Failed(c) == pc[c] = "done" /\ raised[c] # "none"

\* Datastore in which c, or a call that writes the same item, was the last
\* to write the items of c.
Has(store, c) ==
  \A i \in ItemsOf[c] : store[i] \in Calls /\ i \in ItemsOf[store[i]]

\* What send_config_to_device reports as done stays configured: it is not
\* rolled back with the confirmed commit of another call, nor lost with an
\* edit that was discarded.
DoneIsDone ==
  scenario.target # "none" => \A c \in Calls : Done(c) => Has(running, c)

\* ... and it survives a reboot where the running datastore is edited and
\* there is a way to save it.
DoneIsSaved ==
  scenario.target = "running" /\ scenario.saves =>
    \A c \in Calls : Done(c) => Has(startup, c)

\* The candidate makes an edit atomic: no part of it reaches the running
\* configuration without the rest.
AllOrNothing ==
  scenario.target = "candidate" =>
    \A c \in Calls : (\E i \in Items : running[i] = c) => Has(running, c)

\* When the confirming commit fails, the lock is given up before the call
\* tries again or closes its session, and others start from its edit.
MayStayUnconfirmed ==
  scenario.confirmed /\ scenario.faults \cap {"busy", "refused"} # {}

\* A call commits its own edit and nothing that others have left in the
\* candidate, unless their commits may stay unconfirmed without the lock.
CommitsOwnEdit ==
  [][~MayStayUnconfirmed =>
       \A c \in Calls : ConfirmedCommit(c) \/ Commit(c) =>
         \A i \in Items \ ItemsOf[c] : running'[i] = running[i]]_vars

\* The call failed or died, and not after the confirming commit.
Unconfirmed(c) ==
  /\ scenario.target = "candidate"
  /\ Failed(c) \/ (pc[c] = "crashed" /\ ~session[c])
  /\ left[c] \notin {"unlock", "close"}

Undone(c) == \A i \in Items : running[i] # c

\* "If the confirming commit never arrives (e.g. the process crashes), the
\* switch automatically rolls back the candidate configuration after the
\* timeout" (doc/source/management-interfaces.rst:67-69): nothing remains of
\* the edit of a call that failed or died.
UnconfirmedIsUndone == \A c \in Calls : Unconfirmed(c) => Undone(c)

\* That holds where the confirming commit does not fail under the lock.
FailedIsUndone ==
  ~MayStayUnconfirmed => \A c \in Calls : Unconfirmed(c) => Undone(c)

\* Every call ends, and then the switch keeps no lock and no unconfirmed
\* commit of it, however it ended.
CallsEnd ==
  \A c \in Calls :
    pc[c] # "idle" ~> Over(c) /\ lock # c /\ pending # c /\ c \notin slots
=============================================================================
