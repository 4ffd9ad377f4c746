--------------------------- MODULE ConnectionPool ---------------------------
(***************************************************************************)
(* How netmiko devices reach one switch outside batch mode: PoolLock of    *)
(* locking.py, and _get_connection, send_commands_to_device and            *)
(* check_output of devices/netmiko_devices/__init__.py.                    *)
(*                                                                         *)
(* A call is one thread's send_commands_to_device (with the check_output   *)
(* decorator around it) or one query, vlan_has_ports or vlan_has_vni.      *)
(* Threads of one Neutron process share a LIFO pool of idle connections;   *)
(* all processes share the tooz locks, ngs_max_connections names per       *)
(* switch.  A call opens at most one connection per attempt, so the        *)
(* connection <<c, a>> is the one opened by attempt a of call c.           *)
(***************************************************************************)
EXTENDS Integers, Sequences, FiniteSets

CONSTANTS
  Calls, NoCall,
  Queries,         \* the calls that only read; the others send commands
  Processes,
  ProcessOf,       \* the Neutron process of each call
  MaxConnections,  \* ngs_max_connections
  Coordinated,     \* [ngs_coordination] backend_url is configured
  Reuse,           \* ngs_ssh_reuse_connection
  SaveConfig,      \* ngs_save_configuration
  Faults           \* what the environment may do, see FaultKinds

FaultKinds == {"drop",            \* the switch or the network ends a session
               "connect",         \* ngs_ssh_connect_timeout passes
               "command",         \* netmiko raises while it sends or saves
               "rejected",        \* the output matches ERROR_MSG_PATTERNS
               "acquireTimeout",  \* acquire_timeout passes
               "crash"}           \* a Neutron process dies

Senders == Calls \ Queries
Attempts == {1, 2}
Connections == Calls \X Attempts
NoConnection == <<>>
LockNames == 0 .. MaxConnections - 1

Steps == {"idle", "lock", "pool", "alive", "connect", "use", "save", "put",
          "abort", "unlock", "failed", "output", "drain", "done", "crashed"}

\* Steps within the with block of _get_connection.
Using == {"use", "save", "put", "abort"}

\* Steps within the with block of PoolLock.
Locked == {"pool", "alive", "connect", "unlock"} \cup Using

ASSUME CallsAssumption == NoCall \notin Calls /\ Queries \subseteq Calls
ASSUME ProcessesAssumption == ProcessOf \in [Calls -> Processes]
ASSUME MaxConnectionsAssumption == MaxConnections \in Nat \ {0}
ASSUME OptionsAssumption == {Coordinated, Reuse, SaveConfig} \subseteq BOOLEAN
ASSUME FaultsAssumption == Faults \subseteq FaultKinds

VARIABLES
  holder,    \* whose each tooz lock is
  pool,      \* _connection_pool of each process, the last one on top
  session,   \* state of each connection; "dropped" is not yet disconnected
  pc,        \* where each call is
  nextName,  \* index of the lock name that grab_lock_from_pool tries next
  hand,      \* net_connect of each call
  attempt,   \* 2 after "Retrying switch command execution"
  raised,    \* the with blocks are being left by an exception
  rejected,  \* the output of send_config_set matches an error pattern
  result,    \* what the call returned or raised
  ran        \* history: how often the switch ran the commands of a call

lockVars == <<holder, nextName>>
connVars == <<pool, session, hand>>
callVars == <<attempt, raised, rejected, result, ran>>
vars == <<lockVars, connVars, callVars, pc>>

TypeOK ==
  /\ holder \in [LockNames -> Calls \cup {NoCall}]
  /\ pool \in [Processes -> Seq(Connections)]
  /\ session \in [Connections -> {"none", "open", "dropped", "closed"}]
  /\ pc \in [Calls -> Steps]
  /\ nextName \in [Calls -> LockNames]
  /\ hand \in [Calls -> Connections \cup {NoConnection}]
  /\ attempt \in [Calls -> Attempts]
  /\ raised \in [Calls -> BOOLEAN]
  /\ rejected \in [Calls -> BOOLEAN]
  /\ result \in [Calls -> {"none", "ok", "error"}]
  /\ ran \in [Calls -> Nat]

Init ==
  /\ holder = [n \in LockNames |-> NoCall]
  /\ pool = [p \in Processes |-> <<>>]
  /\ session = [k \in Connections |-> "none"]
  /\ pc = [c \in Calls |-> "idle"]
  /\ nextName = [c \in Calls |-> 0]
  /\ hand = [c \in Calls |-> NoConnection]
  /\ attempt = [c \in Calls |-> 1]
  /\ raised = [c \in Calls |-> FALSE]
  /\ rejected = [c \in Calls |-> FALSE]
  /\ result = [c \in Calls |-> "none"]
  /\ ran = [c \in Calls |-> 0]

-----------------------------------------------------------------------------
(* PoolLock.                                                               *)

PoolOf(c) == pool[ProcessOf[c]]

Goto(c, step) == pc' = [pc EXCEPT ![c] = step]

\* PoolLock.__enter__ returns at once without a coordinator, and queries
\* call _get_connection without PoolLock.
TakesLock(c) == Coordinated /\ c \in Senders

Enter(c) == Goto(c, IF TakesLock(c) THEN "lock" ELSE "pool")

Start(c) ==
  /\ pc[c] = "idle"
  /\ Enter(c)
  /\ UNCHANGED <<lockVars, connVars, callVars>>

\* Mutant: the lock is taken without asking who has it.
GrabLock(c) ==
  /\ pc[c] = "lock"
  /\ holder' = [holder EXCEPT ![nextName[c]] = c]
  /\ Goto(c, "pool")
  /\ UNCHANGED <<nextName, connVars, callVars>>

\* Mutant: the names are not a cycle.
TryNextName(c) ==
  /\ pc[c] = "lock"
  /\ IF holder[nextName[c]] = NoCall
       THEN /\ holder' = [holder EXCEPT ![nextName[c]] = c]
            /\ Goto(c, "pool")
            /\ UNCHANGED nextName
       ELSE /\ nextName' = [nextName EXCEPT ![c] = nextName[c] + 1]
            /\ UNCHANGED <<holder, pc>>
  /\ UNCHANGED <<connVars, callVars>>

\* grab_lock_from_pool: one attempt at one of the names, in a cycle.
TryLock(c) ==
  /\ pc[c] = "lock"
  /\ IF holder[nextName[c]] = NoCall
       THEN /\ holder' = [holder EXCEPT ![nextName[c]] = c]
            /\ Goto(c, "pool")
            /\ UNCHANGED nextName
       ELSE /\ nextName' = [nextName EXCEPT
                              ![c] = (nextName[c] + 1) % MaxConnections]
            /\ UNCHANGED <<holder, pc>>
  /\ UNCHANGED <<connVars, callVars>>

\* LockAcquireFailed is raised again and becomes a connect error.
AcquireTimeout(c) ==
  /\ "acquireTimeout" \in Faults
  /\ pc[c] = "lock"
  /\ Goto(c, "failed")
  /\ UNCHANGED <<holder, nextName, connVars, callVars>>

\* Mutant: the lock is kept when the block was left by an exception.
UnlockOnSuccess(c) ==
  /\ pc[c] = "unlock"
  /\ holder' = [n \in LockNames |->
                  IF holder[n] = c /\ ~raised[c] THEN NoCall ELSE holder[n]]
  /\ Goto(c, IF raised[c] THEN "failed" ELSE "output")
  /\ UNCHANGED <<nextName, connVars, callVars>>

\* PoolLock.__exit__.
Unlock(c) ==
  /\ pc[c] = "unlock"
  /\ holder' = [n \in LockNames |->
                  IF holder[n] = c THEN NoCall ELSE holder[n]]
  /\ Goto(c, IF raised[c] THEN "failed" ELSE "output")
  /\ UNCHANGED <<nextName, connVars, callVars>>

-----------------------------------------------------------------------------
(* _get_connection and its users.                                          *)

Top(s) == s[Len(s)]
Below(s) == SubSeq(s, 1, Len(s) - 1)

\* Mutant: the connection stays in the pool while it is used.
BorrowConnection(c) ==
  /\ pc[c] = "pool"
  /\ IF Reuse /\ PoolOf(c) # <<>>
       THEN /\ hand' = [hand EXCEPT ![c] = Top(PoolOf(c))]
            /\ Goto(c, "alive")
       ELSE /\ Goto(c, "connect")
            /\ UNCHANGED hand
  /\ UNCHANGED <<lockVars, pool, session, callVars>>

\* _get_pooled_connection, get_nowait; empty() and queue.Empty both mean
\* that a new connection is needed.
PopConnection(c) ==
  /\ pc[c] = "pool"
  /\ IF Reuse /\ PoolOf(c) # <<>>
       THEN /\ hand' = [hand EXCEPT ![c] = Top(PoolOf(c))]
            /\ pool' = [pool EXCEPT ![ProcessOf[c]] = Below(PoolOf(c))]
            /\ Goto(c, "alive")
       ELSE /\ Goto(c, "connect")
            /\ UNCHANGED <<pool, hand>>
  /\ UNCHANGED <<lockVars, session, callVars>>

\* is_alive: a session that has just been dropped may still look alive.
FoundAlive(c) ==
  /\ pc[c] = "alive"
  /\ Goto(c, "use")
  /\ UNCHANGED <<lockVars, connVars, callVars>>

\* conn.disconnect() closes net_connect.
Disconnect(c) ==
  /\ session' = [session EXCEPT ![hand[c]] = "closed"]
  /\ hand' = [hand EXCEPT ![c] = NoConnection]

\* Mutant: dead connections are forgotten and not disconnected.
ForgetDead(c) ==
  /\ pc[c] = "alive"
  /\ session[hand[c]] = "dropped"
  /\ hand' = [hand EXCEPT ![c] = NoConnection]
  /\ Goto(c, "pool")
  /\ UNCHANGED <<lockVars, pool, session, callVars>>

\* A dead connection is disconnected, and the loop goes on.
FoundDead(c) ==
  /\ pc[c] = "alive"
  /\ session[hand[c]] = "dropped"
  /\ Disconnect(c)
  /\ Goto(c, "pool")
  /\ UNCHANGED <<lockVars, pool, callVars>>

\* _connect_with_retry.
Connect(c) ==
  /\ pc[c] = "connect"
  /\ session' = [session EXCEPT ![<<c, attempt[c]>>] = "open"]
  /\ hand' = [hand EXCEPT ![c] = <<c, attempt[c]>>]
  /\ Goto(c, "use")
  /\ UNCHANGED <<lockVars, pool, callVars>>

\* What follows the with block of _get_connection: PoolLock.__exit__, or the
\* return of a query, which turns every exception into a careful answer.
Leave(c) == Goto(c, IF c \in Queries THEN "done" ELSE "unlock")

\* No connection after ngs_ssh_connect_timeout: GenericSwitchNetmikoConnectError.
ConnectFails(c) ==
  /\ "connect" \in Faults
  /\ pc[c] = "connect"
  /\ raised' = [raised EXCEPT ![c] = TRUE]
  /\ Leave(c)
  /\ UNCHANGED <<lockVars, connVars, attempt, rejected, result, ran>>

\* send_config_set, or send_command of a query, returns an output.
Use(c) ==
  /\ pc[c] = "use"
  /\ session[hand[c]] = "open"
  /\ ran' = [ran EXCEPT ![c] = @ + 1]
  /\ \E bad \in BOOLEAN :
       /\ bad => "rejected" \in Faults /\ c \in Senders
       /\ rejected' = [rejected EXCEPT ![c] = bad]
  /\ Goto(c, IF SaveConfig /\ c \in Senders THEN "save" ELSE "put")
  /\ UNCHANGED <<lockVars, connVars, attempt, raised, result>>

\* send_config_set raises, before or after the switch has run the commands.
UseFails(c) ==
  /\ pc[c] = "use"
  /\ session[hand[c]] = "dropped" \/ "command" \in Faults
  /\ \E times \in {0, 1} :
       /\ times = 1 => session[hand[c]] = "open"
       /\ ran' = [ran EXCEPT ![c] = @ + times]
  /\ raised' = [raised EXCEPT ![c] = TRUE]
  /\ Goto(c, "abort")
  /\ UNCHANGED <<lockVars, connVars, attempt, rejected, result>>

\* save_configuration.
Save(c) ==
  /\ pc[c] = "save"
  /\ session[hand[c]] = "open"
  /\ Goto(c, "put")
  /\ UNCHANGED <<lockVars, connVars, callVars>>

SaveFails(c) ==
  /\ pc[c] = "save"
  /\ session[hand[c]] = "dropped" \/ "command" \in Faults
  /\ raised' = [raised EXCEPT ![c] = TRUE]
  /\ Goto(c, "abort")
  /\ UNCHANGED <<lockVars, connVars, attempt, rejected, result, ran>>

\* The with block is left without an exception: put_nowait, or disconnect
\* when the pool is full or there is none (netmiko's own __exit__).
PutBack(c) ==
  /\ pc[c] = "put"
  /\ IF Reuse /\ Len(PoolOf(c)) < MaxConnections
       THEN /\ pool' = [pool EXCEPT ![ProcessOf[c]] =
                          Append(PoolOf(c), hand[c])]
            /\ hand' = [hand EXCEPT ![c] = NoConnection]
            /\ UNCHANGED session
       ELSE /\ Disconnect(c)
            /\ UNCHANGED pool
  /\ Leave(c)
  /\ UNCHANGED <<lockVars, callVars>>

\* The with block is left by an exception.
Abort(c) ==
  /\ pc[c] = "abort"
  /\ Disconnect(c)
  /\ Leave(c)
  /\ UNCHANGED <<lockVars, pool, callVars>>

-----------------------------------------------------------------------------
(* send_commands_to_device and check_output.                               *)

\* Mutant: the retry may be retried.
RetryAlways(c) ==
  /\ pc[c] = "failed"
  /\ Reuse
  /\ attempt' = [attempt EXCEPT ![c] = 2]
  /\ raised' = [raised EXCEPT ![c] = FALSE]
  /\ nextName' = [nextName EXCEPT ![c] = 0]
  /\ Enter(c)
  /\ UNCHANGED <<holder, connVars, rejected, result, ran>>

\* Any exception of the first attempt is answered by a second one.
Retry(c) ==
  /\ pc[c] = "failed"
  /\ Reuse
  /\ attempt[c] = 1
  /\ attempt' = [attempt EXCEPT ![c] = 2]
  /\ raised' = [raised EXCEPT ![c] = FALSE]
  /\ nextName' = [nextName EXCEPT ![c] = 0]
  /\ Enter(c)
  /\ UNCHANGED <<holder, connVars, rejected, result, ran>>

RaiseError(c) ==
  /\ pc[c] = "failed"
  /\ ~Reuse \/ attempt[c] = 2
  /\ result' = [result EXCEPT ![c] = "error"]
  /\ Goto(c, "done")
  /\ UNCHANGED <<lockVars, connVars, attempt, raised, rejected, ran>>

\* check_output of the decorator, after send_commands_to_device.
CheckOutput(c) ==
  /\ pc[c] = "output"
  /\ IF rejected[c]
       THEN /\ Goto(c, "drain")
            /\ UNCHANGED result
       ELSE /\ result' = [result EXCEPT ![c] = "ok"]
            /\ Goto(c, "done")
  /\ UNCHANGED <<lockVars, connVars, attempt, raised, rejected, ran>>

\* _drain_cached_connections, one connection at a time.
Drain(c) ==
  /\ pc[c] = "drain"
  /\ IF PoolOf(c) # <<>>
       THEN /\ session' = [session EXCEPT ![Top(PoolOf(c))] = "closed"]
            /\ pool' = [pool EXCEPT ![ProcessOf[c]] = Below(PoolOf(c))]
            /\ UNCHANGED <<pc, result>>
       ELSE /\ result' = [result EXCEPT ![c] = "error"]
            /\ Goto(c, "done")
            /\ UNCHANGED <<pool, session>>
  /\ UNCHANGED <<lockVars, hand, attempt, raised, rejected, ran>>

-----------------------------------------------------------------------------
(* The environment.                                                        *)

Drop(k) ==
  /\ "drop" \in Faults
  /\ session[k] = "open"
  /\ session' = [session EXCEPT ![k] = "dropped"]
  /\ UNCHANGED <<lockVars, pool, hand, callVars, pc>>

\* A process dies with its threads; its sessions end, its locks stay.
Crash(p) ==
  LET dead == {c \in Calls : ProcessOf[c] = p} IN
  /\ "crash" \in Faults
  /\ \E c \in dead : pc[c] # "crashed"
  /\ pc' = [c \in Calls |-> IF c \in dead THEN "crashed" ELSE pc[c]]
  /\ hand' = [c \in Calls |-> IF c \in dead THEN NoConnection ELSE hand[c]]
  /\ pool' = [pool EXCEPT ![p] = <<>>]
  /\ session' = [k \in Connections |->
                   IF k[1] \in dead /\ session[k] # "none"
                     THEN "closed" ELSE session[k]]
  /\ UNCHANGED <<lockVars, callVars>>

\* The coordination service forgets the locks of a dead process.
ExpireLock(n) ==
  /\ holder[n] \in Calls
  /\ pc[holder[n]] = "crashed"
  /\ holder' = [holder EXCEPT ![n] = NoCall]
  /\ UNCHANGED <<nextName, connVars, callVars, pc>>

\* What the code itself does, without the faults of the environment.
Step(c) ==
  \/ Start(c) \/ TryLock(c) \/ Unlock(c)
  \/ PopConnection(c) \/ FoundAlive(c) \/ FoundDead(c) \/ Connect(c)
  \/ Use(c) \/ UseFails(c) \/ Save(c) \/ SaveFails(c) \/ PutBack(c) \/ Abort(c)
  \/ Retry(c) \/ RaiseError(c) \/ CheckOutput(c) \/ Drain(c)

Fault(c) == AcquireTimeout(c) \/ ConnectFails(c)

Over(c) == pc[c] \in {"done", "crashed"}

\* Every call has ended and every lock of the dead is gone.
Terminated ==
  /\ \A c \in Calls : Over(c)
  /\ \A n \in LockNames : holder[n] = NoCall
  /\ UNCHANGED vars

Next ==
  \/ \E c \in Calls : Step(c) \/ Fault(c)
  \/ \E k \in Connections : Drop(k)
  \/ \E p \in Processes : Crash(p)
  \/ \E n \in LockNames : ExpireLock(n)
  \/ Terminated

Spec == Init /\ [][Next]_vars

\* Threads run, and the coordination service expires the locks of the dead.
Fairness ==
  /\ \A c \in Calls : WF_vars(Step(c))
  /\ \A n \in LockNames : WF_vars(ExpireLock(n))

FairSpec == Spec /\ Fairness

-----------------------------------------------------------------------------
(* Properties.                                                             *)

Elements(s) == {s[i] : i \in DOMAIN s}

\* What a call has in its hand nobody else has, and no pool.
HandsApart ==
  \A c \in Calls : hand[c] # NoConnection =>
    /\ session[hand[c]] \in {"open", "dropped"}
    /\ ProcessOf[hand[c][1]] = ProcessOf[c]
    /\ hand[c] \notin Elements(PoolOf(c))
    /\ \A d \in Calls \ {c} : hand[d] # hand[c]

\* Connections are pooled once, in the process that opened them.
PoolsApart ==
  \A p \in Processes : \A i \in DOMAIN pool[p] :
    /\ session[pool[p][i]] \in {"open", "dropped"}
    /\ ProcessOf[pool[p][i][1]] = p
    /\ \A j \in DOMAIN pool[p] : pool[p][i] = pool[p][j] => i = j

\* A connection is in one place: in the hand of one call, or once in the
\* pool of the process that opened it; and it has not been disconnected.
\* Were it in two places, the commands of two calls would mix in one shell.
OnePlace == HandsApart /\ PoolsApart

Sessions == {k \in Connections : session[k] \in {"open", "dropped"}}

Pooled == UNION {Elements(pool[p]) : p \in Processes}

\* No session leaks, whatever fails: each one that was not disconnected can
\* still be reused, drained or closed by somebody.
NoLeak == \A k \in Sessions : k \in Pooled \/ \E c \in Calls : hand[c] = k

\* ngs_max_connections "maximum number of concurrent sessions to the device"
\* (doc/source/configuration.rst:84): idle sessions of the pools included.
SessionsBounded == Cardinality(Sessions) <= MaxConnections

\* A call that succeeded ran its commands; one that is retried may run them
\* twice, never more, and without reuse at most once.
RunsOnce ==
  \A c \in Calls :
    /\ result[c] = "ok" => ran[c] >= 1
    /\ ran[c] <= IF Reuse THEN 2 ELSE 1

\* Every call ends, whoever drops sessions or dies with a lock.
CallsEnd == \A c \in Calls : pc[c] # "idle" ~> Over(c)
=============================================================================
