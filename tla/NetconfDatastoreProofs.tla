----------------------- MODULE NetconfDatastoreProofs -----------------------
(***************************************************************************)
(* Proofs about NetconfDatastore, for any calls, items, switches and       *)
(* faults: what is reported as done stays configured, edits are atomic,    *)
(* and where a confirming commit does not fail under the lock, nobody      *)
(* commits what others have edited and nothing remains of a failed edit.   *)
(*                                                                         *)
(* The invariant has three parts.  Control relates the calls to the lock   *)
(* and the sessions of the switch.  Stored says that every datastore which *)
(* is running, or may become so, has what was done.  Reverted says what    *)
(* the datastores do not have.                                             *)
(***************************************************************************)
EXTENDS NetconfDatastore, TLAPS

\* Within client.locked.
Holding == Configuring \cup {"unlock"}

\* The call has reported, or is going to report, that it is done.
Finished(c) ==
  /\ scenario.target # "none"
  /\ raised[c] = "none"
  /\ pc[c] \in {"unlock", "close", "done"}

\* The candidate is the call's: it was discarded and not yet committed.
Editing(c) ==
  /\ scenario.target = "candidate"
  /\ session[c]
  /\ pc[c] \in {"edit", "confirm", "commit"}

-----------------------------------------------------------------------------
(* Control                                                                 *)

\* A call within client.locked has the lock while its session lives, and the
\* switch keeps the lock of a call for no longer.
Locked(c) ==
  /\ session[c] => pc[c] \in InSession \cup {"crashed"}
  /\ session[c] /\ pc[c] \in Holding => lock = c
  /\ lock = c => session[c] /\ pc[c] \in Holding \cup {"crashed"}

\* Steps that only some switches have, and those without an exception.
Placed(c) ==
  /\ pc[c] \in {"idle", "pool", "connect", "lock"} \cup Configuring
       => raised[c] = "none"
  /\ pc[c] \in {"discard", "confirm", "commit"} => scenario.target = "candidate"
  /\ pc[c] = "confirm" => scenario.confirmed
  /\ pc[c] = "save" => scenario.target = "running" /\ scenario.saves
  /\ pc[c] \in Holding \cup {"lock", "clear", "again"}
       => scenario.target # "none"

\* left says where a session was lost, once it is.
Noted(c) ==
  /\ pc[c] # "crashed" /\ left[c] # "none" =>
       ~session[c] /\ pc[c] \notin {"idle", "pool", "connect"}
  /\ ~session[c] /\ Finished(c) /\ pc[c] # "done"
       => left[c] \in {"unlock", "close"}

\* An unconfirmed commit is of a call that has the lock, unless the
\* confirming commit may fail.
Own ==
  pending # NoCall =>
    /\ scenario.target = "candidate"
    /\ scenario.confirmed
    /\ ~MayStayUnconfirmed =>
         lock = pending /\ pc[pending] \in {"commit", "crashed"}

Control == TypeOK /\ Own /\ \A c \in Calls : Locked(c) /\ Placed(c) /\ Noted(c)

-----------------------------------------------------------------------------
(* What the datastores have                                                *)

\* No call is in the datastore in part.
Whole(store) ==
  \A c \in Calls : (\E i \in Items : store[i] = c) => Has(store, c)

\* What may become the running configuration.
Good(store) ==
  /\ \A c \in Calls : Finished(c) => Has(store, c)
  /\ scenario.target = "candidate" => Whole(store)

Stored ==
  /\ Good(running)
  /\ pending # NoCall => Good(before)
  /\ \A c \in Calls :
       /\ Editing(c) => Good(candidate)
       /\ Editing(c) /\ pc[c] # "edit" => Has(candidate, c)
       /\ pc[c] = "save" => Has(running, c)
       /\ Finished(c) /\ scenario.target = "running" /\ scenario.saves
            => Has(startup, c)

-----------------------------------------------------------------------------
(* What the datastores do not have                                         *)

Lacks(store, c) == \A i \in Items : store[i] # c

Same(S, T, c) == \A i \in Items \ ItemsOf[c] : S[i] = T[i]

Uncommitted(c) == ~Finished(c) /\ left[c] \notin {"unlock", "close"}

\* The edit of a call that has not committed is at most in its own
\* candidate, and in the running configuration that is to be rolled back.
Gone(c) ==
  Uncommitted(c) =>
    /\ pending # c => Lacks(running, c)
    /\ pending # NoCall => Lacks(before, c)
    /\ \A d \in Calls \ {c} : Editing(d) => Lacks(candidate, c)

\* The candidate of a call differs from the running configuration by its edit.
Alone(c) ==
  Editing(c) => /\ Same(candidate, running, c)
                /\ pending = c => Same(before, running, c)

Reverted ==
  ~MayStayUnconfirmed /\ scenario.target = "candidate" =>
    \A c \in Calls : Gone(c) /\ Alone(c)

StoreInv == Control /\ Stored /\ Reverted

-----------------------------------------------------------------------------
(* Operators                                                               *)

\* Calls are neither the operator nor nobody.
LEMMA Names ==
  ASSUME NEW c \in Calls
  PROVE  c # NoCall /\ c # Operator /\ NoCall # Operator
BY NamesAssumption

\* A call writes items.
LEMMA ItemsType ==
  ASSUME NEW c \in Calls
  PROVE  ItemsOf[c] \subseteq Items
BY ItemsAssumption

\* An edit makes a datastore of a datastore.
LEMMA WrittenType ==
  ASSUME NEW store \in Stores, NEW c \in Calls, NEW items
  PROVE  Written(store, items, c) \in Stores
BY DEF Written, Stores, Writers

\* An edit leaves what other calls have where it was, or writes over it.
LEMMA WrittenHas ==
  ASSUME NEW store, NEW c \in Calls, NEW items \in SUBSET ItemsOf[c],
         NEW d \in Calls, Has(store, d)
  PROVE  Has(Written(store, items, c), d)
BY ItemsType DEF Has, Written

\* A whole edit is in the datastore.
LEMMA WrittenOwn ==
  ASSUME NEW store, NEW c \in Calls
  PROVE  Has(Written(store, ItemsOf[c], c), c)
BY ItemsType DEF Has, Written

\* A whole edit leaves no call in the datastore in part.
LEMMA WrittenWhole ==
  ASSUME NEW store, NEW c \in Calls, Whole(store)
  PROVE  Whole(Written(store, ItemsOf[c], c))
<1> DEFINE after == Written(store, ItemsOf[c], c)
<1> SUFFICES ASSUME NEW d \in Calls, NEW i \in Items, after[i] = d
             PROVE  Has(after, d)
  BY DEF Whole
<1>1. CASE d = c
  BY <1>1, WrittenOwn
<1>2. CASE d # c
  <2>1. store[i] = d
    BY <1>2 DEF Written
  <2>2. Has(store, d)
    BY <2>1 DEF Whole
  <2> QED BY <2>2, WrittenHas
<1> QED BY <1>1, <1>2

-----------------------------------------------------------------------------
(* Control                                                                 *)

\* Every step keeps the types.
LEMMA TypeStep ==
  ASSUME TypeOK, [Next]_vars
  PROVE  TypeOK'
<1> USE WrittenType, BoundsAssumption DEF TypeOK, Stores, Writers, Steps,
        switchVars, storeVars, callVars
<1>1. ASSUME NEW c \in Calls, Start(c), UNCHANGED scenario PROVE TypeOK'
  BY <1>1 DEF Start, Goto
<1>2. ASSUME NEW c \in Calls, EnterPool(c), UNCHANGED scenario PROVE TypeOK'
  BY <1>2 DEF EnterPool, Goto
<1>3. ASSUME NEW c \in Calls, Connect(c), UNCHANGED scenario PROVE TypeOK'
  BY <1>3 DEF Connect, Goto
<1>4. ASSUME NEW c \in Calls, NoConnection(c), UNCHANGED scenario
      PROVE  TypeOK'
  BY <1>4 DEF NoConnection, Goto, Raise
<1>5. ASSUME NEW c \in Calls, LockGranted(c), UNCHANGED scenario PROVE TypeOK'
  BY <1>5 DEF LockGranted, Goto
<1>6. ASSUME NEW c \in Calls, LockDenied(c), UNCHANGED scenario PROVE TypeOK'
  BY <1>6 DEF LockDenied, Goto
<1>7. ASSUME NEW c \in Calls, ClearCandidate(c), UNCHANGED scenario
      PROVE  TypeOK'
  BY <1>7 DEF ClearCandidate, Goto, Raise
<1>8. ASSUME NEW c \in Calls, Retry(c), UNCHANGED scenario PROVE TypeOK'
  BY <1>8 DEF Retry, Goto, Raise
<1>9. ASSUME NEW c \in Calls, Discard(c), UNCHANGED scenario PROVE TypeOK'
  BY <1>9 DEF Discard, Goto
<1>10. ASSUME NEW c \in Calls, Edit(c), UNCHANGED scenario PROVE TypeOK'
  BY <1>10 DEF Edit, Goto, EditTarget
<1>11. ASSUME NEW c \in Calls, ConfirmedCommit(c), UNCHANGED scenario
       PROVE  TypeOK'
  BY <1>11 DEF ConfirmedCommit, Goto, MayCommit
<1>12. ASSUME NEW c \in Calls, Commit(c), UNCHANGED scenario PROVE TypeOK'
  BY <1>12 DEF Commit, Goto, MayCommit
<1>13. ASSUME NEW c \in Calls, Save(c), UNCHANGED scenario PROVE TypeOK'
  BY <1>13 DEF Save, Goto
<1>14. ASSUME NEW c \in Calls, RpcFails(c), UNCHANGED scenario PROVE TypeOK'
  BY <1>14 DEF RpcFails, Goto, Raise, EditTarget, Errors
<1>15. ASSUME NEW c \in Calls, Unlock(c), UNCHANGED scenario PROVE TypeOK'
  BY <1>15 DEF Unlock, Goto
<1>16. ASSUME NEW c \in Calls, FindLost(c), UNCHANGED scenario PROVE TypeOK'
  BY <1>16 DEF FindLost, Goto, Raise
<1>17. ASSUME NEW c \in Calls, Close(c), UNCHANGED scenario PROVE TypeOK'
  BY <1>17 DEF Close, Goto, EndSession, RollBack, Raise
<1>18. ASSUME NEW c \in Calls, LoseSession(c), UNCHANGED scenario
       PROVE  TypeOK'
  BY <1>18 DEF LoseSession, EndSession, RollBack
<1>19. ASSUME NEW c \in Calls, Crash(c), UNCHANGED scenario PROVE TypeOK'
  BY <1>19 DEF Crash, Goto
<1>20. ASSUME NEW c \in Calls, NoticeCrash(c), UNCHANGED scenario
       PROVE  TypeOK'
  BY <1>20 DEF NoticeCrash, EndSession, RollBack
<1>21. ASSUME NEW c \in Calls, ExpireSlot(c), UNCHANGED scenario PROVE TypeOK'
  BY <1>21 DEF ExpireSlot
<1>22. ASSUME ConfirmTimeout, UNCHANGED scenario PROVE TypeOK'
  BY <1>22 DEF ConfirmTimeout, RollBack
<1>23. ASSUME OperatorEdits, UNCHANGED scenario PROVE TypeOK'
  BY <1>23 DEF OperatorEdits
<1>24. ASSUME OperatorLocks, UNCHANGED scenario PROVE TypeOK'
  BY <1>24 DEF OperatorLocks
<1>25. ASSUME OperatorUnlocks, UNCHANGED scenario PROVE TypeOK'
  BY <1>25 DEF OperatorUnlocks
<1>26. ASSUME Terminated, UNCHANGED scenario PROVE TypeOK'
  BY <1>26 DEF Terminated
<1>27. CASE UNCHANGED vars
  BY <1>27 DEF vars
<1> QED BY <1>1, <1>2, <1>3, <1>4, <1>5, <1>6, <1>7, <1>8, <1>9, <1>10, <1>11,
           <1>12, <1>13, <1>14, <1>15, <1>16, <1>17, <1>18, <1>19, <1>20,
           <1>21, <1>22, <1>23, <1>24, <1>25, <1>26, <1>27 DEF Next, Step

\* An unconfirmed commit keeps its owner.
LEMMA OwnStep ==
  ASSUME Control, [Next]_vars
  PROVE  Own'
<1> USE NamesAssumption DEF Control, TypeOK, Own, Locked, Placed,
        MayStayUnconfirmed, Configuring, Holding, InSession, switchVars,
        storeVars, callVars
<1>1. ASSUME NEW c \in Calls, Start(c), UNCHANGED scenario PROVE Own'
  BY <1>1 DEF Start, Goto
<1>2. ASSUME NEW c \in Calls, EnterPool(c), UNCHANGED scenario PROVE Own'
  BY <1>2 DEF EnterPool, Goto
<1>3. ASSUME NEW c \in Calls, Connect(c), UNCHANGED scenario PROVE Own'
  BY <1>3 DEF Connect, Goto
<1>4. ASSUME NEW c \in Calls, NoConnection(c), UNCHANGED scenario PROVE Own'
  BY <1>4 DEF NoConnection, Goto, Raise
<1>5. ASSUME NEW c \in Calls, LockGranted(c), UNCHANGED scenario PROVE Own'
  BY <1>5 DEF LockGranted, Goto
<1>6. ASSUME NEW c \in Calls, LockDenied(c), UNCHANGED scenario PROVE Own'
  BY <1>6 DEF LockDenied, Goto
<1>7. ASSUME NEW c \in Calls, ClearCandidate(c), UNCHANGED scenario PROVE Own'
  BY <1>7 DEF ClearCandidate, Goto, Raise
<1>8. ASSUME NEW c \in Calls, Retry(c), UNCHANGED scenario PROVE Own'
  BY <1>8 DEF Retry, Goto, Raise
<1>9. ASSUME NEW c \in Calls, Discard(c), UNCHANGED scenario PROVE Own'
  BY <1>9 DEF Discard, Goto
<1>10. ASSUME NEW c \in Calls, Edit(c), UNCHANGED scenario PROVE Own'
  BY <1>10 DEF Edit, Goto, EditTarget
<1>11. ASSUME NEW c \in Calls, ConfirmedCommit(c), UNCHANGED scenario
       PROVE  Own'
  BY <1>11 DEF ConfirmedCommit, Goto, MayCommit
<1>12. ASSUME NEW c \in Calls, Commit(c), UNCHANGED scenario PROVE Own'
  BY <1>12 DEF Commit, Goto, MayCommit
<1>13. ASSUME NEW c \in Calls, Save(c), UNCHANGED scenario PROVE Own'
  BY <1>13 DEF Save, Goto
<1>14. ASSUME NEW c \in Calls, RpcFails(c), UNCHANGED scenario PROVE Own'
  <2>1. CASE pending = NoCall
    BY <1>14, <2>1 DEF RpcFails
  <2>2. CASE pending # NoCall /\ pending # c
    BY <1>14, <2>2 DEF RpcFails, Goto
  <2>3. CASE pending = c /\ pc[c] # "commit"
    BY <1>14, <2>3 DEF RpcFails, Goto
  <2>4. CASE pending = c /\ pc[c] = "commit"
    <3>1. Errors(c) # {}
      BY <1>14 DEF RpcFails
    <3>2. MayStayUnconfirmed
      BY <1>14, <2>4, <3>1 DEF RpcFails, Errors, MayCommit
    <3> QED BY <1>14, <2>4, <3>2 DEF RpcFails
  <2> QED BY <2>1, <2>2, <2>3, <2>4
<1>15. ASSUME NEW c \in Calls, Unlock(c), UNCHANGED scenario PROVE Own'
  BY <1>15 DEF Unlock, Goto
<1>16. ASSUME NEW c \in Calls, FindLost(c), UNCHANGED scenario PROVE Own'
  BY <1>16 DEF FindLost, Goto, Raise
<1>17. ASSUME NEW c \in Calls, Close(c), UNCHANGED scenario PROVE Own'
  BY <1>17 DEF Close, Goto, EndSession, RollBack, Raise
<1>18. ASSUME NEW c \in Calls, LoseSession(c), UNCHANGED scenario PROVE Own'
  BY <1>18 DEF LoseSession, EndSession, RollBack
<1>19. ASSUME NEW c \in Calls, Crash(c), UNCHANGED scenario PROVE Own'
  BY <1>19 DEF Crash, Goto
<1>20. ASSUME NEW c \in Calls, NoticeCrash(c), UNCHANGED scenario PROVE Own'
  BY <1>20 DEF NoticeCrash, EndSession, RollBack
<1>21. ASSUME NEW c \in Calls, ExpireSlot(c), UNCHANGED scenario PROVE Own'
  BY <1>21 DEF ExpireSlot
<1>22. ASSUME ConfirmTimeout, UNCHANGED scenario PROVE Own'
  BY <1>22 DEF ConfirmTimeout, RollBack
<1>23. ASSUME OperatorEdits, UNCHANGED scenario PROVE Own'
  BY <1>23 DEF OperatorEdits
<1>24. ASSUME OperatorLocks, UNCHANGED scenario PROVE Own'
  BY <1>24 DEF OperatorLocks
<1>25. ASSUME OperatorUnlocks, UNCHANGED scenario PROVE Own'
  BY <1>25 DEF OperatorUnlocks
<1>26. ASSUME Terminated, UNCHANGED scenario PROVE Own'
  BY <1>26 DEF Terminated
<1>27. CASE UNCHANGED vars
  BY <1>27 DEF vars
<1> QED BY <1>1, <1>2, <1>3, <1>4, <1>5, <1>6, <1>7, <1>8, <1>9, <1>10, <1>11,
           <1>12, <1>13, <1>14, <1>15, <1>16, <1>17, <1>18, <1>19, <1>20,
           <1>21, <1>22, <1>23, <1>24, <1>25, <1>26, <1>27 DEF Next, Step

\* Locks and sessions stay in step with the calls.
LEMMA LockedStep ==
  ASSUME Control, [Next]_vars
  PROVE  \A d \in Calls : Locked(d)'
<1> USE NamesAssumption DEF Control, TypeOK, Locked, Configuring, Holding,
        InSession, switchVars, storeVars, callVars
<1>1. ASSUME NEW c \in Calls, Start(c), UNCHANGED scenario
      PROVE  \A d \in Calls : Locked(d)'
  BY <1>1 DEF Start, Goto
<1>2. ASSUME NEW c \in Calls, EnterPool(c), UNCHANGED scenario
      PROVE  \A d \in Calls : Locked(d)'
  BY <1>2 DEF EnterPool, Goto
<1>3. ASSUME NEW c \in Calls, Connect(c), UNCHANGED scenario
      PROVE  \A d \in Calls : Locked(d)'
  BY <1>3 DEF Connect, Goto
<1>4. ASSUME NEW c \in Calls, NoConnection(c), UNCHANGED scenario
      PROVE  \A d \in Calls : Locked(d)'
  BY <1>4 DEF NoConnection, Goto, Raise
<1>5. ASSUME NEW c \in Calls, LockGranted(c), UNCHANGED scenario
      PROVE  \A d \in Calls : Locked(d)'
  BY <1>5 DEF LockGranted, Goto
<1>6. ASSUME NEW c \in Calls, LockDenied(c), UNCHANGED scenario
      PROVE  \A d \in Calls : Locked(d)'
  BY <1>6 DEF LockDenied, Goto
<1>7. ASSUME NEW c \in Calls, ClearCandidate(c), UNCHANGED scenario
      PROVE  \A d \in Calls : Locked(d)'
  BY <1>7 DEF ClearCandidate, Goto, Raise
<1>8. ASSUME NEW c \in Calls, Retry(c), UNCHANGED scenario
      PROVE  \A d \in Calls : Locked(d)'
  BY <1>8 DEF Retry, Goto, Raise
<1>9. ASSUME NEW c \in Calls, Discard(c), UNCHANGED scenario
      PROVE  \A d \in Calls : Locked(d)'
  BY <1>9 DEF Discard, Goto
<1>10. ASSUME NEW c \in Calls, Edit(c), UNCHANGED scenario
       PROVE  \A d \in Calls : Locked(d)'
  BY <1>10 DEF Edit, Goto, EditTarget
<1>11. ASSUME NEW c \in Calls, ConfirmedCommit(c), UNCHANGED scenario
       PROVE  \A d \in Calls : Locked(d)'
  BY <1>11 DEF ConfirmedCommit, Goto, MayCommit
<1>12. ASSUME NEW c \in Calls, Commit(c), UNCHANGED scenario
       PROVE  \A d \in Calls : Locked(d)'
  BY <1>12 DEF Commit, Goto, MayCommit
<1>13. ASSUME NEW c \in Calls, Save(c), UNCHANGED scenario
       PROVE  \A d \in Calls : Locked(d)'
  BY <1>13 DEF Save, Goto
<1>14. ASSUME NEW c \in Calls, RpcFails(c), UNCHANGED scenario
       PROVE  \A d \in Calls : Locked(d)'
  BY <1>14 DEF RpcFails, Goto, Raise, EditTarget, Errors
<1>15. ASSUME NEW c \in Calls, Unlock(c), UNCHANGED scenario
       PROVE  \A d \in Calls : Locked(d)'
  BY <1>15 DEF Unlock, Goto
<1>16. ASSUME NEW c \in Calls, FindLost(c), UNCHANGED scenario
       PROVE  \A d \in Calls : Locked(d)'
  BY <1>16 DEF FindLost, Goto, Raise
<1>17. ASSUME NEW c \in Calls, Close(c), UNCHANGED scenario
       PROVE  \A d \in Calls : Locked(d)'
  BY <1>17 DEF Close, Goto, EndSession, RollBack, Raise
<1>18. ASSUME NEW c \in Calls, LoseSession(c), UNCHANGED scenario
       PROVE  \A d \in Calls : Locked(d)'
  BY <1>18 DEF LoseSession, EndSession, RollBack
<1>19. ASSUME NEW c \in Calls, Crash(c), UNCHANGED scenario
       PROVE  \A d \in Calls : Locked(d)'
  BY <1>19 DEF Crash, Goto
<1>20. ASSUME NEW c \in Calls, NoticeCrash(c), UNCHANGED scenario
       PROVE  \A d \in Calls : Locked(d)'
  BY <1>20 DEF NoticeCrash, EndSession, RollBack
<1>21. ASSUME NEW c \in Calls, ExpireSlot(c), UNCHANGED scenario
       PROVE  \A d \in Calls : Locked(d)'
  BY <1>21 DEF ExpireSlot
<1>22. ASSUME ConfirmTimeout, UNCHANGED scenario
       PROVE  \A d \in Calls : Locked(d)'
  BY <1>22 DEF ConfirmTimeout, RollBack
<1>23. ASSUME OperatorEdits, UNCHANGED scenario
       PROVE  \A d \in Calls : Locked(d)'
  BY <1>23 DEF OperatorEdits
<1>24. ASSUME OperatorLocks, UNCHANGED scenario
       PROVE  \A d \in Calls : Locked(d)'
  BY <1>24 DEF OperatorLocks
<1>25. ASSUME OperatorUnlocks, UNCHANGED scenario
       PROVE  \A d \in Calls : Locked(d)'
  BY <1>25 DEF OperatorUnlocks
<1>26. ASSUME Terminated, UNCHANGED scenario PROVE \A d \in Calls : Locked(d)'
  BY <1>26 DEF Terminated
<1>27. CASE UNCHANGED vars
  BY <1>27 DEF vars
<1> QED BY <1>1, <1>2, <1>3, <1>4, <1>5, <1>6, <1>7, <1>8, <1>9, <1>10, <1>11,
           <1>12, <1>13, <1>14, <1>15, <1>16, <1>17, <1>18, <1>19, <1>20,
           <1>21, <1>22, <1>23, <1>24, <1>25, <1>26, <1>27 DEF Next, Step

\* Calls stay where the switch has them.
LEMMA PlacedStep ==
  ASSUME Control, [Next]_vars
  PROVE  \A d \in Calls : Placed(d)'
<1> USE ScenariosAssumption DEF Control, TypeOK, Placed, Configuring, Holding,
        AllScenarios, switchVars, storeVars, callVars
<1>1. ASSUME NEW c \in Calls, Start(c), UNCHANGED scenario
      PROVE  \A d \in Calls : Placed(d)'
  BY <1>1 DEF Start, Goto
<1>2. ASSUME NEW c \in Calls, EnterPool(c), UNCHANGED scenario
      PROVE  \A d \in Calls : Placed(d)'
  BY <1>2 DEF EnterPool, Goto
<1>3. ASSUME NEW c \in Calls, Connect(c), UNCHANGED scenario
      PROVE  \A d \in Calls : Placed(d)'
  BY <1>3 DEF Connect, Goto
<1>4. ASSUME NEW c \in Calls, NoConnection(c), UNCHANGED scenario
      PROVE  \A d \in Calls : Placed(d)'
  BY <1>4 DEF NoConnection, Goto, Raise
<1>5. ASSUME NEW c \in Calls, LockGranted(c), UNCHANGED scenario
      PROVE  \A d \in Calls : Placed(d)'
  BY <1>5 DEF LockGranted, Goto
<1>6. ASSUME NEW c \in Calls, LockDenied(c), UNCHANGED scenario
      PROVE  \A d \in Calls : Placed(d)'
  BY <1>6 DEF LockDenied, Goto
<1>7. ASSUME NEW c \in Calls, ClearCandidate(c), UNCHANGED scenario
      PROVE  \A d \in Calls : Placed(d)'
  BY <1>7 DEF ClearCandidate, Goto, Raise
<1>8. ASSUME NEW c \in Calls, Retry(c), UNCHANGED scenario
      PROVE  \A d \in Calls : Placed(d)'
  BY <1>8 DEF Retry, Goto, Raise
<1>9. ASSUME NEW c \in Calls, Discard(c), UNCHANGED scenario
      PROVE  \A d \in Calls : Placed(d)'
  BY <1>9 DEF Discard, Goto
<1>10. ASSUME NEW c \in Calls, Edit(c), UNCHANGED scenario
       PROVE  \A d \in Calls : Placed(d)'
  BY <1>10 DEF Edit, Goto, EditTarget
<1>11. ASSUME NEW c \in Calls, ConfirmedCommit(c), UNCHANGED scenario
       PROVE  \A d \in Calls : Placed(d)'
  BY <1>11 DEF ConfirmedCommit, Goto, MayCommit
<1>12. ASSUME NEW c \in Calls, Commit(c), UNCHANGED scenario
       PROVE  \A d \in Calls : Placed(d)'
  BY <1>12 DEF Commit, Goto, MayCommit
<1>13. ASSUME NEW c \in Calls, Save(c), UNCHANGED scenario
       PROVE  \A d \in Calls : Placed(d)'
  BY <1>13 DEF Save, Goto
<1>14. ASSUME NEW c \in Calls, RpcFails(c), UNCHANGED scenario
       PROVE  \A d \in Calls : Placed(d)'
  BY <1>14 DEF RpcFails, Goto, Raise, EditTarget, Errors
<1>15. ASSUME NEW c \in Calls, Unlock(c), UNCHANGED scenario
       PROVE  \A d \in Calls : Placed(d)'
  BY <1>15 DEF Unlock, Goto
<1>16. ASSUME NEW c \in Calls, FindLost(c), UNCHANGED scenario
       PROVE  \A d \in Calls : Placed(d)'
  BY <1>16 DEF FindLost, Goto, Raise
<1>17. ASSUME NEW c \in Calls, Close(c), UNCHANGED scenario
       PROVE  \A d \in Calls : Placed(d)'
  BY <1>17 DEF Close, Goto, EndSession, RollBack, Raise
<1>18. ASSUME NEW c \in Calls, LoseSession(c), UNCHANGED scenario
       PROVE  \A d \in Calls : Placed(d)'
  BY <1>18 DEF LoseSession, EndSession, RollBack
<1>19. ASSUME NEW c \in Calls, Crash(c), UNCHANGED scenario
       PROVE  \A d \in Calls : Placed(d)'
  BY <1>19 DEF Crash, Goto
<1>20. ASSUME NEW c \in Calls, NoticeCrash(c), UNCHANGED scenario
       PROVE  \A d \in Calls : Placed(d)'
  BY <1>20 DEF NoticeCrash, EndSession, RollBack
<1>21. ASSUME NEW c \in Calls, ExpireSlot(c), UNCHANGED scenario
       PROVE  \A d \in Calls : Placed(d)'
  BY <1>21 DEF ExpireSlot
<1>22. ASSUME ConfirmTimeout, UNCHANGED scenario
       PROVE  \A d \in Calls : Placed(d)'
  BY <1>22 DEF ConfirmTimeout, RollBack
<1>23. ASSUME OperatorEdits, UNCHANGED scenario
       PROVE  \A d \in Calls : Placed(d)'
  BY <1>23 DEF OperatorEdits
<1>24. ASSUME OperatorLocks, UNCHANGED scenario
       PROVE  \A d \in Calls : Placed(d)'
  BY <1>24 DEF OperatorLocks
<1>25. ASSUME OperatorUnlocks, UNCHANGED scenario
       PROVE  \A d \in Calls : Placed(d)'
  BY <1>25 DEF OperatorUnlocks
<1>26. ASSUME Terminated, UNCHANGED scenario PROVE \A d \in Calls : Placed(d)'
  BY <1>26 DEF Terminated
<1>27. CASE UNCHANGED vars
  BY <1>27 DEF vars
<1> QED BY <1>1, <1>2, <1>3, <1>4, <1>5, <1>6, <1>7, <1>8, <1>9, <1>10, <1>11,
           <1>12, <1>13, <1>14, <1>15, <1>16, <1>17, <1>18, <1>19, <1>20,
           <1>21, <1>22, <1>23, <1>24, <1>25, <1>26, <1>27 DEF Next, Step

\* What was noted of lost sessions stays right.
LEMMA NotedStep ==
  ASSUME Control, [Next]_vars
  PROVE  \A d \in Calls : Noted(d)'
<1> USE DEF Control, TypeOK, Noted, Locked, Finished, Configuring, Holding,
        InSession, switchVars, storeVars, callVars
<1>1. ASSUME NEW c \in Calls, Start(c), UNCHANGED scenario
      PROVE  \A d \in Calls : Noted(d)'
  BY <1>1 DEF Start, Goto
<1>2. ASSUME NEW c \in Calls, EnterPool(c), UNCHANGED scenario
      PROVE  \A d \in Calls : Noted(d)'
  BY <1>2 DEF EnterPool, Goto
<1>3. ASSUME NEW c \in Calls, Connect(c), UNCHANGED scenario
      PROVE  \A d \in Calls : Noted(d)'
  BY <1>3 DEF Connect, Goto
<1>4. ASSUME NEW c \in Calls, NoConnection(c), UNCHANGED scenario
      PROVE  \A d \in Calls : Noted(d)'
  BY <1>4 DEF NoConnection, Goto, Raise
<1>5. ASSUME NEW c \in Calls, LockGranted(c), UNCHANGED scenario
      PROVE  \A d \in Calls : Noted(d)'
  BY <1>5 DEF LockGranted, Goto
<1>6. ASSUME NEW c \in Calls, LockDenied(c), UNCHANGED scenario
      PROVE  \A d \in Calls : Noted(d)'
  BY <1>6 DEF LockDenied, Goto
<1>7. ASSUME NEW c \in Calls, ClearCandidate(c), UNCHANGED scenario
      PROVE  \A d \in Calls : Noted(d)'
  BY <1>7 DEF ClearCandidate, Goto, Raise
<1>8. ASSUME NEW c \in Calls, Retry(c), UNCHANGED scenario
      PROVE  \A d \in Calls : Noted(d)'
  BY <1>8 DEF Retry, Goto, Raise
<1>9. ASSUME NEW c \in Calls, Discard(c), UNCHANGED scenario
      PROVE  \A d \in Calls : Noted(d)'
  BY <1>9 DEF Discard, Goto
<1>10. ASSUME NEW c \in Calls, Edit(c), UNCHANGED scenario
       PROVE  \A d \in Calls : Noted(d)'
  BY <1>10 DEF Edit, Goto, EditTarget
<1>11. ASSUME NEW c \in Calls, ConfirmedCommit(c), UNCHANGED scenario
       PROVE  \A d \in Calls : Noted(d)'
  BY <1>11 DEF ConfirmedCommit, Goto, MayCommit
<1>12. ASSUME NEW c \in Calls, Commit(c), UNCHANGED scenario
       PROVE  \A d \in Calls : Noted(d)'
  BY <1>12 DEF Commit, Goto, MayCommit
<1>13. ASSUME NEW c \in Calls, Save(c), UNCHANGED scenario
       PROVE  \A d \in Calls : Noted(d)'
  BY <1>13 DEF Save, Goto
<1>14. ASSUME NEW c \in Calls, RpcFails(c), UNCHANGED scenario
       PROVE  \A d \in Calls : Noted(d)'
  BY <1>14 DEF RpcFails, Goto, Raise, EditTarget, Errors
<1>15. ASSUME NEW c \in Calls, Unlock(c), UNCHANGED scenario
       PROVE  \A d \in Calls : Noted(d)'
  BY <1>15 DEF Unlock, Goto
<1>16. ASSUME NEW c \in Calls, FindLost(c), UNCHANGED scenario
       PROVE  \A d \in Calls : Noted(d)'
  BY <1>16 DEF FindLost, Goto, Raise
<1>17. ASSUME NEW c \in Calls, Close(c), UNCHANGED scenario
       PROVE  \A d \in Calls : Noted(d)'
  BY <1>17 DEF Close, Goto, EndSession, RollBack, Raise
<1>18. ASSUME NEW c \in Calls, LoseSession(c), UNCHANGED scenario
       PROVE  \A d \in Calls : Noted(d)'
  BY <1>18 DEF LoseSession, EndSession, RollBack
<1>19. ASSUME NEW c \in Calls, Crash(c), UNCHANGED scenario
       PROVE  \A d \in Calls : Noted(d)'
  BY <1>19 DEF Crash, Goto
<1>20. ASSUME NEW c \in Calls, NoticeCrash(c), UNCHANGED scenario
       PROVE  \A d \in Calls : Noted(d)'
  BY <1>20 DEF NoticeCrash, EndSession, RollBack
<1>21. ASSUME NEW c \in Calls, ExpireSlot(c), UNCHANGED scenario
       PROVE  \A d \in Calls : Noted(d)'
  BY <1>21 DEF ExpireSlot
<1>22. ASSUME ConfirmTimeout, UNCHANGED scenario
       PROVE  \A d \in Calls : Noted(d)'
  BY <1>22 DEF ConfirmTimeout, RollBack
<1>23. ASSUME OperatorEdits, UNCHANGED scenario
       PROVE  \A d \in Calls : Noted(d)'
  BY <1>23 DEF OperatorEdits
<1>24. ASSUME OperatorLocks, UNCHANGED scenario
       PROVE  \A d \in Calls : Noted(d)'
  BY <1>24 DEF OperatorLocks
<1>25. ASSUME OperatorUnlocks, UNCHANGED scenario
       PROVE  \A d \in Calls : Noted(d)'
  BY <1>25 DEF OperatorUnlocks
<1>26. ASSUME Terminated, UNCHANGED scenario PROVE \A d \in Calls : Noted(d)'
  BY <1>26 DEF Terminated
<1>27. CASE UNCHANGED vars
  BY <1>27 DEF vars
<1> QED BY <1>1, <1>2, <1>3, <1>4, <1>5, <1>6, <1>7, <1>8, <1>9, <1>10, <1>11,
           <1>12, <1>13, <1>14, <1>15, <1>16, <1>17, <1>18, <1>19, <1>20,
           <1>21, <1>22, <1>23, <1>24, <1>25, <1>26, <1>27 DEF Next, Step

\* Every step keeps the control part of the invariant.
LEMMA ControlStep ==
  ASSUME Control, [Next]_vars
  PROVE  Control'
<1>1. TypeOK
  BY DEF Control
<1> QED BY <1>1, TypeStep, OwnStep, LockedStep, PlacedStep, NotedStep
           DEF Control

-----------------------------------------------------------------------------
(* Steps that write nothing into the datastores                            *)

\* The call has not come to a step at which more is known of it.
NoNews(c) ==
  /\ Finished(c)' => Finished(c)
  /\ Editing(c)' => Editing(c) /\ pc'[c] = pc[c]
  /\ pc'[c] = "save" => pc[c] = "save"
  /\ Uncommitted(c)' => Uncommitted(c)

\* Nobody edits a candidate that changes.
CandidateFree == candidate' = candidate \/ \A c \in Calls : ~Editing(c)'

Quiet ==
  /\ \A c \in Calls : NoNews(c)
  /\ CandidateFree
  /\ UNCHANGED <<scenario, running, startup, before, pending>>

RolledBack ==
  /\ \A c \in Calls : NoNews(c)
  /\ CandidateFree
  /\ pending # NoCall /\ RollBack
  /\ UNCHANGED <<scenario, startup, before>>

\* A step of one call tells nothing of the others.
LEMMA OneCall ==
  ASSUME NEW c \in Calls, NoNews(c), UNCHANGED scenario,
         \A d \in Calls \ {c} : /\ pc'[d] = pc[d] /\ raised'[d] = raised[d]
                                /\ session'[d] = session[d]
                                /\ left'[d] = left[d]
  PROVE  \A d \in Calls : NoNews(d)
BY DEF NoNews, Finished, Editing, Uncommitted

\* Who edits has the lock.
LEMMA OneEditor ==
  ASSUME Control, NEW c \in Calls, Editing(c)
  PROVE  lock = c /\ \A d \in Calls : Editing(d) => d = c
BY DEF Control, Editing, Locked, Holding, Configuring

\* The end of a session drops its candidate and its unconfirmed commit.
LEMMA SessionEnds ==
  ASSUME Control, NEW c \in Calls, EndSession(c), UNCHANGED scenario,
         \A d \in Calls : NoNews(d)
  PROVE  Quiet \/ RolledBack
<1>1. CandidateFree
  <2>1. CASE lock = c
    <3>1. \A d \in Calls \ {c} : ~Editing(d)
      BY <2>1, OneEditor
    <3>2. ~Editing(c)'
      BY DEF EndSession, Editing, Control, TypeOK
    <3> QED BY <3>1, <3>2 DEF CandidateFree, NoNews
  <2>2. CASE lock # c
    BY <2>2 DEF EndSession, CandidateFree
  <2> QED BY <2>1, <2>2
<1>2. CASE pending = c
  BY <1>1, <1>2, Names DEF EndSession, RolledBack
<1>3. CASE pending # c
  BY <1>1, <1>3 DEF EndSession, Quiet
<1> QED BY <1>2, <1>3

\* Steps of a call that leave the switch alone.
Idles(c) ==
  \/ Start(c) \/ EnterPool(c) \/ Connect(c) \/ NoConnection(c)
  \/ LockGranted(c) \/ LockDenied(c) \/ Retry(c) \/ FindLost(c)
  \/ Crash(c) \/ ExpireSlot(c)

\* They are quiet.
LEMMA IdleSteps ==
  ASSUME Control, NEW c \in Calls, Idles(c), UNCHANGED scenario
  PROVE  Quiet
<1> USE DEF Control, TypeOK, Locked, Placed, Noted, NoNews, Finished, Editing,
        Uncommitted, InSession, Configuring, Holding
<1>1. UNCHANGED <<candidate, running, startup, before, pending>>
  BY DEF Idles, Start, EnterPool, Connect, NoConnection, LockGranted,
     LockDenied, Retry, FindLost, Crash, ExpireSlot, switchVars, storeVars
<1>2. \A d \in Calls \ {c} : /\ pc'[d] = pc[d] /\ raised'[d] = raised[d]
                             /\ session'[d] = session[d] /\ left'[d] = left[d]
  BY DEF Idles, Start, EnterPool, Connect, NoConnection, LockGranted,
     LockDenied, Retry, FindLost, Crash, ExpireSlot, Goto, Raise, switchVars,
     storeVars
<1>3. NoNews(c)
  <2>1. CASE Start(c)         BY <2>1 DEF Start, Goto, switchVars
  <2>2. CASE EnterPool(c)     BY <2>2 DEF EnterPool, Goto, switchVars
  <2>3. CASE Connect(c)       BY <2>3 DEF Connect, Goto
  <2>4. CASE NoConnection(c)  BY <2>4 DEF NoConnection, Goto, Raise, switchVars
  <2>5. CASE LockGranted(c)   BY <2>5 DEF LockGranted, Goto
  <2>6. CASE LockDenied(c)    BY <2>6 DEF LockDenied, Goto, switchVars
  <2>7. CASE Retry(c)         BY <2>7 DEF Retry, Goto, Raise, switchVars
  <2>8. CASE FindLost(c)      BY <2>8 DEF FindLost, Goto, Raise, switchVars
  <2>9. CASE Crash(c)         BY <2>9 DEF Crash, Goto, switchVars
  <2>10. CASE ExpireSlot(c)   BY <2>10 DEF ExpireSlot, switchVars
  <2> QED BY <2>1, <2>2, <2>3, <2>4, <2>5, <2>6, <2>7, <2>8, <2>9, <2>10
             DEF Idles
<1> HIDE DEF NoNews
<1> QED BY <1>1, <1>2, <1>3, OneCall DEF Quiet, CandidateFree

\* Steps that end a session, and the candidate with it.
Ends(c) == Close(c) \/ LoseSession(c) \/ NoticeCrash(c)

\* They are quiet, or roll back.
LEMMA EndSteps ==
  ASSUME Control, NEW c \in Calls, Ends(c), UNCHANGED scenario
  PROVE  Quiet \/ RolledBack
<1> USE DEF Control, TypeOK, Locked, Placed, Noted, NoNews, Finished, Editing,
        Uncommitted, InSession, Configuring, Holding
<1>1. \A d \in Calls \ {c} : /\ pc'[d] = pc[d] /\ raised'[d] = raised[d]
                             /\ session'[d] = session[d] /\ left'[d] = left[d]
  BY DEF Ends, Close, LoseSession, NoticeCrash, EndSession, Goto, Raise,
     switchVars, callVars
<1>2. NoNews(c)
  <2>1. CASE Close(c)
    BY <2>1 DEF Close, EndSession, Goto, Raise, switchVars
  <2>2. CASE LoseSession(c)
    BY <2>2 DEF LoseSession, EndSession
  <2>3. CASE NoticeCrash(c)
    BY <2>3 DEF NoticeCrash, EndSession, callVars
  <2> QED BY <2>1, <2>2, <2>3 DEF Ends
<1> HIDE DEF Control, NoNews, Editing
<1>3. \A d \in Calls : NoNews(d)
  BY <1>1, <1>2, OneCall
<1>4. CASE EndSession(c)
  BY <1>3, <1>4, SessionEnds
<1>5. CASE UNCHANGED switchVars
  BY <1>3, <1>5 DEF Quiet, CandidateFree, switchVars, storeVars
<1> QED BY <1>4, <1>5 DEF Ends, Close, LoseSession, NoticeCrash

\* Steps that discard a candidate, or fail to edit it.
Drops(c) ==
  \/ ClearCandidate(c) \/ Unlock(c)
  \/ RpcFails(c) /\ (pc[c] = "edit" => scenario.target = "candidate")

\* They are quiet, as nobody else edits the candidate.
LEMMA DropSteps ==
  ASSUME Control, NEW c \in Calls, Drops(c), UNCHANGED scenario
  PROVE  Quiet
<1> USE DEF Control, TypeOK, Locked, Placed, Noted, NoNews, Finished, Editing,
        Uncommitted, InSession, Configuring, Holding
<1>1. UNCHANGED <<running, startup, before, pending>>
  BY DEF Drops, ClearCandidate, Unlock, RpcFails, EditTarget
<1>2. \A d \in Calls \ {c} : /\ pc'[d] = pc[d] /\ raised'[d] = raised[d]
                             /\ session'[d] = session[d] /\ left'[d] = left[d]
  BY DEF Drops, ClearCandidate, Unlock, RpcFails, Goto, Raise
<1>3. NoNews(c) /\ ~Editing(c)'
  <2>1. CASE ClearCandidate(c)  BY <2>1 DEF ClearCandidate, Goto, Raise
  <2>2. CASE Unlock(c)          BY <2>2 DEF Unlock, Goto
  <2>3. CASE RpcFails(c)        BY <2>3 DEF RpcFails, Errors, Goto, Raise
  <2> QED BY <2>1, <2>2, <2>3 DEF Drops
<1> HIDE DEF NoNews
<1>4. CandidateFree
  <2>1. CASE lock \in {c, NoCall}
    <3>1. \A d \in Calls \ {c} : ~Editing(d)'
      BY <1>2, <2>1, NamesAssumption
    <3> QED BY <1>3, <3>1 DEF CandidateFree
  <2>2. CASE lock \notin {c, NoCall}
    <3>1. UNCHANGED candidate
      BY <2>2 DEF Drops, ClearCandidate, Unlock, RpcFails
    <3> QED BY <3>1 DEF CandidateFree
  <2> QED BY <2>1, <2>2
<1> QED BY <1>1, <1>2, <1>3, <1>4, OneCall DEF Quiet

\* What happens without the calls.
Around ==
  \/ ConfirmTimeout \/ OperatorEdits \/ OperatorLocks \/ OperatorUnlocks
  \/ Terminated \/ UNCHANGED vars

\* It is quiet, or a roll back.
LEMMA AroundSteps ==
  ASSUME Control, Around, UNCHANGED scenario
  PROVE  Quiet \/ RolledBack
<1>1. UNCHANGED <<session, pc, raised, left>>
  BY DEF Around, ConfirmTimeout, OperatorEdits, OperatorLocks, OperatorUnlocks,
     Terminated, vars, switchVars, callVars
<1>2. \A d \in Calls : NoNews(d)
  BY <1>1 DEF NoNews, Finished, Editing, Uncommitted
<1>3. CandidateFree
  <2>1. CASE lock \in {NoCall, Operator}
    <3>1. \A d \in Calls : ~Editing(d)
      BY <2>1, OneEditor, Names
    <3> QED BY <1>2, <3>1 DEF NoNews, CandidateFree
  <2>2. CASE lock \notin {NoCall, Operator}
    BY <2>2 DEF Around, ConfirmTimeout, OperatorEdits, OperatorLocks,
       OperatorUnlocks, Terminated, vars, switchVars, storeVars, CandidateFree
  <2> QED BY <2>1, <2>2
<1>4. CASE ConfirmTimeout
  BY <1>2, <1>3, <1>4 DEF ConfirmTimeout, RolledBack
<1>5. CASE ~ConfirmTimeout
  <2>1. UNCHANGED <<running, startup, before, pending>>
    BY <1>5 DEF Around, OperatorEdits, OperatorLocks, OperatorUnlocks,
       Terminated, vars, switchVars, storeVars
  <2> QED BY <1>2, <1>3, <2>1 DEF Quiet
<1> QED BY <1>4, <1>5

\* What is left is what writes.
LEMMA NextSteps ==
  ASSUME Control, [Next]_vars
  PROVE  /\ UNCHANGED scenario
         /\ \/ Quiet \/ RolledBack
            \/ \E c \in Calls :
                 \/ Discard(c) \/ Edit(c) \/ ConfirmedCommit(c) \/ Commit(c)
                 \/ Save(c)
                 \/ /\ RpcFails(c) /\ pc[c] = "edit"
                    /\ scenario.target # "candidate"
<1>1. UNCHANGED scenario
  BY DEF Next, vars
<1>2. CASE Around
  BY <1>1, <1>2, AroundSteps
<1>3. ASSUME NEW c \in Calls, Idles(c) \/ Ends(c) \/ Drops(c)
      PROVE  Quiet \/ RolledBack
  BY <1>1, <1>3, IdleSteps, EndSteps, DropSteps
<1> QED BY <1>1, <1>2, <1>3 DEF Next, Step, Around, Idles, Ends, Drops

-----------------------------------------------------------------------------
(* What a datastore has, and has not                                       *)

\* Steps that write nothing keep what the datastores have.
LEMMA QuietKeeps ==
  ASSUME StoreInv, Quiet
  PROVE  Stored' /\ Reverted'
<1> USE DEF Quiet, NoNews
<1>1. Stored'
  <2>1. Good(running)' /\ (pending' # NoCall => Good(before)')
    BY DEF StoreInv, Stored, Good, Has, Whole
  <2>2. ASSUME NEW c \in Calls, Editing(c)'
        PROVE  Good(candidate)' /\ (pc'[c] # "edit" => Has(candidate, c)')
    <3>1. UNCHANGED candidate
      BY <2>2 DEF CandidateFree
    <3> QED BY <2>2, <3>1 DEF StoreInv, Stored, Good, Has, Whole
  <2>3. ASSUME NEW c \in Calls
        PROVE  /\ pc'[c] = "save" => Has(running, c)'
               /\ Finished(c)' /\ scenario'.target = "running" /\ scenario'.saves
                    => Has(startup, c)'
    BY DEF StoreInv, Stored, Has
  <2> QED BY <2>1, <2>2, <2>3 DEF Stored
<1>2. Reverted'
  <2> SUFFICES ASSUME ~MayStayUnconfirmed, scenario.target = "candidate",
                      NEW c \in Calls
               PROVE  Gone(c)' /\ Alone(c)'
    BY DEF Reverted, MayStayUnconfirmed
  <2>0. Gone(c) /\ Alone(c)
    BY DEF StoreInv, Reverted
  <2>1. \A d \in Calls : Editing(d)' => UNCHANGED candidate
    BY DEF CandidateFree
  <2>2. Gone(c)'
    BY <2>0, <2>1 DEF Gone, Lacks
  <2>3. Alone(c)'
    BY <2>0, <2>1 DEF Alone, Same
  <2> QED BY <2>2, <2>3
<1> QED BY <1>1, <1>2

\* Only the editing call has an unconfirmed commit.
LEMMA OwnCommit ==
  ASSUME Control, ~MayStayUnconfirmed, NEW c \in Calls, Editing(c),
         pending # NoCall
  PROVE  pending = c /\ pc[c] = "commit"
<1>1. lock = c /\ lock = pending
  BY OneEditor DEF Control, Own
<1> QED BY <1>1 DEF Control, Own, Editing

\* The running configuration is rolled back to one with all that was done.
LEMMA RollBackKeeps ==
  ASSUME StoreInv, RolledBack
  PROVE  Stored' /\ Reverted'
<1> USE DEF RolledBack, NoNews, RollBack
<1>0. scenario.target = "candidate"
  BY DEF StoreInv, Control, Own
<1>1. \A d \in Calls : Editing(d)' => UNCHANGED candidate
  BY DEF CandidateFree
<1>2. Stored'
  <2>1. Good(running)' /\ pending' = NoCall
    BY DEF StoreInv, Stored, Good, Has, Whole
  <2>2. ASSUME NEW c \in Calls, Editing(c)'
        PROVE  Good(candidate)' /\ (pc'[c] # "edit" => Has(candidate, c)')
    BY <1>1, <2>2 DEF StoreInv, Stored, Good, Has, Whole
  <2>3. ASSUME NEW c \in Calls
        PROVE  pc'[c] # "save" /\ scenario'.target # "running"
    BY <1>0 DEF StoreInv, Control, Placed
  <2> QED BY <2>1, <2>2, <2>3 DEF Stored
<1>3. Reverted'
  <2> SUFFICES ASSUME ~MayStayUnconfirmed, NEW c \in Calls
               PROVE  Gone(c)' /\ Alone(c)'
    BY DEF Reverted, MayStayUnconfirmed
  <2>0. Gone(c) /\ Alone(c)
    BY <1>0 DEF StoreInv, Reverted
  <2>2. Gone(c)'
    BY <1>1, <2>0 DEF Gone, Lacks
  <2>3. ASSUME Editing(c)' PROVE Same(candidate, running, c)'
    <3>1. pending = c
      BY <2>3, OwnCommit DEF StoreInv
    <3>2. Same(candidate, running, c) /\ Same(before, running, c)
      BY <2>0, <2>3, <3>1 DEF Alone
    <3> QED BY <1>1, <2>3, <3>2 DEF Same
  <2>4. pending' # c
    BY Names
  <2> QED BY <2>2, <2>3, <2>4 DEF Alone
<1> QED BY <1>2, <1>3

-----------------------------------------------------------------------------
(* Steps that write into the datastores                                    *)

\* The step of one call within client.locked.
Writes(c) ==
  /\ session[c] /\ pc[c] \in Configuring
  /\ UNCHANGED <<scenario, lock, session, left>>
  /\ \A d \in Calls \ {c} : pc'[d] = pc[d] /\ raised'[d] = raised[d]

\* ... in which the others learn nothing, and do not edit.
LEMMA OthersKnow ==
  ASSUME Control, NEW c \in Calls, Writes(c), NEW d \in Calls \ {c}
  PROVE  /\ Finished(d)' <=> Finished(d)
         /\ ~Editing(d) /\ ~Editing(d)'
         /\ Uncommitted(d)' <=> Uncommitted(d)
         /\ pc'[d] = pc[d]
<1>1. lock = c
  BY DEF Control, Locked, Holding, Writes
<1>2. ~Editing(d)
  BY <1>1, OneEditor
<1> QED BY <1>2 DEF Writes, Finished, Editing, Uncommitted

\* A call begins to edit with what is running.
LEMMA DiscardKeeps ==
  ASSUME StoreInv, NEW c \in Calls, Discard(c), UNCHANGED scenario
  PROVE  Stored' /\ Reverted'
<1>1. /\ Writes(c) /\ pc[c] = "discard" /\ pc'[c] = "edit"
      /\ candidate' = running
      /\ UNCHANGED <<running, startup, before, pending, raised>>
      /\ scenario.target = "candidate"
  BY DEF StoreInv, Control, TypeOK, Placed, Discard, Goto, Writes, Configuring
<1>2. ~Finished(c)' /\ pc'[c] # "save" /\ (Uncommitted(c)' => Uncommitted(c))
  BY <1>1 DEF Finished, Uncommitted, Writes
<1>3. \A d \in Calls : /\ Finished(d)' => Finished(d)
                       /\ Uncommitted(d)' => Uncommitted(d)
                       /\ Editing(d)' => d = c
                       /\ pc'[d] = "save" => pc[d] = "save"
  BY <1>1, <1>2, OthersKnow DEF StoreInv
<1>4. Stored'
  BY <1>1, <1>3 DEF StoreInv, Stored, Good, Has, Whole
<1>5. ASSUME ~MayStayUnconfirmed, NEW d \in Calls PROVE Gone(d)' /\ Alone(d)'
  <2>1. pending # c
    BY <1>1, <1>5, Names DEF StoreInv, Control, Own
  <2>2. Gone(d)
    BY <1>1, <1>5 DEF StoreInv, Reverted
  <2>3. pending = NoCall
    <3>1. lock = c
      BY <1>1 DEF StoreInv, Control, Locked, Holding, Writes
    <3> QED BY <1>1, <1>5, <2>1, <3>1 DEF StoreInv, Control, Own
  <2>4. Gone(d)'
    BY <1>1, <1>3, <2>2, <2>3, Names DEF Gone, Lacks
  <2>5. Alone(d)'
    BY <1>1, <1>3, <2>3, Names DEF Alone, Same
  <2> QED BY <2>4, <2>5
<1> QED BY <1>1, <1>4, <1>5 DEF Reverted, MayStayUnconfirmed

\* An edit of the running datastore; one that fails may have been done in part.
LEMMA RunningEdit ==
  ASSUME StoreInv, NEW c \in Calls, NEW items \in SUBSET ItemsOf[c],
         Writes(c), pc[c] = "edit", scenario.target = "running",
         running' = Written(running, items, c),
         UNCHANGED <<candidate, startup, before, pending>>,
         \/ items = ItemsOf[c] /\ (scenario.saves => ~Finished(c)')
         \/ ~Finished(c)' /\ pc'[c] = "unlock"
  PROVE  Stored' /\ Reverted'
<1>1. ASSUME NEW d \in Calls, Finished(d)' \/ pc'[d] = "save"
      PROVE  Has(running, d)'
  <2>1. CASE d = c
    <3>1. items = ItemsOf[c]
      BY <1>1, <2>1
    <3> QED BY <2>1, <3>1, WrittenOwn DEF Has
  <2>2. CASE d # c
    <3>1. Has(running, d)
      BY <1>1, <2>2, OthersKnow DEF StoreInv, Stored, Good
    <3>2. Has(Written(running, items, c), d)
      BY <3>1, WrittenHas
    <3> QED BY <3>2 DEF Has
  <2> QED BY <2>1, <2>2
<1>2. ASSUME NEW d \in Calls, Finished(d)', scenario.saves
      PROVE  Has(startup, d)'
  <2>1. d # c
    BY <1>2
  <2> QED BY <1>2, <2>1, OthersKnow DEF StoreInv, Stored, Has
<1>3. pending = NoCall
  BY DEF StoreInv, Control, Own
<1>4. scenario' = scenario /\ \A d \in Calls : ~Editing(d)'
  BY DEF Writes, Editing
<1>5. Stored'
  BY <1>1, <1>2, <1>3, <1>4 DEF Stored, Good
<1> QED BY <1>4, <1>5 DEF Reverted

\* A call edits the candidate, or the running datastore.
LEMMA EditKeeps ==
  ASSUME StoreInv, NEW c \in Calls, Edit(c), UNCHANGED scenario
  PROVE  Stored' /\ Reverted'
<1>1. /\ Writes(c) /\ pc[c] = "edit"
      /\ UNCHANGED <<startup, before, pending, raised>>
  BY DEF StoreInv, Control, TypeOK, Edit, Goto, Writes, Configuring
<1>2. CASE scenario.target # "candidate"
  <2>1. scenario.target = "running"
    BY <1>1, <1>2, ScenariosAssumption
       DEF StoreInv, Control, TypeOK, Placed, Holding, Configuring,
       AllScenarios
  <2>2. running' = Written(running, ItemsOf[c], c) /\ UNCHANGED candidate
    BY <1>2 DEF Edit, EditTarget
  <2>3. scenario.saves => ~Finished(c)'
    BY <1>1, <2>1 DEF StoreInv, Control, TypeOK, Edit, Goto, Finished
  <2> QED BY <1>1, <2>1, <2>2, <2>3, RunningEdit
<1>3. CASE scenario.target = "candidate"
  <2>1. /\ candidate' = Written(candidate, ItemsOf[c], c) /\ UNCHANGED running
        /\ pc'[c] \in {"confirm", "commit"} /\ Editing(c)
    BY <1>1, <1>3
       DEF StoreInv, Control, TypeOK, Edit, EditTarget, Goto, Editing,
       Writes
  <2>2. \A d \in Calls : /\ Finished(d)' => Finished(d)
                         /\ Uncommitted(d)' => Uncommitted(d)
                         /\ Editing(d)' => d = c
                         /\ pc'[d] = "save" => pc[d] = "save"
    <3>1. ~Finished(c)' /\ pc'[c] # "save" /\ (Uncommitted(c)' => Uncommitted(c))
      BY <1>1, <2>1 DEF Finished, Uncommitted, Writes
    <3> QED BY <1>1, <3>1, OthersKnow DEF StoreInv
  <2>3. Good(candidate)' /\ Has(candidate, c)'
    <3>1. Good(candidate)
      BY <2>1 DEF StoreInv, Stored
    <3>2. Has(candidate', c)
      BY <2>1, WrittenOwn
    <3>3. \A d \in Calls : Has(candidate, d) => Has(candidate', d)
      BY <2>1, WrittenHas
    <3>4. Whole(candidate')
      BY <1>3, <2>1, <3>1, WrittenWhole DEF Good
    <3> QED BY <2>2, <3>1, <3>2, <3>3, <3>4 DEF Good, Has, Whole
  <2>4. Stored'
    BY <1>1, <1>3, <2>1, <2>2, <2>3 DEF StoreInv, Stored, Good, Has, Whole
  <2>5. ASSUME ~MayStayUnconfirmed, NEW d \in Calls PROVE Gone(d)' /\ Alone(d)'
    <3>0. Gone(d) /\ Alone(d)
      BY <1>3, <2>5 DEF StoreInv, Reverted
    <3>1. d # c /\ Lacks(candidate, d) => Lacks(candidate', d)
      BY <2>1 DEF Lacks, Written
    <3>2. Gone(d)'
      BY <1>1, <2>1, <2>2, <3>0, <3>1 DEF Gone, Lacks
    <3>3. Alone(d)'
      BY <1>1, <2>1, <2>2, <3>0 DEF Alone, Same, Written
    <3> QED BY <3>2, <3>3
  <2> QED BY <2>4, <2>5 DEF Reverted, MayStayUnconfirmed
<1> QED BY <1>2, <1>3

\* What part of a failed edit of the running datastore was done stays there.
LEMMA FailedEditKeeps ==
  ASSUME StoreInv, NEW c \in Calls, RpcFails(c), pc[c] = "edit",
         scenario.target # "candidate", UNCHANGED scenario
  PROVE  Stored' /\ Reverted'
<1>1. /\ Writes(c) /\ pc'[c] = "unlock" /\ ~Finished(c)'
      /\ UNCHANGED <<startup, before, pending>>
  BY DEF StoreInv, Control, TypeOK, RpcFails, Goto, Raise, Errors, Writes,
     Finished
<1>2. scenario.target = "running"
  BY ScenariosAssumption
     DEF StoreInv, Control, TypeOK, Placed, Holding, Configuring, AllScenarios
<1>3. PICK items \in SUBSET ItemsOf[c] :
        running' = Written(running, items, c) /\ UNCHANGED candidate
  BY DEF RpcFails, EditTarget
<1> QED BY <1>1, <1>2, <1>3, RunningEdit

\* A confirmed commit makes the candidate running, for the time being.
LEMMA ConfirmKeeps ==
  ASSUME StoreInv, NEW c \in Calls, ConfirmedCommit(c), UNCHANGED scenario
  PROVE  Stored' /\ Reverted'
<1>1. /\ Writes(c) /\ Editing(c) /\ pc[c] = "confirm" /\ pc'[c] = "commit"
      /\ running' = candidate /\ pending' = c /\ pending \in {NoCall, c}
      /\ before' = IF pending = c THEN before ELSE running
      /\ UNCHANGED <<candidate, startup, raised>>
      /\ scenario.target = "candidate"
  BY DEF StoreInv, Control, TypeOK, Placed, ConfirmedCommit, MayCommit, Goto,
     Writes, Editing, Configuring
<1>2. \A d \in Calls : /\ Finished(d)' => Finished(d)
                       /\ Uncommitted(d)' => Uncommitted(d)
                       /\ Editing(d)' => d = c
                       /\ pc'[d] = "save" => pc[d] = "save"
  <2>1. ~Finished(c)' /\ pc'[c] # "save" /\ (Uncommitted(c)' => Uncommitted(c))
    BY <1>1 DEF Finished, Uncommitted, Writes
  <2> QED BY <1>1, <2>1, OthersKnow DEF StoreInv
<1>3. Good(candidate) /\ Good(running) /\ Has(candidate, c)
      /\ (pending = c => Good(before))
  BY <1>1, Names DEF StoreInv, Stored
<1>4. Good(candidate)' /\ Good(running)' /\ Good(before)' /\ Has(candidate, c)'
  BY <1>1, <1>2, <1>3 DEF Good, Has, Whole
<1>5. Stored'
  <2>1. \A d \in Calls : pc'[d] # "save"
    BY <1>1, <1>2 DEF StoreInv, Control, Placed
  <2> QED BY <1>1, <1>2, <1>4, <2>1 DEF Stored
<1>6. ASSUME ~MayStayUnconfirmed, NEW d \in Calls PROVE Gone(d)' /\ Alone(d)'
  <2>0. Gone(d) /\ Alone(d)
    BY <1>1, <1>6 DEF StoreInv, Reverted
  <2>1. pending = NoCall
    BY <1>1, <1>6, OwnCommit DEF StoreInv
  <2>2. Gone(d)'
    BY <1>1, <1>2, <2>0, <2>1, Names DEF Gone, Lacks
  <2>3. Alone(d)'
    BY <1>1, <1>2, <2>0, <2>1, Names DEF Alone, Same
  <2> QED BY <2>2, <2>3
<1> QED BY <1>1, <1>5, <1>6 DEF Reverted, MayStayUnconfirmed

\* A commit makes the candidate running for good.
LEMMA CommitKeeps ==
  ASSUME StoreInv, NEW c \in Calls, Commit(c), UNCHANGED scenario
  PROVE  Stored' /\ Reverted'
<1>1. /\ Writes(c) /\ Editing(c) /\ pc[c] = "commit" /\ pc'[c] = "unlock"
      /\ running' = candidate /\ pending' = NoCall
      /\ UNCHANGED <<candidate, startup, before, raised>>
      /\ scenario.target = "candidate"
  BY DEF StoreInv, Control, TypeOK, Placed, Commit, MayCommit, Goto, Writes,
     Editing, Configuring
<1>2. \A d \in Calls : /\ Finished(d)' => Finished(d) \/ d = c
                       /\ Uncommitted(d)' => Uncommitted(d)
                       /\ ~Editing(d)'
                       /\ pc'[d] = "save" => pc[d] = "save"
  <2>1. /\ ~Editing(c)' /\ pc'[c] # "save"
        /\ Uncommitted(c)' => Uncommitted(c)
    BY <1>1 DEF Editing, Finished, Uncommitted, Writes
  <2> QED BY <1>1, <2>1, OthersKnow DEF StoreInv
<1>3. Good(candidate) /\ Has(candidate, c)
  BY <1>1 DEF StoreInv, Stored
<1>4. Good(running)'
  BY <1>1, <1>2, <1>3 DEF Good, Has, Whole
<1>5. Stored'
  <2>1. \A d \in Calls : pc'[d] # "save"
    BY <1>1, <1>2 DEF StoreInv, Control, Placed
  <2> QED BY <1>1, <1>2, <1>4, <2>1 DEF Stored
<1>6. ASSUME ~MayStayUnconfirmed, NEW d \in Calls PROVE Gone(d)' /\ Alone(d)'
  <2>0. Gone(d)
    BY <1>1, <1>6 DEF StoreInv, Reverted
  <2>1. ~Uncommitted(c)'
    <3>1. raised[c] = "none"
      BY <1>1 DEF StoreInv, Control, Placed, Configuring
    <3> QED BY <1>1, <3>1 DEF Uncommitted, Finished
  <2>2. Gone(d)'
    BY <1>1, <1>2, <2>0, <2>1 DEF Gone, Lacks
  <2> QED BY <1>2, <2>2 DEF Alone
<1> QED BY <1>1, <1>5, <1>6 DEF Reverted, MayStayUnconfirmed

\* What is running is saved, with all that was done.
LEMMA SaveKeeps ==
  ASSUME StoreInv, NEW c \in Calls, Save(c), UNCHANGED scenario
  PROVE  Stored' /\ Reverted'
<1>1. /\ Writes(c) /\ pc[c] = "save" /\ pc'[c] = "unlock"
      /\ startup' = running
      /\ UNCHANGED <<candidate, running, before, pending, raised>>
      /\ scenario.target = "running"
  BY DEF StoreInv, Control, TypeOK, Placed, Save, Goto, Writes, Configuring
<1>2. \A d \in Calls : /\ Finished(d)' => Finished(d) \/ d = c
                       /\ ~Editing(d)'
                       /\ pc'[d] = "save" => pc[d] = "save"
  <2>1. ~Editing(c)' /\ pc'[c] # "save"
    BY <1>1 DEF Editing
  <2> QED BY <1>1, <2>1, OthersKnow DEF StoreInv
<1>3. Good(running) /\ Has(running, c) /\ pending = NoCall
  BY <1>1 DEF StoreInv, Stored, Control, Own
<1>4. \A d \in Calls : Finished(d)' => Has(running, d)
  BY <1>2, <1>3 DEF Good
<1>5. Stored'
  BY <1>1, <1>2, <1>3, <1>4 DEF StoreInv, Stored, Good, Has
<1> QED BY <1>1, <1>5 DEF Reverted

-----------------------------------------------------------------------------
(* Theorems                                                                *)

\* The invariant holds on a switch with its factory configuration.
LEMMA StoreInvInit == Init => StoreInv
<1> SUFFICES ASSUME Init PROVE StoreInv
  OBVIOUS
<1>1. TypeOK
  BY BoundsAssumption DEF Init, TypeOK, Stores, Writers, Steps, Factory
<1>2. Control
  BY <1>1, NamesAssumption DEF Init, Control, Own, Locked, Placed, Noted,
     Finished, Holding, Configuring, InSession
<1>3. \A c \in Calls : ~Finished(c) /\ ~Editing(c) /\ pc[c] = "idle"
  BY DEF Init, Finished, Editing
<1>4. \A i \in Items : running[i] = NoCall
  BY DEF Init, Factory
<1>5. Stored
  BY <1>3, <1>4, Names DEF Init, Stored, Good, Whole
<1>6. Reverted
  BY <1>3, <1>4, Names DEF Init, Reverted, Gone, Alone, Lacks
<1> QED BY <1>2, <1>5, <1>6 DEF StoreInv

\* Every step preserves the invariant.
LEMMA StoreInvStep == StoreInv /\ [Next]_vars => StoreInv'
<1> SUFFICES ASSUME StoreInv, [Next]_vars PROVE StoreInv'
  OBVIOUS
<1>1. Control /\ Control' /\ UNCHANGED scenario
  BY ControlStep, NextSteps DEF StoreInv
<1>2. CASE Quiet
  BY <1>1, <1>2, QuietKeeps DEF StoreInv
<1>3. CASE RolledBack
  BY <1>1, <1>3, RollBackKeeps DEF StoreInv
<1>4. ASSUME NEW c \in Calls, Discard(c) \/ Edit(c) \/ Save(c)
      PROVE  StoreInv'
  BY <1>1, <1>4, DiscardKeeps, EditKeeps, SaveKeeps DEF StoreInv
<1>5. ASSUME NEW c \in Calls, ConfirmedCommit(c) \/ Commit(c)
      PROVE  StoreInv'
  BY <1>1, <1>5, ConfirmKeeps, CommitKeeps DEF StoreInv
<1>6. ASSUME NEW c \in Calls, RpcFails(c), pc[c] = "edit",
             scenario.target # "candidate"
      PROVE  StoreInv'
  BY <1>1, <1>6, FailedEditKeeps DEF StoreInv
<1> QED BY <1>1, <1>2, <1>3, <1>4, <1>5, <1>6, NextSteps

\* The invariant holds in every state.
LEMMA StoreInvariant == Spec => []StoreInv
BY StoreInvInit, StoreInvStep, PTL DEF Spec

\* What send_config_to_device reports as done stays in the running
\* configuration, whatever other calls, the operator and the switch do, and
\* whatever fails (netconf_switch.py:228-359).
THEOREM DoneStays == Spec => []DoneIsDone
<1>1. StoreInv => DoneIsDone
  BY DEF StoreInv, Stored, Good, DoneIsDone, Done, Finished
<1> QED BY <1>1, StoreInvariant, PTL

\* ... and in the startup configuration, where there is a way to save it
\* (_save_running_config, netconf_switch.py:291-316).
THEOREM DoneSurvivesReboot == Spec => []DoneIsSaved
<1>1. StoreInv => DoneIsSaved
  BY DEF StoreInv, Stored, DoneIsSaved, Done, Finished
<1> QED BY <1>1, StoreInvariant, PTL

\* With a candidate no part of an edit reaches the running configuration
\* without the rest (_lock_and_configure, netconf_switch.py:250-274).
THEOREM EditsAreAtomic == Spec => []AllOrNothing
<1>1. StoreInv => AllOrNothing
  BY DEF StoreInv, Stored, Good, Whole, AllOrNothing
<1> QED BY <1>1, StoreInvariant, PTL

\* Where the confirming commit does not fail under the lock, nothing remains
\* of the edit of a call that failed or died.
THEOREM FailuresAreUndone == Spec => []FailedIsUndone
<1>1. ASSUME StoreInv, ~MayStayUnconfirmed, NEW c \in Calls, Unconfirmed(c)
      PROVE  Undone(c)
  <2>1. Uncommitted(c) /\ scenario.target = "candidate"
    BY <1>1 DEF Unconfirmed, Uncommitted, Finished, Failed
  <2>2. pending # c
    BY <1>1, <2>1, Names
       DEF StoreInv, Control, Own, Locked, Unconfirmed, Failed
  <2> QED BY <1>1, <2>1, <2>2 DEF StoreInv, Reverted, Gone, Lacks, Undone
<1>2. StoreInv => FailedIsUndone
  BY <1>1 DEF FailedIsUndone
<1> QED BY <1>2, StoreInvariant, PTL

\* ... and no call commits what somebody else has left in the candidate.
THEOREM NobodyCommitsForOthers == Spec => CommitsOwnEdit
<1>1. ASSUME StoreInv, ~MayStayUnconfirmed, NEW c \in Calls,
             ConfirmedCommit(c) \/ Commit(c)
      PROVE  \A i \in Items \ ItemsOf[c] : running'[i] = running[i]
  <2>1. Editing(c) /\ running' = candidate /\ scenario.target = "candidate"
    BY <1>1 DEF StoreInv, Control, Placed, Editing, ConfirmedCommit, Commit,
       MayCommit
  <2> QED BY <1>1, <2>1 DEF StoreInv, Reverted, Alone, Same
<1>2. StoreInv =>
        [~MayStayUnconfirmed =>
           \A c \in Calls : ConfirmedCommit(c) \/ Commit(c) =>
             \A i \in Items \ ItemsOf[c] : running'[i] = running[i]]_vars
  BY <1>1
<1> QED BY <1>2, StoreInvariant, PTL DEF CommitsOwnEdit
=============================================================================
