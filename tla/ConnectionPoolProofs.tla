------------------------ MODULE ConnectionPoolProofs ------------------------
(***************************************************************************)
(* Theorems about ConnectionPool for every set of calls and processes.     *)
(*                                                                         *)
(* Where a connection is follows from Connected: the place of a call tells *)
(* what it has in its hand (Matched), and an attempt opens a connection    *)
(* that did not exist (Fresh).  RunsOnce follows from counting by place    *)
(* and attempt (Counted).  The bound on the sessions follows from Guarded, *)
(* that who works within PoolLock has a lock name, and from counting the   *)
(* sessions together with those about to be opened (Bounded): that number  *)
(* only grows when no session is idle, and then each one belongs to the    *)
(* holder of a name of its own.                                            *)
(***************************************************************************)
EXTENDS ConnectionPool, FiniteSetTheorems, FunctionTheorems, TLAPS

USE DEF lockVars, connVars, callVars, Goto

\* None is no connection.
LEMMA NoConnectionIsNone == NoConnection \notin Connections
<1> SUFFICES ASSUME NoConnection \in Connections PROVE FALSE
  OBVIOUS
<1>1. PICK c \in Calls, a \in Attempts : NoConnection = <<c, a>>
  BY DEF Connections
<1>2. Len(<<c, a>>) = 2 /\ Len(<<>>) = 0
  OBVIOUS
<1>3. QED  BY <1>1, <1>2 DEF NoConnection

\* A pool without its last connection.
LEMMA PoolLaws ==
  ASSUME NEW S, NEW s \in Seq(S), s # <<>>
  PROVE  /\ Len(s) \in Nat \ {0}
         /\ DOMAIN s = 1 .. Len(s)
         /\ Top(s) \in S
         /\ Below(s) \in Seq(S)
         /\ Len(Below(s)) = Len(s) - 1
         /\ DOMAIN Below(s) = 1 .. Len(s) - 1
         /\ \A i \in 1 .. Len(s) - 1 : Below(s)[i] = s[i]
<1>1. Len(s) \in Nat /\ DOMAIN s = 1 .. Len(s) /\ Len(s) # 0
  OBVIOUS
<1>2. Top(s) \in S
  BY <1>1 DEF Top
<1>3. SubSeq(s, 1, Len(s) - 1) \in Seq(S)
  BY <1>1
<1>4. Len(SubSeq(s, 1, Len(s) - 1)) = Len(s) - 1
  BY <1>1
<1>5. \A i \in 1 .. Len(s) - 1 : SubSeq(s, 1, Len(s) - 1)[i] = s[i]
  BY <1>1
<1>6. QED  BY <1>1, <1>2, <1>3, <1>4, <1>5 DEF Below

\* A pool with one more connection.
LEMMA AppendLaws ==
  ASSUME NEW S, NEW s \in Seq(S), NEW k \in S
  PROVE  /\ Len(s) \in Nat
         /\ DOMAIN s = 1 .. Len(s)
         /\ Append(s, k) \in Seq(S)
         /\ DOMAIN Append(s, k) = 1 .. Len(s) + 1
         /\ Append(s, k)[Len(s) + 1] = k
         /\ \A i \in 1 .. Len(s) : Append(s, k)[i] = s[i]
OBVIOUS

-----------------------------------------------------------------------------
(* The strengthening: what is in a hand follows from the program counter,  *)
(* and a connection that an attempt has yet to open does not exist.        *)

Matched ==
  \A c \in Calls : hand[c] # NoConnection <=> pc[c] \in Using \cup {"alive"}

Fresh ==
  \A c \in Calls :
    /\ pc[c] \in {"idle", "lock", "pool", "alive", "connect"}
         => session[<<c, attempt[c]>>] = "none"
    /\ attempt[c] = 1 => session[<<c, 2>>] = "none"

\* Steps that touch no connection.
Quiet(c) ==
  \/ Start(c) \/ TryLock(c) \/ Unlock(c) \/ FoundAlive(c) \/ Use(c)
  \/ UseFails(c) \/ Save(c) \/ SaveFails(c) \/ Retry(c) \/ RaiseError(c)
  \/ CheckOutput(c) \/ Fault(c)

Moving(c) ==
  \/ PopConnection(c) \/ FoundDead(c) \/ Connect(c) \/ PutBack(c)
  \/ Abort(c) \/ Drain(c)

\* The steps of a call are those that touch no connection, and the others.
LEMMA StepKinds ==
  \A c \in Calls : Step(c) \/ Fault(c) <=> Quiet(c) \/ Moving(c)
BY DEF Step, Quiet, Moving

\* A step that touches no connection leaves what is in the hand, and stays
\* within or outside the with block.
LEMMA QuietFrame ==
  ASSUME TypeOK, NEW c \in Calls, Quiet(c)
  PROVE  /\ UNCHANGED connVars
         /\ \E step \in Steps :
              /\ pc' = [pc EXCEPT ![c] = step]
              /\ step \in Using => pc[c] \in Using \cup {"alive"}
              /\ pc[c] \in Using \cup {"alive"} => step \in Using
              /\ step \in {"pool", "alive", "connect"} => pc[c] \in
                   {"idle", "lock", "pool", "alive", "connect", "failed"}
              /\ step # "alive"
<1> USE DEF TypeOK
<1>1. CASE Start(c)       BY <1>1 DEF Start, Enter, Using, Steps
<1>2. CASE TryLock(c)     BY <1>2 DEF TryLock, Using, Steps
<1>3. CASE Unlock(c)      BY <1>3 DEF Unlock, Using, Steps
<1>4. CASE FoundAlive(c)  BY <1>4 DEF FoundAlive, Using, Steps
<1>5. CASE Use(c)         BY <1>5 DEF Use, Using, Steps
<1>6. CASE UseFails(c)    BY <1>6 DEF UseFails, Using, Steps
<1>7. CASE Save(c)        BY <1>7 DEF Save, Using, Steps
<1>8. CASE SaveFails(c)   BY <1>8 DEF SaveFails, Using, Steps
<1>9. CASE Retry(c)       BY <1>9 DEF Retry, Enter, Using, Steps
<1>10. CASE RaiseError(c)      BY <1>10 DEF RaiseError, Using, Steps
<1>11. CASE CheckOutput(c)     BY <1>11 DEF CheckOutput, Using, Steps
<1>12. CASE AcquireTimeout(c)  BY <1>12 DEF AcquireTimeout, Using, Steps
<1>13. CASE ConnectFails(c)    BY <1>13 DEF ConnectFails, Leave, Using, Steps
<1>14. QED
  BY <1>1, <1>2, <1>3, <1>4, <1>5, <1>6, <1>7, <1>8, <1>9, <1>10, <1>11,
     <1>12, <1>13 DEF Quiet, Fault

-----------------------------------------------------------------------------
\* Every step keeps the types.
LEMMA TypeStep == TypeOK /\ Matched /\ [Next]_vars => TypeOK'
<1> SUFFICES ASSUME TypeOK, Matched, [Next]_vars PROVE TypeOK'
  OBVIOUS
<1> USE ProcessesAssumption, MaxConnectionsAssumption DEF TypeOK
<1>1. ASSUME NEW c \in Calls, Quiet(c) PROVE TypeOK'
  <2> USE QuietFrame, <1>1
  <2>1. pc' \in [Calls -> Steps]
    OBVIOUS
  <2>2. CASE Start(c)       BY <2>1, <2>2 DEF Start
  <2>3. CASE TryLock(c)
    <3>1. (nextName[c] + 1) % MaxConnections \in LockNames
      BY DEF LockNames
    <3>2. holder' \in [LockNames -> Calls \cup {NoCall}]
      <4>1. holder' = [holder EXCEPT ![nextName[c]] = c] \/ holder' = holder
        BY <2>3, Zenon DEF TryLock
      <4>2. QED
        BY <4>1
    <3>3. nextName' \in [Calls -> LockNames]
      BY <2>3, <3>1 DEF TryLock
    <3>4. UNCHANGED <<session, pool, hand, attempt, raised, rejected, result, ran>>
      BY <2>3 DEF TryLock, connVars, callVars
    <3>5. QED
      BY <2>1, <3>2, <3>3, <3>4
  <2>4. CASE Unlock(c)      BY <2>1, <2>4 DEF Unlock
  <2>5. CASE FoundAlive(c)  BY <2>1, <2>5 DEF FoundAlive
  <2>6. CASE Use(c)         BY <2>1, <2>6 DEF Use
  <2>7. CASE UseFails(c)    BY <2>1, <2>7 DEF UseFails
  <2>8. CASE Save(c)        BY <2>1, <2>8 DEF Save
  <2>9. CASE SaveFails(c)   BY <2>1, <2>9 DEF SaveFails
  <2>10. CASE Retry(c)      BY <2>1, <2>10 DEF Retry, LockNames, Attempts
  <2>11. CASE RaiseError(c)      BY <2>1, <2>11 DEF RaiseError
  <2>12. CASE CheckOutput(c)     BY <2>1, <2>12 DEF CheckOutput
  <2>13. CASE AcquireTimeout(c)  BY <2>1, <2>13 DEF AcquireTimeout
  <2>14. CASE ConnectFails(c)    BY <2>1, <2>14 DEF ConnectFails
  <2>15. QED
    BY <2>2, <2>3, <2>4, <2>5, <2>6, <2>7, <2>8, <2>9, <2>10, <2>11, <2>12,
       <2>13, <2>14 DEF Quiet, Fault
<1>2. ASSUME NEW c \in Calls, Moving(c) PROVE TypeOK'
  <2>1. PoolOf(c) \in Seq(Connections)
    BY DEF PoolOf
  <2>2. PoolOf(c) # <<>> => /\ Top(PoolOf(c)) \in Connections
                            /\ Below(PoolOf(c)) \in Seq(Connections)
    BY <2>1, PoolLaws
  <2>3. CASE PopConnection(c)
    BY <2>2, <2>3 DEF PopConnection, Steps
  <2>4. CASE FoundDead(c)  BY <2>4 DEF FoundDead, Disconnect, Steps
  <2>5. CASE Connect(c)
    <3>1. <<c, attempt[c]>> \in Connections
      BY DEF Connections
    <3>2. QED  BY <2>5, <3>1 DEF Connect, Steps
  <2>6. CASE PutBack(c)
    <3>1. hand[c] \in Connections
      BY <2>6 DEF PutBack, Matched, Using
    <3>2. Append(PoolOf(c), hand[c]) \in Seq(Connections)
      BY <2>1, <3>1
    <3>3. QED  BY <2>6, <3>2 DEF PutBack, Disconnect, Leave, Steps
  <2>7. CASE Abort(c)  BY <2>7 DEF Abort, Disconnect, Leave, Steps
  <2>8. CASE Drain(c)  BY <2>2, <2>8 DEF Drain, Steps
  <2>9. QED
    BY <1>2, <2>3, <2>4, <2>5, <2>6, <2>7, <2>8 DEF Moving
<1>3. ASSUME NEW k \in Connections, Drop(k) PROVE TypeOK'
  BY <1>3 DEF Drop
<1>4. ASSUME NEW p \in Processes, Crash(p) PROVE TypeOK'
  <2>1. <<>> \in Seq(Connections)
    OBVIOUS
  <2>2. QED  BY <1>4, <2>1 DEF Crash, Steps
<1>5. ASSUME NEW n \in LockNames, ExpireLock(n) PROVE TypeOK'
  BY <1>5 DEF ExpireLock
<1>6. CASE UNCHANGED vars
  BY <1>6 DEF vars
<1>7. QED
  BY <1>1, <1>2, <1>3, <1>4, <1>5, <1>6, StepKinds DEF Next, Terminated

\* A call has a connection in its hand just within its with block.
LEMMA MatchedStep == TypeOK /\ Matched /\ [Next]_vars => Matched'
<1> SUFFICES ASSUME TypeOK, Matched, [Next]_vars PROVE Matched'
  OBVIOUS
<1> USE NoConnectionIsNone DEF TypeOK, Matched
<1>1. ASSUME NEW c \in Calls, Quiet(c) PROVE Matched'
  BY <1>1, QuietFrame
<1>2. ASSUME NEW c \in Calls, Moving(c) PROVE Matched'
  <2>1. PoolOf(c) # <<>> => Top(PoolOf(c)) \in Connections
    BY PoolLaws, ProcessesAssumption DEF PoolOf
  <2>2. CASE PopConnection(c)  BY <2>1, <2>2 DEF PopConnection, Using
  <2>3. CASE FoundDead(c)      BY <2>3 DEF FoundDead, Disconnect, Using
  <2>4. CASE Connect(c)
    <3>1. <<c, attempt[c]>> \in Connections
      BY DEF Connections
    <3>2. QED  BY <2>4, <3>1 DEF Connect, Using
  <2>5. CASE PutBack(c)  BY <2>5 DEF PutBack, Disconnect, Leave, Using
  <2>6. CASE Abort(c)    BY <2>6 DEF Abort, Disconnect, Leave, Using
  <2>7. CASE Drain(c)    BY <2>7 DEF Drain, Using
  <2>8. QED
    BY <1>2, <2>2, <2>3, <2>4, <2>5, <2>6, <2>7 DEF Moving
<1>3. ASSUME NEW k \in Connections, Drop(k) PROVE Matched'
  BY <1>3 DEF Drop
<1>4. ASSUME NEW p \in Processes, Crash(p) PROVE Matched'
  BY <1>4 DEF Crash, Using
<1>5. ASSUME NEW n \in LockNames, ExpireLock(n) PROVE Matched'
  BY <1>5 DEF ExpireLock
<1>6. CASE UNCHANGED vars
  BY <1>6 DEF vars
<1>7. QED
  BY <1>1, <1>2, <1>3, <1>4, <1>5, <1>6, StepKinds DEF Next, Terminated

\* Steps leave a connection alone that does not exist, unless it is the one
\* that Connect opens.
LEMMA FreshStep ==
  TypeOK /\ Matched /\ OnePlace /\ Fresh /\ [Next]_vars => Fresh'
<1> SUFFICES ASSUME TypeOK, Matched, OnePlace, Fresh, [Next]_vars
             PROVE  Fresh'
  OBVIOUS
<1> USE DEF TypeOK
<1>0. \A c \in Calls, a \in Attempts : <<c, a>> \in Connections
  BY DEF Connections
<1>1. ASSUME NEW c \in Calls, Quiet(c) PROVE Fresh'
  <2>1. UNCHANGED connVars
    BY <1>1, QuietFrame
  <2>2. CASE Retry(c)
    BY <2>1, <2>2 DEF Fresh, Retry, Enter, Attempts
  <2>3. CASE ~Retry(c)
    <3>1. UNCHANGED attempt
      BY <1>1, <2>3 DEF Quiet, Fault, Start, TryLock, Unlock, FoundAlive, Use,
        UseFails, Save, SaveFails, RaiseError, CheckOutput, AcquireTimeout,
        ConnectFails
    <3>2. /\ \A d \in Calls \ {c} : pc'[d] = pc[d]
          /\ pc'[c] \in {"idle", "lock", "pool", "alive", "connect"} =>
               pc[c] \in {"idle", "lock", "pool", "alive", "connect"}
      BY <1>1, <2>3 DEF Quiet, Fault, Start, TryLock, Unlock, FoundAlive, Use,
        UseFails, Save, SaveFails, RaiseError, CheckOutput, AcquireTimeout,
        ConnectFails, Enter, Leave
    <3>3. QED  BY <2>1, <3>1, <3>2 DEF Fresh
  <2>4. QED  BY <2>2, <2>3
<1>2. ASSUME NEW c \in Calls, Moving(c) PROVE Fresh'
  <2>1. \A d \in Calls : hand[d] # NoConnection => session[hand[d]] # "none"
    BY DEF OnePlace, HandsApart
  <2>2. PoolOf(c) # <<>> => session[Top(PoolOf(c))] # "none"
    <3>1. PoolOf(c) # <<>> => Len(PoolOf(c)) \in DOMAIN PoolOf(c)
      BY PoolLaws, ProcessesAssumption DEF PoolOf
    <3>2. ProcessOf[c] \in Processes
      BY ProcessesAssumption
    <3>3. PoolOf(c) # <<>> =>
            session[PoolOf(c)[Len(PoolOf(c))]] \in {"open", "dropped"}
      BY <3>1, <3>2 DEF OnePlace, PoolsApart, PoolOf
    <3>4. QED  BY <3>3 DEF Top
  <2>3. CASE PopConnection(c)  BY <2>3 DEF PopConnection, Fresh
  <2>4. CASE FoundDead(c)
    <3>1. session[hand[c]] = "dropped"
      BY <2>4 DEF FoundDead
    <3>2. QED  BY <2>4, <3>1, <1>0 DEF FoundDead, Disconnect, Fresh, Attempts
  <2>5. CASE Connect(c)
    <3> DEFINE new == <<c, attempt[c]>>
    <3>1. \A d \in Calls, a \in Attempts :
            d # c \/ a # attempt[c] => <<d, a>> # new
      OBVIOUS
    <3>2. \A k \in Connections : k # new => session'[k] = session[k]
      BY <2>5 DEF Connect
    <3>3. /\ UNCHANGED attempt
          /\ pc' = [pc EXCEPT ![c] = "use"]
      BY <2>5 DEF Connect
    <3>4. \A d \in Calls, a \in Attempts :
            d # c \/ a # attempt[c] => session'[<<d, a>>] = session[<<d, a>>]
      BY <1>0, <3>1, <3>2
    <3>5. ASSUME NEW d \in Calls,
                 pc'[d] \in {"idle", "lock", "pool", "alive", "connect"}
          PROVE  session'[<<d, attempt[d]>>] = "none"
      <4>1. d # c /\ pc'[d] = pc[d]
        BY <3>3, <3>5
      <4>2. QED  BY <3>4, <3>5, <4>1 DEF Fresh
    <3>6. ASSUME NEW d \in Calls, attempt[d] = 1
          PROVE  session'[<<d, 2>>] = "none"
      <4>1. 2 \in Attempts /\ (d # c \/ 2 # attempt[c])
        BY <3>6 DEF Attempts
      <4>2. session'[<<d, 2>>] = session[<<d, 2>>]
        BY <3>4, <4>1
      <4>3. QED  BY <3>6, <4>2 DEF Fresh
    <3>7. QED  BY <3>3, <3>5, <3>6 DEF Fresh
  <2>6. CASE PutBack(c) \/ Abort(c)
    <3>1. hand[c] # NoConnection
      BY <2>6 DEF PutBack, Abort, Matched, Using
    <3>2. \A k \in Connections : session[k] = "none" => session'[k] = "none"
      BY <2>1, <2>6, <3>1 DEF PutBack, Abort, Disconnect
    <3>3. /\ UNCHANGED attempt
          /\ \A d \in Calls \ {c} : pc'[d] = pc[d]
          /\ pc'[c] \in {"done", "unlock"}
      BY <2>6 DEF PutBack, Abort, Leave
    <3>4. QED  BY <1>0, <3>2, <3>3 DEF Fresh, Attempts
  <2>7. CASE Drain(c)
    <3>1. \A k \in Connections : session[k] = "none" => session'[k] = "none"
      BY <2>2, <2>7 DEF Drain
    <3>2. /\ UNCHANGED attempt
          /\ \A d \in Calls \ {c} : pc'[d] = pc[d]
          /\ pc'[c] \in {"drain", "done"}
      BY <2>7 DEF Drain
    <3>3. QED  BY <1>0, <3>1, <3>2 DEF Fresh, Attempts
  <2>8. QED
    BY <1>2, <2>3, <2>4, <2>5, <2>6, <2>7 DEF Moving
<1>3. ASSUME NEW k \in Connections, Drop(k) PROVE Fresh'
  BY <1>0, <1>3 DEF Drop, Fresh, Attempts
<1>4. ASSUME NEW p \in Processes, Crash(p) PROVE Fresh'
  <2>1. \A k \in Connections : session[k] = "none" => session'[k] = "none"
    BY <1>4 DEF Crash
  <2>2. /\ UNCHANGED attempt
        /\ \A d \in Calls : pc'[d] \in {pc[d], "crashed"}
    BY <1>4 DEF Crash
  <2>3. QED  BY <1>0, <2>1, <2>2 DEF Fresh, Attempts
<1>5. ASSUME NEW n \in LockNames, ExpireLock(n) PROVE Fresh'
  BY <1>5 DEF ExpireLock, Fresh
<1>6. CASE UNCHANGED vars
  BY <1>6 DEF vars, Fresh
<1>7. QED
  BY <1>1, <1>2, <1>3, <1>4, <1>5, <1>6, StepKinds DEF Next, Terminated

-----------------------------------------------------------------------------
(* Connections stay in one place.                                          *)

\* What is in a hand is in no pool at all.
LEMMA HandOrPool ==
  ASSUME TypeOK, OnePlace
  PROVE  \A c \in Calls, p \in Processes : \A i \in DOMAIN pool[p] :
           hand[c] # NoConnection => pool[p][i] # hand[c]
<1> SUFFICES ASSUME NEW c \in Calls, NEW p \in Processes,
                    NEW i \in DOMAIN pool[p],
                    hand[c] # NoConnection, pool[p][i] = hand[c]
             PROVE  FALSE
  OBVIOUS
<1>1. ProcessOf[hand[c][1]] = ProcessOf[c] /\ hand[c] \notin Elements(PoolOf(c))
  BY DEF OnePlace, HandsApart
<1>2. ProcessOf[pool[p][i][1]] = p
  BY DEF OnePlace, PoolsApart
<1>3. pool[p][i] \in Elements(PoolOf(c))
  BY <1>1, <1>2 DEF Elements, PoolOf
<1>4. QED  BY <1>1, <1>3

\* The top of a pool is nowhere else.
LEMMA TopApart ==
  ASSUME TypeOK, OnePlace, NEW c \in Calls, PoolOf(c) # <<>>
  PROVE  /\ Top(PoolOf(c)) \in Connections
         /\ session[Top(PoolOf(c))] \in {"open", "dropped"}
         /\ ProcessOf[Top(PoolOf(c))[1]] = ProcessOf[c]
         /\ \A d \in Calls : hand[d] # Top(PoolOf(c))
         /\ \A i \in DOMAIN Below(PoolOf(c)) :
              /\ i \in DOMAIN PoolOf(c)
              /\ Below(PoolOf(c))[i] = PoolOf(c)[i]
              /\ PoolOf(c)[i] # Top(PoolOf(c))
         /\ \A p \in Processes \ {ProcessOf[c]} : \A i \in DOMAIN pool[p] :
              pool[p][i] # Top(PoolOf(c))
<1> DEFINE s == PoolOf(c)
           top == s[Len(s)]
<1>1. ProcessOf[c] \in Processes /\ s = pool[ProcessOf[c]]
  BY ProcessesAssumption DEF PoolOf
<1>2. s \in Seq(Connections)
  BY <1>1 DEF TypeOK
<1>3. /\ Len(s) \in Nat \ {0}
      /\ DOMAIN s = 1 .. Len(s)
      /\ top \in Connections
      /\ DOMAIN Below(s) = 1 .. Len(s) - 1
      /\ \A i \in 1 .. Len(s) - 1 : Below(s)[i] = s[i]
  BY <1>2, PoolLaws DEF Top
<1>4. Len(s) \in DOMAIN pool[ProcessOf[c]]
  BY <1>1, <1>3
<1>5. /\ session[top] \in {"open", "dropped"}
      /\ ProcessOf[top[1]] = ProcessOf[c]
      /\ \A j \in DOMAIN s : top = s[j] => Len(s) = j
  BY <1>1, <1>4 DEF OnePlace, PoolsApart
<1>6. ASSUME NEW d \in Calls, hand[d] = top PROVE FALSE
  <2>1. hand[d] # NoConnection
    BY <1>3, <1>6, NoConnectionIsNone
  <2>2. QED  BY <1>1, <1>4, <1>6, <2>1, HandOrPool
<1>7. ASSUME NEW i \in DOMAIN Below(s)
      PROVE  i \in DOMAIN s /\ Below(s)[i] = s[i] /\ s[i] # top
  BY <1>3, <1>5
<1>8. ASSUME NEW p \in Processes \ {ProcessOf[c]}, NEW i \in DOMAIN pool[p]
      PROVE  pool[p][i] # top
  BY <1>5 DEF OnePlace, PoolsApart
<1>9. QED  BY <1>3, <1>5, <1>6, <1>7, <1>8 DEF Top

\* Disconnecting what is in a hand disturbs no other place.
LEMMA DisconnectKeeps ==
  ASSUME TypeOK, OnePlace, NEW c \in Calls, hand[c] # NoConnection,
         Disconnect(c), UNCHANGED pool
  PROVE  OnePlace'
<1>1. hand[c] \in Connections
  BY DEF TypeOK
<1>2. HandsApart'
  <2>1. /\ \A d \in Calls \ {c} : hand'[d] = hand[d]
        /\ hand'[c] = NoConnection
        /\ \A k \in Connections \ {hand[c]} : session'[k] = session[k]
    BY DEF Disconnect, TypeOK
  <2>2. \A d \in Calls : PoolOf(d)' = PoolOf(d)
    BY DEF PoolOf
  <2>3. \A d \in Calls \ {c} : hand[d] # NoConnection =>
          hand[d] \in Connections \ {hand[c]}
    BY DEF OnePlace, HandsApart, TypeOK
  <2>4. QED  BY <2>1, <2>2, <2>3 DEF OnePlace, HandsApart, Elements
<1>3. PoolsApart'
  BY <1>1, HandOrPool DEF TypeOK, OnePlace, PoolsApart, Disconnect
<1>4. QED  BY <1>2, <1>3 DEF OnePlace

\* Every step moves a connection from one place to another, if at all.
LEMMA PlacesStep ==
  TypeOK /\ Matched /\ Fresh /\ OnePlace /\ [Next]_vars => OnePlace'
<1> SUFFICES ASSUME TypeOK, Matched, Fresh, OnePlace, [Next]_vars
             PROVE  OnePlace'
  OBVIOUS
<1>1. ASSUME UNCHANGED connVars PROVE OnePlace'
  BY <1>1 DEF OnePlace, HandsApart, PoolsApart, PoolOf, Elements
<1>2. ASSUME NEW c \in Calls, Moving(c) PROVE OnePlace'
  <2> DEFINE s == PoolOf(c)
  <2>0. ProcessOf[c] \in Processes /\ s = pool[ProcessOf[c]]
    BY ProcessesAssumption DEF PoolOf
  <2>1. CASE PopConnection(c) /\ s # <<>> /\ Reuse
    <3>1. /\ hand' = [hand EXCEPT ![c] = Top(s)]
          /\ pool' = [pool EXCEPT ![ProcessOf[c]] = Below(s)]
          /\ UNCHANGED session
      BY <2>1 DEF PopConnection
    <3>2. hand[c] = NoConnection
      BY <2>1 DEF PopConnection, Matched, Using
    <3>3. pool'[ProcessOf[c]] = Below(s)
      BY <2>0, <3>1 DEF TypeOK
    <3>4. \A p \in Processes \ {ProcessOf[c]} : pool'[p] = pool[p]
      BY <3>1 DEF TypeOK
    <3>5. PoolsApart'
      BY <2>0, <2>1, <3>1, <3>3, <3>4, TopApart DEF OnePlace, PoolsApart
    <3>6. \A d \in Calls : Elements(PoolOf(d)') \subseteq Elements(PoolOf(d))
      BY <2>0, <2>1, <3>3, <3>4, TopApart, ProcessesAssumption
      DEF Elements, PoolOf
    <3>7. Top(s) \notin Elements(Below(s))
      BY <2>1, TopApart DEF Elements
    <3>8. HandsApart'
      <4> SUFFICES ASSUME NEW d \in Calls, hand'[d] # NoConnection
                   PROVE  /\ session'[hand'[d]] \in {"open", "dropped"}
                          /\ ProcessOf[hand'[d][1]] = ProcessOf[d]
                          /\ hand'[d] \notin Elements(PoolOf(d)')
                          /\ \A e \in Calls \ {d} : hand'[e] # hand'[d]
        BY DEF HandsApart, Elements, PoolOf
      <4>1. CASE d = c
        <5>1. hand'[c] = Top(s) /\ \A e \in Calls \ {c} : hand'[e] = hand[e]
          BY <3>1 DEF TypeOK
        <5>2. PoolOf(c)' = Below(s)
          BY <3>3 DEF PoolOf
        <5>3. QED  BY <2>1, <3>1, <3>7, <4>1, <5>1, <5>2, TopApart
      <4>2. CASE d # c
        <5>1. hand'[d] = hand[d] /\ hand'[c] = Top(s)
          BY <3>1, <4>2 DEF TypeOK
        <5>2. hand[d] # Top(s)
          BY <2>1, TopApart
        <5>3. \A e \in Calls \ {c} : hand'[e] = hand[e]
          BY <3>1 DEF TypeOK
        <5>4. QED
          BY <3>1, <3>6, <4>2, <5>1, <5>2, <5>3 DEF OnePlace, HandsApart
      <4>3. QED  BY <4>1, <4>2
    <3>9. QED  BY <3>5, <3>8 DEF OnePlace
  <2>2. CASE PopConnection(c) /\ ~(s # <<>> /\ Reuse)
    BY <1>1, <2>2 DEF PopConnection
  <2>3. CASE FoundDead(c) \/ Abort(c)
    BY <2>3, DisconnectKeeps DEF FoundDead, Abort, Matched, Using
  <2>4. CASE Connect(c)
    <3> DEFINE new == <<c, attempt[c]>>
    <3>1. new \in Connections /\ session[new] = "none"
      BY <2>4 DEF Connect, Fresh, Connections, TypeOK
    <3>2. /\ session' = [session EXCEPT ![new] = "open"]
          /\ hand' = [hand EXCEPT ![c] = new]
          /\ UNCHANGED pool
      BY <2>4 DEF Connect
    <3>3. \A d \in Calls : hand[d] # NoConnection => hand[d] # new
      BY <3>1 DEF OnePlace, HandsApart
    <3>4. \A p \in Processes : \A i \in DOMAIN pool[p] : pool[p][i] # new
      BY <3>1 DEF OnePlace, PoolsApart
    <3>5. PoolsApart'
      BY <3>1, <3>2, <3>4 DEF OnePlace, PoolsApart, TypeOK
    <3>6. new # NoConnection /\ new[1] = c /\ new \notin Elements(s)
      BY <2>0, <3>1, <3>4, NoConnectionIsNone DEF Elements
    <3>7. HandsApart'
      <4>1. /\ hand'[c] = new /\ session'[new] = "open"
            /\ \A d \in Calls \ {c} : hand'[d] = hand[d]
            /\ \A k \in Connections \ {new} : session'[k] = session[k]
        BY <3>1, <3>2 DEF TypeOK
      <4>2. \A d \in Calls : PoolOf(d)' = PoolOf(d)
        BY <3>2 DEF PoolOf
      <4>3. \A d \in Calls : hand[d] # NoConnection =>
              hand[d] \in Connections \ {new}
        BY <3>3 DEF TypeOK
      <4>4. QED
        BY <3>1, <3>6, <4>1, <4>2, <4>3 DEF OnePlace, HandsApart, Elements
    <3>8. QED  BY <3>5, <3>7 DEF OnePlace
  <2>5. CASE PutBack(c)
    <3>1. hand[c] # NoConnection /\ hand[c] \in Connections
      BY <2>5 DEF PutBack, Matched, Using, TypeOK
    <3>2. CASE Disconnect(c) /\ UNCHANGED pool
      BY <3>1, <3>2, DisconnectKeeps
    <3>3. CASE /\ pool' = [pool EXCEPT ![ProcessOf[c]] = Append(s, hand[c])]
               /\ hand' = [hand EXCEPT ![c] = NoConnection]
               /\ UNCHANGED session
      <4>1. /\ s \in Seq(Connections)
            /\ pool'[ProcessOf[c]] = Append(s, hand[c])
            /\ \A p \in Processes \ {ProcessOf[c]} : pool'[p] = pool[p]
        BY <2>0, <3>3 DEF TypeOK
      <4>2. /\ Len(s) \in Nat
            /\ DOMAIN s = 1 .. Len(s)
            /\ DOMAIN Append(s, hand[c]) = 1 .. Len(s) + 1
            /\ Append(s, hand[c])[Len(s) + 1] = hand[c]
            /\ \A i \in 1 .. Len(s) : Append(s, hand[c])[i] = s[i]
        BY <3>1, <4>1, AppendLaws
      <4>3. /\ session[hand[c]] \in {"open", "dropped"}
            /\ ProcessOf[hand[c][1]] = ProcessOf[c]
            /\ \A d \in Calls \ {c} : hand[d] # hand[c]
            /\ \A i \in DOMAIN s : s[i] # hand[c]
        BY <2>0, <3>1, HandOrPool DEF OnePlace, HandsApart
      <4>4. PoolsApart'
        <5> SUFFICES ASSUME NEW p \in Processes, NEW i \in DOMAIN pool'[p]
                     PROVE  /\ session[pool'[p][i]] \in {"open", "dropped"}
                            /\ ProcessOf[pool'[p][i][1]] = p
                            /\ \A j \in DOMAIN pool'[p] :
                                 pool'[p][i] = pool'[p][j] => i = j
          BY <3>3 DEF PoolsApart
        <5>1. CASE p # ProcessOf[c]
          BY <4>1, <5>1 DEF OnePlace, PoolsApart
        <5>2. CASE p = ProcessOf[c] /\ i = Len(s) + 1
          BY <4>1, <4>2, <4>3, <5>2
        <5>3. CASE p = ProcessOf[c] /\ i \in 1 .. Len(s)
          <6>1. i \in DOMAIN pool[p] /\ pool'[p][i] = pool[p][i]
            BY <2>0, <4>1, <4>2, <5>3
          <6>2. \A j \in DOMAIN pool'[p] : j = Len(s) + 1 \/
                  (j \in DOMAIN pool[p] /\ pool'[p][j] = pool[p][j])
            <7>1. pool'[p] = Append(s, hand[c]) /\ pool[p] = s
              BY <2>0, <4>1, <5>3
            <7>2. \A j \in 1 .. Len(s) + 1 : j = Len(s) + 1 \/ j \in 1 .. Len(s)
              BY <4>2
            <7>3. QED  BY <4>2, <7>1, <7>2
          <6>3. pool'[p][Len(s) + 1] = hand[c] /\ pool[p][i] # hand[c]
            BY <2>0, <4>1, <4>2, <4>3, <5>3
          <6>4. QED  BY <6>1, <6>2, <6>3 DEF OnePlace, PoolsApart
        <5>4. QED  BY <4>1, <4>2, <5>1, <5>2, <5>3
      <4>5. ASSUME NEW d \in Calls
            PROVE  Elements(PoolOf(d)') \subseteq
                     Elements(PoolOf(d)) \cup {hand[c]}
        BY <2>0, <4>1, <4>2, ProcessesAssumption DEF Elements, PoolOf
      <4>6. HandsApart'
        BY <3>3, <4>3, <4>5 DEF OnePlace, HandsApart, TypeOK
      <4>7. QED  BY <4>4, <4>6 DEF OnePlace
    <3>4. QED  BY <2>5, <3>2, <3>3 DEF PutBack
  <2>6. CASE Drain(c) /\ s # <<>>
    <3>1. /\ session' = [session EXCEPT ![Top(s)] = "closed"]
          /\ pool' = [pool EXCEPT ![ProcessOf[c]] = Below(s)]
          /\ UNCHANGED hand
      BY <2>6 DEF Drain
    <3>2. pool'[ProcessOf[c]] = Below(s)
      BY <2>0, <3>1 DEF TypeOK
    <3>3. \A p \in Processes \ {ProcessOf[c]} : pool'[p] = pool[p]
      BY <3>1 DEF TypeOK
    <3>4. \A k \in Connections \ {Top(s)} : session'[k] = session[k]
      BY <3>1 DEF TypeOK
    <3>5. PoolsApart'
      <4> SUFFICES ASSUME NEW p \in Processes, NEW i \in DOMAIN pool'[p]
                   PROVE  /\ session'[pool'[p][i]] \in {"open", "dropped"}
                          /\ ProcessOf[pool'[p][i][1]] = p
                          /\ \A j \in DOMAIN pool'[p] :
                               pool'[p][i] = pool'[p][j] => i = j
        BY DEF PoolsApart
      <4>1. i \in DOMAIN pool[p] /\ pool'[p][i] = pool[p][i]
                                 /\ pool[p][i] # Top(s)
        BY <2>0, <2>6, <3>2, <3>3, TopApart
      <4>2. pool[p][i] \in Connections
        BY <4>1 DEF TypeOK
      <4>3. \A j \in DOMAIN pool'[p] : /\ j \in DOMAIN pool[p]
                                       /\ pool'[p][j] = pool[p][j]
        BY <2>0, <2>6, <3>2, <3>3, TopApart
      <4>4. QED  BY <3>4, <4>1, <4>2, <4>3 DEF OnePlace, PoolsApart
    <3>6. \A d \in Calls : Elements(PoolOf(d)') \subseteq Elements(PoolOf(d))
      BY <2>0, <2>6, <3>2, <3>3, TopApart, ProcessesAssumption
      DEF Elements, PoolOf
    <3>7. \A d \in Calls : hand[d] # NoConnection =>
            hand[d] \in Connections \ {Top(s)}
      BY <2>6, TopApart DEF TypeOK
    <3>8. HandsApart'
      BY <3>1, <3>4, <3>6, <3>7 DEF OnePlace, HandsApart
    <3>9. QED  BY <3>5, <3>8 DEF OnePlace
  <2>7. CASE Drain(c) /\ s = <<>>
    BY <1>1, <2>7 DEF Drain
  <2>8. QED
    BY <1>2, <2>1, <2>2, <2>3, <2>4, <2>5, <2>6, <2>7 DEF Moving
<1>3. ASSUME NEW k \in Connections, Drop(k) PROVE OnePlace'
  <2>1. \A l \in Connections : session[l] \in {"open", "dropped"} =>
          session'[l] \in {"open", "dropped"}
    BY <1>3 DEF Drop, TypeOK
  <2>2. UNCHANGED <<pool, hand>>
    BY <1>3 DEF Drop
  <2>3. \A c \in Calls : hand[c] # NoConnection => hand[c] \in Connections
    BY DEF TypeOK
  <2>4. \A p \in Processes : \A i \in DOMAIN pool[p] : pool[p][i] \in Connections
    BY DEF TypeOK
  <2>5. HandsApart'
    BY <2>1, <2>2, <2>3 DEF OnePlace, HandsApart, PoolOf, Elements
  <2>6. PoolsApart'
    BY <2>1, <2>2, <2>4 DEF OnePlace, PoolsApart
  <2>7. QED  BY <2>5, <2>6 DEF OnePlace
<1>4. ASSUME NEW p \in Processes, Crash(p) PROVE OnePlace'
  <2>1. pool' = [pool EXCEPT ![p] = <<>>]
    BY <1>4 DEF Crash
  <2>2. \A c \in Calls :
          hand'[c] = IF ProcessOf[c] = p THEN NoConnection ELSE hand[c]
    BY <1>4 DEF Crash
  <2>3. \A k \in Connections :
          ProcessOf[k[1]] # p => session'[k] = session[k]
    BY <1>4 DEF Crash
  <2>4. HandsApart'
    <3> SUFFICES ASSUME NEW c \in Calls, hand'[c] # NoConnection
                 PROVE  /\ session'[hand'[c]] \in {"open", "dropped"}
                        /\ ProcessOf[hand'[c][1]] = ProcessOf[c]
                        /\ hand'[c] \notin Elements(PoolOf(c)')
                        /\ \A d \in Calls \ {c} : hand'[d] # hand'[c]
      BY DEF HandsApart, Elements, PoolOf
    <3>1. ProcessOf[c] # p /\ hand'[c] = hand[c] /\ hand[c] \in Connections
      BY <2>2 DEF TypeOK
    <3>2. PoolOf(c)' = PoolOf(c)
      BY <2>1, <3>1, ProcessesAssumption DEF PoolOf, TypeOK
    <3>3. QED
      BY <2>2, <2>3, <3>1, <3>2 DEF OnePlace, HandsApart
  <2>5. PoolsApart'
    <3> SUFFICES ASSUME NEW q \in Processes, NEW i \in DOMAIN pool'[q]
                 PROVE  /\ session'[pool'[q][i]] \in {"open", "dropped"}
                        /\ ProcessOf[pool'[q][i][1]] = q
                        /\ \A j \in DOMAIN pool'[q] :
                             pool'[q][i] = pool'[q][j] => i = j
      BY DEF PoolsApart
    <3>1. CASE q = p
      <4>1. DOMAIN pool'[q] = {}
        BY <2>1, <3>1 DEF TypeOK
      <4>2. QED  BY <4>1
    <3>2. CASE q # p
      <4>1. pool'[q] = pool[q] /\ pool[q][i] \in Connections
        BY <2>1, <3>2 DEF TypeOK
      <4>2. QED  BY <2>3, <3>2, <4>1 DEF OnePlace, PoolsApart
    <3>3. QED  BY <3>1, <3>2
  <2>6. QED  BY <2>4, <2>5 DEF OnePlace
<1>5. ASSUME NEW n \in LockNames, ExpireLock(n) PROVE OnePlace'
  BY <1>1, <1>5 DEF ExpireLock
<1>6. CASE UNCHANGED vars
  BY <1>1, <1>6 DEF vars
<1>7. QED
  BY <1>1, <1>2, <1>3, <1>4, <1>5, <1>6, StepKinds, QuietFrame
  DEF Next, Terminated

\* Where a session is, unfolded.
Kept(k) ==
  \/ \E p \in Processes : \E i \in DOMAIN pool[p] : pool[p][i] = k
  \/ \E c \in Calls : hand[c] = k

\* NoLeak, by the place of each session.
LEMMA LeakUnfolded ==
  NoLeak <=> \A k \in Connections :
               session[k] \in {"open", "dropped"} => Kept(k)
BY DEF NoLeak, Sessions, Kept, Pooled, Elements

\* A session that leaves its place goes to another, or is disconnected.
LEMMA LeakStep ==
  TypeOK /\ Matched /\ OnePlace /\ NoLeak /\ [Next]_vars => NoLeak'
<1> SUFFICES ASSUME TypeOK, Matched, OnePlace, NoLeak, [Next]_vars,
                    NEW k \in Connections, session'[k] \in {"open", "dropped"}
             PROVE  Kept(k)'
  BY DEF NoLeak, Sessions, Kept, Pooled, Elements
<1>0. session[k] \in {"open", "dropped"} => Kept(k)
  BY LeakUnfolded
<1>1. ASSUME UNCHANGED connVars PROVE Kept(k)'
  BY <1>0, <1>1 DEF Kept
<1>2. ASSUME NEW c \in Calls, Moving(c) PROVE Kept(k)'
  <2> DEFINE s == PoolOf(c)
  <2>0. /\ ProcessOf[c] \in Processes
        /\ s = pool[ProcessOf[c]]
        /\ s \in Seq(Connections)
    BY ProcessesAssumption DEF PoolOf, TypeOK
  <2>1. s # <<>> => \A i \in DOMAIN s :
          s[i] = Top(s) \/ (i \in DOMAIN Below(s) /\ Below(s)[i] = s[i])
    <3>1. ASSUME s # <<>>, NEW i \in DOMAIN s
          PROVE  i = Len(s) \/ i \in 1 .. Len(s) - 1
      BY <2>0, <3>1, PoolLaws
    <3>2. QED  BY <2>0, <3>1, PoolLaws DEF Top
  <2>2. CASE PopConnection(c) /\ s # <<>> /\ Reuse
    <3>1. /\ hand'[c] = Top(s)
          /\ pool'[ProcessOf[c]] = Below(s)
          /\ \A p \in Processes \ {ProcessOf[c]} : pool'[p] = pool[p]
          /\ \A d \in Calls \ {c} : hand'[d] = hand[d]
          /\ UNCHANGED session
      BY <2>0, <2>2 DEF PopConnection, TypeOK
    <3>2. hand[c] # k
      BY <2>2, NoConnectionIsNone DEF PopConnection, Matched, Using
    <3>3. QED  BY <1>0, <2>0, <2>1, <2>2, <3>1, <3>2 DEF Kept
  <2>3. CASE PopConnection(c) /\ ~(s # <<>> /\ Reuse)
    BY <1>1, <2>3 DEF PopConnection
  <2>4. ASSUME Disconnect(c), UNCHANGED pool PROVE Kept(k)'
    <3>1. /\ k # hand[c] /\ session'[k] = session[k]
          /\ \A d \in Calls \ {c} : hand'[d] = hand[d]
      BY <2>4 DEF Disconnect, TypeOK
    <3>2. QED  BY <1>0, <2>4, <3>1 DEF Kept
  <2>5. CASE FoundDead(c) \/ Abort(c)
    BY <2>4, <2>5 DEF FoundDead, Abort
  <2>6. CASE Connect(c)
    <3>1. /\ hand'[c] = <<c, attempt[c]>>
          /\ \A d \in Calls \ {c} : hand'[d] = hand[d]
          /\ k # <<c, attempt[c]>> => session'[k] = session[k]
          /\ UNCHANGED pool
      BY <2>6 DEF Connect, TypeOK
    <3>2. hand[c] # k
      BY <2>6, NoConnectionIsNone DEF Connect, Matched, Using
    <3>3. QED  BY <1>0, <3>1, <3>2 DEF Kept
  <2>7. CASE PutBack(c)
    <3>1. hand[c] \in Connections
      BY <2>7 DEF PutBack, Matched, Using, TypeOK
    <3>2. CASE /\ pool' = [pool EXCEPT ![ProcessOf[c]] = Append(s, hand[c])]
               /\ hand' = [hand EXCEPT ![c] = NoConnection]
               /\ UNCHANGED session
      <4>1. /\ pool'[ProcessOf[c]] = Append(s, hand[c])
            /\ \A p \in Processes \ {ProcessOf[c]} : pool'[p] = pool[p]
            /\ \A d \in Calls \ {c} : hand'[d] = hand[d]
        BY <2>0, <3>2 DEF TypeOK
      <4>2. /\ Len(s) + 1 \in DOMAIN Append(s, hand[c])
            /\ Append(s, hand[c])[Len(s) + 1] = hand[c]
            /\ \A i \in DOMAIN s : /\ i \in DOMAIN Append(s, hand[c])
                                   /\ Append(s, hand[c])[i] = s[i]
        BY <2>0, <3>1, AppendLaws
      <4>3. CASE k = hand[c]
        BY <2>0, <4>1, <4>2, <4>3 DEF Kept
      <4>4. CASE k # hand[c]
        BY <1>0, <2>0, <3>2, <4>1, <4>2, <4>4 DEF Kept
      <4>5. QED  BY <4>3, <4>4
    <3>3. QED  BY <2>4, <2>7, <3>2 DEF PutBack
  <2>8. CASE Drain(c) /\ s # <<>>
    <3>1. /\ k # Top(s) /\ session'[k] = session[k]
          /\ pool'[ProcessOf[c]] = Below(s)
          /\ \A p \in Processes \ {ProcessOf[c]} : pool'[p] = pool[p]
          /\ UNCHANGED hand
      BY <2>0, <2>8 DEF Drain, TypeOK
    <3>2. QED  BY <1>0, <2>0, <2>1, <2>8, <3>1 DEF Kept
  <2>9. CASE Drain(c) /\ s = <<>>
    BY <1>1, <2>9 DEF Drain
  <2>10. QED
    BY <1>2, <2>2, <2>3, <2>5, <2>6, <2>7, <2>8, <2>9 DEF Moving
<1>3. ASSUME NEW l \in Connections, Drop(l) PROVE Kept(k)'
  <2>1. session[k] \in {"open", "dropped"} /\ UNCHANGED <<pool, hand>>
    BY <1>3 DEF Drop, TypeOK
  <2>2. QED  BY <1>0, <2>1 DEF Kept
<1>4. ASSUME NEW p \in Processes, Crash(p) PROVE Kept(k)'
  <2>1. session[k] \in {"open", "dropped"}
    BY <1>4 DEF Crash
  <2>2. k[1] \in Calls
    BY DEF Connections
  <2>3. ProcessOf[k[1]] # p
    BY <1>4, <2>1, <2>2 DEF Crash
  <2>4. CASE \E q \in Processes : \E i \in DOMAIN pool[q] : pool[q][i] = k
    <3>1. PICK q \in Processes : \E i \in DOMAIN pool[q] : pool[q][i] = k
      BY <2>4
    <3>2. q # p
      BY <2>3, <3>1 DEF OnePlace, PoolsApart
    <3>3. pool'[q] = pool[q]
      BY <1>4, <3>2 DEF Crash, TypeOK
    <3>4. QED  BY <3>1, <3>3 DEF Kept
  <2>5. CASE \E c \in Calls : hand[c] = k
    <3>1. PICK c \in Calls : hand[c] = k
      BY <2>5
    <3>2. ProcessOf[c] # p
      BY <2>3, <3>1, NoConnectionIsNone DEF OnePlace, HandsApart
    <3>3. hand'[c] = k
      BY <1>4, <3>1, <3>2 DEF Crash
    <3>4. QED  BY <3>3 DEF Kept
  <2>6. QED  BY <1>0, <2>1, <2>4, <2>5 DEF Kept
<1>5. ASSUME NEW n \in LockNames, ExpireLock(n) PROVE Kept(k)'
  BY <1>1, <1>5 DEF ExpireLock
<1>6. CASE UNCHANGED vars
  BY <1>1, <1>6 DEF vars
<1>7. QED
  BY <1>1, <1>2, <1>3, <1>4, <1>5, <1>6, StepKinds, QuietFrame
  DEF Next, Terminated

-----------------------------------------------------------------------------
(* The theorems.                                                           *)

Connected == TypeOK /\ Matched /\ Fresh /\ OnePlace /\ NoLeak

\* The five invariants hold together in every state.
LEMMA ConnectedInvariant == Spec => []Connected
<1>1. Init => Connected
  <2> SUFFICES ASSUME Init PROVE Connected
    OBVIOUS
  <2>1. TypeOK
    <3>1. <<>> \in Seq(Connections) /\ 0 \in LockNames
      BY MaxConnectionsAssumption DEF LockNames
    <3>2. QED  BY <3>1 DEF Init, TypeOK, Steps, Attempts
  <2>2. Matched  BY DEF Init, Matched, Using
  <2>3. Fresh
    BY DEF Init, Fresh, Connections, Attempts
  <2>4. OnePlace
    <3>1. \A p \in Processes : DOMAIN pool[p] = {}
      BY DEF Init
    <3>2. QED  BY <3>1 DEF Init, OnePlace, HandsApart, PoolsApart
  <2>5. NoLeak  BY DEF Init, NoLeak, Sessions
  <2>6. QED  BY <2>1, <2>2, <2>3, <2>4, <2>5 DEF Connected
<1>2. Connected /\ [Next]_vars => Connected'
  BY TypeStep, MatchedStep, FreshStep, PlacesStep, LeakStep DEF Connected
<1>3. QED  BY <1>1, <1>2, PTL DEF Spec

\* Every variable keeps its type.
THEOREM PoolTypeCorrect == Spec => []TypeOK
<1>1. Connected => TypeOK
  BY DEF Connected
<1>2. QED  BY <1>1, ConnectedInvariant, PTL

\* However threads pop, probe, put back and drain connections, and whatever
\* fails, no two calls use one connection, and none is pooled while used.
THEOREM ConnectionsInOnePlace == Spec => []OnePlace
<1>1. Connected => OnePlace
  BY DEF Connected
<1>2. QED  BY <1>1, ConnectedInvariant, PTL

\* No path through _get_connection forgets a session.
THEOREM NoSessionLeaks == Spec => []NoLeak
<1>1. Connected => NoLeak
  BY DEF Connected
<1>2. QED  BY <1>1, ConnectedInvariant, PTL
-----------------------------------------------------------------------------
(* RunsOnce.                                                               *)

\* How often the commands of a call have run, by where the call is: at most
\* once in each attempt, and at least once when it goes on without an error.
Counted ==
  \A c \in Calls :
    /\ ran[c] <= attempt[c]
    /\ pc[c] \in {"idle", "lock", "pool", "alive", "connect", "use"}
         => ran[c] < attempt[c]
    /\ attempt[c] = 2 => Reuse
    /\ pc[c] = "abort" => raised[c]
    /\ \/ pc[c] \in {"save", "put", "output", "drain"}
       \/ pc[c] = "unlock" /\ ~raised[c]
       \/ result[c] = "ok"
       => ran[c] >= 1

\* A call counts once, in Use or UseFails, and starts again at most once.
LEMMA CountedStep == TypeOK /\ Counted /\ [Next]_vars => Counted'
<1> SUFFICES ASSUME TypeOK, Counted, [Next]_vars PROVE Counted'
  OBVIOUS
<1> USE DEF TypeOK, Counted, Attempts
<1>1. ASSUME NEW c \in Calls, Step(c) \/ Fault(c) PROVE Counted'
  <2>1. CASE Start(c)          BY <2>1 DEF Start, Enter
  <2>2. CASE TryLock(c)        BY <2>2 DEF TryLock
  <2>3. CASE Unlock(c)         BY <2>3 DEF Unlock
  <2>4. CASE PopConnection(c)  BY <2>4 DEF PopConnection
  <2>5. CASE FoundAlive(c)     BY <2>5 DEF FoundAlive
  <2>6. CASE FoundDead(c)      BY <2>6 DEF FoundDead
  <2>7. CASE Connect(c)        BY <2>7 DEF Connect
  <2>8. CASE Use(c)            BY <2>8 DEF Use
  <2>9. CASE UseFails(c)       BY <2>9 DEF UseFails
  <2>10. CASE Save(c)          BY <2>10 DEF Save
  <2>11. CASE SaveFails(c)     BY <2>11 DEF SaveFails
  <2>12. CASE PutBack(c)       BY <2>12 DEF PutBack, Leave
  <2>13. CASE Abort(c)         BY <2>13 DEF Abort, Leave
  <2>14. CASE Retry(c)         BY <2>14 DEF Retry, Enter
  <2>15. CASE RaiseError(c)    BY <2>15 DEF RaiseError
  <2>16. CASE CheckOutput(c)   BY <2>16 DEF CheckOutput
  <2>17. CASE Drain(c)         BY <2>17 DEF Drain
  <2>18. CASE AcquireTimeout(c)  BY <2>18 DEF AcquireTimeout
  <2>19. CASE ConnectFails(c)    BY <2>19 DEF ConnectFails, Leave
  <2>20. QED
    BY <1>1, <2>1, <2>2, <2>3, <2>4, <2>5, <2>6, <2>7, <2>8, <2>9, <2>10,
       <2>11, <2>12, <2>13, <2>14, <2>15, <2>16, <2>17, <2>18, <2>19
    DEF Step, Fault
<1>2. ASSUME NEW k \in Connections, Drop(k) PROVE Counted'
  BY <1>2 DEF Drop
<1>3. ASSUME NEW p \in Processes, Crash(p) PROVE Counted'
  BY <1>3 DEF Crash
<1>4. ASSUME NEW n \in LockNames, ExpireLock(n) PROVE Counted'
  BY <1>4 DEF ExpireLock
<1>5. CASE UNCHANGED vars
  BY <1>5 DEF vars
<1>6. QED
  BY <1>1, <1>2, <1>3, <1>4, <1>5 DEF Next, Terminated

\* A call that reports success has run its commands, and no call runs them
\* more than twice, or more than once without ngs_ssh_reuse_connection:
\* whatever fails, and at whichever step of either attempt.
THEOREM CommandsRunOnce == Spec => []RunsOnce
<1>1. Init => Counted
  BY DEF Init, Counted
<1>2. Connected /\ Counted /\ [Next]_vars => Counted'
  BY CountedStep DEF Connected
<1>3. Connected /\ Counted => RunsOnce
  BY OptionsAssumption
  DEF Connected, TypeOK, Counted, RunsOnce, Attempts
<1>4. QED
  BY <1>1, <1>2, <1>3, ConnectedInvariant, PTL DEF Spec

-----------------------------------------------------------------------------
(* SessionsBounded.                                                        *)

\* What the bound takes: locks, no query beside them, and one process, for
\* the idle sessions of another one are no matter of the locks.
LockedProcess ==
  /\ Coordinated
  /\ Queries = {}
  /\ \A c, d \in Calls : ProcessOf[c] = ProcessOf[d]

HasLock(c) == \E n \in LockNames : holder[n] = c

Guarded ==
  /\ \A c \in Calls : pc[c] \in Locked => HasLock(c)
  /\ ~Reuse => \A p \in Processes : pool[p] = <<>>

\* A step gives away the lock of its own call at most, and that one leaves
\* the with block of PoolLock.
LEMMA GuardedStep ==
  ASSUME LockedProcess, TypeOK, Guarded, [Next]_vars
  PROVE  Guarded'
<1> USE CallsAssumption, ProcessesAssumption
    DEF TypeOK, Guarded, HasLock, Locked, Using, LockedProcess, TakesLock,
        Senders
<1>1. ASSUME NEW c \in Calls, Step(c) \/ Fault(c) PROVE Guarded'
  <2>1. CASE Start(c)          BY <2>1 DEF Start, Enter
  <2>2. CASE TryLock(c)
    <3>1. CASE holder[nextName[c]] = NoCall
      <4>1. holder' = [holder EXCEPT ![nextName[c]] = c]
            /\ pc' = [pc EXCEPT ![c] = "pool"] /\ pool' = pool
        BY <2>2, <3>1 DEF TryLock
      <4>2. nextName[c] \in LockNames
        OBVIOUS
      <4>3. QED
        BY <3>1, <4>1, <4>2
    <3>2. CASE holder[nextName[c]] # NoCall
      BY <2>2, <3>2 DEF TryLock
    <3>3. QED
      BY <3>1, <3>2
  <2>3. CASE Unlock(c)         BY <2>3 DEF Unlock
  <2>4. CASE PopConnection(c)  BY <2>4 DEF PopConnection, PoolOf
  <2>5. CASE FoundAlive(c)     BY <2>5 DEF FoundAlive
  <2>6. CASE FoundDead(c)      BY <2>6 DEF FoundDead
  <2>7. CASE Connect(c)        BY <2>7 DEF Connect
  <2>8. CASE Use(c)            BY <2>8 DEF Use
  <2>9. CASE UseFails(c)       BY <2>9 DEF UseFails
  <2>10. CASE Save(c)          BY <2>10 DEF Save
  <2>11. CASE SaveFails(c)     BY <2>11 DEF SaveFails
  <2>12. CASE PutBack(c)       BY <2>12 DEF PutBack, Leave
  <2>13. CASE Abort(c)         BY <2>13 DEF Abort, Leave
  <2>14. CASE Retry(c)         BY <2>14 DEF Retry, Enter
  <2>15. CASE RaiseError(c)    BY <2>15 DEF RaiseError
  <2>16. CASE CheckOutput(c)
    <3>1. UNCHANGED <<holder, pool>>
          /\ \E step \in {"drain", "done"} : pc' = [pc EXCEPT ![c] = step]
      BY <2>16 DEF CheckOutput
    <3>2. QED
      BY <3>1
  <2>17. CASE Drain(c)         BY <2>17 DEF Drain, PoolOf
  <2>18. CASE AcquireTimeout(c)  BY <2>18 DEF AcquireTimeout
  <2>19. CASE ConnectFails(c)    BY <2>19 DEF ConnectFails, Leave
  <2>20. QED
    BY <1>1, <2>1, <2>2, <2>3, <2>4, <2>5, <2>6, <2>7, <2>8, <2>9, <2>10,
       <2>11, <2>12, <2>13, <2>14, <2>15, <2>16, <2>17, <2>18, <2>19
    DEF Step, Fault
<1>2. ASSUME NEW k \in Connections, Drop(k) PROVE Guarded'
  BY <1>2 DEF Drop
<1>3. ASSUME NEW p \in Processes, Crash(p) PROVE Guarded'
  BY <1>3 DEF Crash
<1>4. ASSUME NEW n \in LockNames, ExpireLock(n) PROVE Guarded'
  BY <1>4 DEF ExpireLock
<1>5. CASE UNCHANGED vars
  BY <1>5 DEF vars
<1>6. QED
  BY <1>1, <1>2, <1>3, <1>4, <1>5 DEF Next, Terminated

\* The connections that are open or about to be opened.
Opening == {<<c, attempt[c]>> : c \in {d \in Calls : pc[d] = "connect"}}
Engaged == Sessions \cup Opening

Bounded == IsFiniteSet(Engaged) /\ Cardinality(Engaged) <= MaxConnections

\* What the holder of lock name n has in its hand or is about to open.
Serves(n, k) ==
  /\ holder[n] \in Calls
  /\ \/ hand[holder[n]] = k
     \/ pc[holder[n]] = "connect" /\ k = <<holder[n], attempt[holder[n]]>>

\* With no session idle in a pool, every one belongs to a lock name of its
\* own, and so there are no more than names.
LEMMA NoneIdle ==
  Connected /\ Guarded /\ (\A p \in Processes : pool[p] = <<>>) => Bounded
<1> SUFFICES ASSUME Connected, Guarded, \A p \in Processes : pool[p] = <<>>
             PROVE  Bounded
  OBVIOUS
<1> USE NoConnectionIsNone DEF Connected, TypeOK
<1>1. \A k \in Engaged : \E n \in LockNames : Serves(n, k)
  <2>1. ASSUME NEW k \in Sessions PROVE \E n \in LockNames : Serves(n, k)
    <3>1. k \in Connections /\ Kept(k)
      BY LeakUnfolded DEF Sessions
    <3>2. \A p \in Processes : DOMAIN pool[p] = {}
      OBVIOUS
    <3>3. PICK c \in Calls : hand[c] = k
      BY <3>1, <3>2 DEF Kept
    <3>4. pc[c] \in Locked
      BY <3>1, <3>3 DEF Matched, Locked
    <3>5. QED
      BY <3>3, <3>4 DEF Guarded, HasLock, Serves
  <2>2. ASSUME NEW k \in Opening PROVE \E n \in LockNames : Serves(n, k)
    <3>1. PICK c \in Calls : pc[c] = "connect" /\ k = <<c, attempt[c]>>
      BY DEF Opening
    <3>2. pc[c] \in Locked
      BY <3>1 DEF Locked
    <3>3. QED
      BY <3>1, <3>2 DEF Guarded, HasLock, Serves
  <2>3. QED
    BY <2>1, <2>2 DEF Engaged
<1>2. \A n \in LockNames, k, l \in Engaged :
        Serves(n, k) /\ Serves(n, l) => k = l
  <2> SUFFICES ASSUME NEW n \in LockNames, NEW k \in Engaged,
                      NEW l \in Engaged, Serves(n, k), Serves(n, l)
               PROVE  k = l
    OBVIOUS
  <2>1. k # NoConnection /\ l # NoConnection
    BY DEF Engaged, Opening, Sessions, Connections
  <2>2. CASE pc[holder[n]] = "connect"
    <3>1. hand[holder[n]] = NoConnection
      BY <2>2 DEF Matched, Using, Serves
    <3>2. QED
      BY <2>1, <3>1 DEF Serves
  <2>3. CASE pc[holder[n]] # "connect"
    BY <2>3 DEF Serves
  <2>4. QED
    BY <2>2, <2>3
<1> DEFINE f == [k \in Engaged |-> CHOOSE n \in LockNames : Serves(n, k)]
<1>3. \A k \in Engaged : f[k] \in LockNames /\ Serves(f[k], k)
  BY <1>1
<1>4. f \in Injection(Engaged, LockNames)
  <2>1. f \in [Engaged -> LockNames]
    BY <1>3
  <2>2. \A k, l \in Engaged : f[k] = f[l] => k = l
    BY <1>2, <1>3
  <2>3. QED
    BY <2>1, <2>2, Fun_IsInj
<1>5. IsFiniteSet(LockNames) /\ Cardinality(LockNames) = MaxConnections
  BY FS_Interval, MaxConnectionsAssumption DEF LockNames
<1>6. QED
  BY <1>4, <1>5, FS_Injection DEF Bounded

\* No more sessions than before.
LEMMA FewerEngaged ==
  ASSUME Bounded, Engaged' \subseteq Engaged
  PROVE  Bounded'
<1>1. IsFiniteSet(Engaged') /\ Cardinality(Engaged') <= Cardinality(Engaged)
      /\ Cardinality(Engaged') \in Nat /\ Cardinality(Engaged) \in Nat
  BY FS_Subset, FS_CardinalityType DEF Bounded
<1>2. QED
  BY <1>1, MaxConnectionsAssumption DEF Bounded

\* A call decides to open a connection when it has found the pool of the only
\* process empty; no other step adds a session.
LEMMA BoundedStep ==
  ASSUME LockedProcess, Connected, Connected', Guarded, Guarded', Bounded,
         [Next]_vars
  PROVE  Bounded'
<1> USE DEF Connected, TypeOK
<1>1. ASSUME \A c \in Calls : pc'[c] = "connect" =>
               pc[c] = "connect" /\ attempt'[c] = attempt[c],
             \A k \in Connections : session'[k] \in {"open", "dropped"} =>
               k \in Engaged
      PROVE  Bounded'
  <2>1. Engaged' \subseteq Engaged
    BY <1>1 DEF Engaged, Opening, Sessions
  <2>2. QED
    BY <2>1, FewerEngaged
<1>2. ASSUME NEW c \in Calls, Quiet(c) PROVE Bounded'
  <2>1. session' = session
        /\ \A d \in Calls : pc'[d] = "connect" =>
             pc[d] = "connect" /\ attempt'[d] = attempt[d]
    BY <1>2
    DEF Quiet, Fault, Start, TryLock, Unlock, FoundAlive, Use, UseFails, Save,
        SaveFails, Retry, Enter, RaiseError, CheckOutput, AcquireTimeout,
        ConnectFails, Leave
  <2>2. QED
    BY <1>1, <2>1 DEF Engaged, Sessions
<1>3. ASSUME NEW c \in Calls, Moving(c),
             pc'[c] # "connect" \/ pc[c] = "connect"
      PROVE  Bounded'
  <2>1. <<c, attempt[c]>> \in Connections
    BY DEF Connections
  <2>2. \A k \in Connections : session'[k] \in {"open", "dropped"} =>
          \/ session[k] \in {"open", "dropped"}
          \/ pc[c] = "connect" /\ k = <<c, attempt[c]>>
    BY <1>3, <2>1
    DEF Moving, PopConnection, FoundDead, Connect, PutBack, Abort, Drain,
        Disconnect
  <2>3. \A d \in Calls : pc'[d] = "connect" =>
          pc[d] = "connect" /\ attempt'[d] = attempt[d]
    BY <1>3
    DEF Moving, PopConnection, FoundDead, Connect, PutBack, Abort, Drain,
        Disconnect, Leave
  <2>4. QED
    BY <1>1, <2>2, <2>3 DEF Engaged, Opening, Sessions
<1>4. ASSUME NEW c \in Calls, Moving(c), pc'[c] = "connect", pc[c] # "connect"
      PROVE  Bounded'
  <2>1. UNCHANGED pool /\ ~(Reuse /\ PoolOf(c) # <<>>)
    BY <1>4
    DEF Moving, PopConnection, FoundDead, Connect, PutBack, Abort, Drain, Leave
  <2>2. ASSUME NEW p \in Processes PROVE pool[p] = <<>>
    <3>1. CASE ~Reuse
      BY <3>1 DEF Guarded
    <3>2. CASE p = ProcessOf[c] /\ Reuse
      BY <2>1, <3>2 DEF PoolOf
    <3>3. CASE p # ProcessOf[c]
      <4>1. \A d \in Calls : ProcessOf[d] # p
        BY <3>3 DEF LockedProcess
      <4>2. \A i \in DOMAIN pool[p] : pool[p][i][1] \in Calls
        BY DEF Connections
      <4>3. \A i \in DOMAIN pool[p] : ProcessOf[pool[p][i][1]] = p
        BY DEF OnePlace, PoolsApart
      <4>4. DOMAIN pool[p] = {}
        BY <4>1, <4>2, <4>3
      <4>5. pool[p] \in Seq(Connections)
        OBVIOUS
      <4>6. QED
        <5>1. pool[p] # <<>> => /\ Len(pool[p]) \in Nat \ {0}
                                /\ DOMAIN pool[p] = 1 .. Len(pool[p])
          BY <4>5, PoolLaws
        <5>2. \A n \in Nat \ {0} : 1 \in 1 .. n
          OBVIOUS
        <5>3. QED
          BY <4>4, <5>1, <5>2
    <3>4. QED
      BY <3>1, <3>2, <3>3
  <2>3. (Connected /\ Guarded /\ (\A p \in Processes : pool[p] = <<>>)
          => Bounded)'
    BY NoneIdle, PTL
  <2>4. QED
    BY <2>1, <2>2, <2>3
<1>5. ASSUME NEW k \in Connections, Drop(k) PROVE Bounded'
  BY <1>1, <1>5 DEF Drop, Engaged, Sessions
<1>6. ASSUME NEW p \in Processes, Crash(p) PROVE Bounded'
  BY <1>1, <1>6 DEF Crash, Engaged, Sessions
<1>7. ASSUME NEW n \in LockNames, ExpireLock(n) PROVE Bounded'
  BY <1>1, <1>7 DEF ExpireLock, Engaged, Sessions
<1>8. CASE UNCHANGED vars
  BY <1>1, <1>8 DEF vars, Engaged, Sessions
<1>9. QED
  BY <1>2, <1>3, <1>4, <1>5, <1>6, <1>7, <1>8, StepKinds
  DEF Next, Terminated

\* ngs_max_connections bounds the sessions of a switch, idle ones included,
\* for any number of threads of one process that send commands under the
\* locks, whatever fails; SessionsBounded says nothing of queries, which take
\* no lock, nor of the idle sessions of other processes.
THEOREM SessionsStayBounded ==
  ASSUME LockedProcess
  PROVE  Spec => []SessionsBounded
<1>1. Init => Guarded /\ Bounded
  <2> SUFFICES ASSUME Init PROVE Guarded /\ Bounded
    OBVIOUS
  <2>1. Guarded
    BY DEF Init, Guarded, Locked, Using
  <2>2. Engaged = {}
    BY DEF Init, Engaged, Opening, Sessions
  <2>3. QED
    BY <2>1, <2>2, FS_EmptySet, MaxConnectionsAssumption DEF Bounded
<1>2. Connected /\ Guarded /\ [Next]_vars => Guarded'
  BY GuardedStep DEF Connected
<1>3. Connected /\ Connected' /\ Guarded /\ Guarded' /\ Bounded /\ [Next]_vars
      => Bounded'
  BY BoundedStep
<1>4. Bounded => SessionsBounded
  <2> SUFFICES ASSUME Bounded PROVE SessionsBounded
    OBVIOUS
  <2>1. Sessions \subseteq Engaged
    BY DEF Engaged
  <2>2. Cardinality(Sessions) <= Cardinality(Engaged)
        /\ Cardinality(Sessions) \in Nat /\ Cardinality(Engaged) \in Nat
    BY <2>1, FS_Subset, FS_CardinalityType DEF Bounded
  <2>3. QED
    BY <2>2, MaxConnectionsAssumption DEF Bounded, SessionsBounded
<1>5. QED
  BY <1>1, <1>2, <1>3, <1>4, ConnectedInvariant, PTL DEF Spec
=============================================================================
