------------------------- MODULE NetworkSyncProofs -------------------------
(***************************************************************************)
(* Proof that, for any number of networks, switches, failures and          *)
(* overlapping calls, the switches have the VLANs of the database unless   *)
(* the last edit failed, raced with another call for the VLAN, or sent an  *)
(* old reading.                                                            *)
(***************************************************************************)
EXTENDS NetworkSync, TLAPS

Calls == Networks \X Operations
Values == Vlans \cup {NoVlan}
Readings == UNION {[D -> SUBSET Values] : D \in SUBSET SUBSET Physnets}

Call == [vlan : Values, todo : SUBSET Switches, read : Readings,
         failed : BOOLEAN, raced : SUBSET Switches,
         old : SUBSET SUBSET Physnets]

Config == [vlans : SUBSET Values, trunk : SUBSET Values]

Types ==
  /\ deployment \in AllDeployments
  /\ db \in [Networks -> Values]
  /\ call \in [Calls -> Call]
  /\ config \in [Switches -> Config]

-----------------------------------------------------------------------------
(* The invariant *)

\* What a call has read is in the database, until that changes.
Fresh(c) ==
  \A P \in DOMAIN call[c].read \ call[c].old :
    call[c].read[P] = PhysnetVlans(P)

\* A network is created once, and then deleted once.
Once(n) ==
  /\ n \notin made => /\ db[n] = NoVlan
                      /\ call[<<n, "create">>].todo = {}
  /\ n \notin made \/ db[n] # NoVlan => call[<<n, "delete">>].todo = {}

\* Networks of one switch have VLANs of their own.
Distinct(n, m) ==
  n # m /\ db[n] = db[m] /\ db[n] # NoVlan
    => DevicesOf(n) \cap DevicesOf(m) = {}

\* create_network_postcommit visits switches of its network, with the VLAN
\* that it has in the database or, when it was deleted, in a race.
Creating(n) ==
  LET c == call[<<n, "create">>]
  IN  \A s \in c.todo :
        /\ s \in DevicesOf(n)
        /\ db[n] = c.vlan \/ (db[n] = NoVlan /\ s \in c.raced)

\* The other calls for the VLAN of a network are in a race on its switches.
Raced(n, d) ==
  d # <<n, "create">> /\ db[n] # NoVlan /\ call[d].vlan = db[n]
    => call[d].todo \cap DevicesOf(n) \subseteq call[d].raced

\* Edits leave alone what a switch does not have.
Bare(s) ==
  /\ s \notin deployment.trunked => config[s].trunk = {}
  /\ s \notin deployment.managed => config[s] = [vlans |-> {}, trunk |-> {}]

\* NetworksServed, for a network whose call may still run.
Served(n, s) ==
  db[n] # NoVlan /\ ~call[<<n, "create">>].failed =>
    \/ s \in call[<<n, "create">>].todo
    \/ <<s, db[n]>> \in spoilt
    \/ /\ db[n] \in config[s].vlans
       /\ \/ db[n] \in config[s].trunk
          \/ s \notin deployment.trunked
          \/ Converges(s) /\ s \in outdated

\* DeletedGone, where only a call that deletes the VLAN is an excuse.
IsGone(s, v) ==
  \/ v \in PhysnetVlans(deployment.physnets[s])
  \/ <<s, v>> \in spoilt
  \/ \E n \in Networks :
       /\ call[<<n, "delete">>].vlan = v
       /\ s \in call[<<n, "delete">>].todo
  \/ /\ v \notin config[s].vlans
     /\ v \in config[s].trunk => Converges(s)

\* TrunkIsDatabase
Converged(s) ==
  \/ ~Converges(s)
  \/ s \in outdated
  \/ \E c \in Calls : s \in call[c].todo
  \/ config[s].trunk = PhysnetVlans(deployment.physnets[s])

SyncInv ==
  /\ Types
  /\ \A c \in Calls : Fresh(c)
  /\ \A n \in Networks : Once(n) /\ Creating(n)
  /\ \A n, m \in Networks : Distinct(n, m)
  /\ \A n \in Networks, d \in Calls : Raced(n, d)
  /\ \A s \in Switches : Bare(s)
  /\ \A n \in Networks : \A s \in DevicesOf(n) \cap deployment.managed : Served(n, s)
  /\ \A s \in Switches, v \in Vlans : IsGone(s, v)
  /\ \A s \in deployment.managed : Converged(s)

-----------------------------------------------------------------------------
(* Facts about the operators *)

\* The calls of a network, by name.
LEMMA CallNames ==
  ASSUME NEW n \in Networks
  PROVE  /\ <<n, "create">> \in Calls /\ <<n, "delete">> \in Calls
         /\ <<n, "create">> # <<n, "delete">>
         /\ \A m \in Networks : <<n, "create">> = <<m, "create">> => m = n
BY DEF Calls, Operations

\* A call that has returned has nothing to do and knows nothing.
LEMMA ReturnedCall ==
  ASSUME NEW f \in BOOLEAN
  PROVE  /\ Returned(f) \in Call
         /\ Returned(f).todo = {} /\ DOMAIN Returned(f).read = {}
         /\ Returned(f).failed = f
<1>1. << >> \in [{} -> SUBSET Values] /\ DOMAIN << >> = {}
  OBVIOUS
<1>2. << >> \in Readings
  BY <1>1 DEF Readings
<1> QED BY <1>1, <1>2 DEF Returned, Call, Values

\* VLANs of physical networks are VLANs.
LEMMA PhysnetType ==
  ASSUME Types, NEW P
  PROVE  PhysnetVlans(P) \in SUBSET Values
BY DEF Types, PhysnetVlans

\* The VLAN of a network is one of its physical network.
LEMMA OnPhysnet ==
  ASSUME Types, NEW n \in Networks, NEW P, db[n] # NoVlan, Covers(P, n)
  PROVE  db[n] \in PhysnetVlans(P)
BY DEF PhysnetVlans

\* A reading is a function on sets of physical networks.
LEMMA ReadingDef ==
  ASSUME NEW r
  PROVE  r \in Readings <=>
           /\ DOMAIN r \in SUBSET SUBSET Physnets
           /\ r \in [DOMAIN r -> SUBSET Values]
BY DEF Readings

\* The types of the fields of a call.
LEMMA CallFields ==
  ASSUME Types, NEW c \in Calls
  PROVE  /\ call[c] \in Call
         /\ call[c].vlan \in Values /\ call[c].todo \in SUBSET Switches
         /\ call[c].read \in Readings /\ call[c].failed \in BOOLEAN
         /\ call[c].raced \in SUBSET Switches
         /\ call[c].old \in SUBSET SUBSET Physnets
BY DEF Types, Call

-----------------------------------------------------------------------------
(* The database changes *)

\* What is left of the other calls when one starts, and what that one has to do.
LEMMA StartedCalls ==
  ASSUME Types, NEW c \in Calls, NEW v \in Values, call' = Started(c, v)
  PROVE  /\ call' \in [Calls -> Call]
         /\ call'[c].vlan = v /\ call'[c].todo = DevicesOf(c[1])
         /\ DOMAIN call'[c].read = {} /\ ~call'[c].failed
         /\ \A d \in Calls : d # c =>
              /\ call'[d].vlan = call[d].vlan /\ call'[d].todo = call[d].todo
              /\ call'[d].read = call[d].read /\ call'[d].failed = call[d].failed
              /\ call'[d].old = {P \in DOMAIN call[d].read :
                                   P \in call[d].old \/ Covers(P, c[1])}
              /\ call[d].raced \subseteq call'[d].raced
              /\ call[d].vlan = v =>
                   DevicesOf(c[1]) \cap call[d].todo \subseteq call'[d].raced
<1> DEFINE n == c[1]
           rivals == {d \in Calls : call[d].vlan = v}
           new == [Returned(FALSE) EXCEPT
                     !.vlan = v, !.todo = DevicesOf(n),
                     !.raced = DevicesOf(n) \cap UNION {call[r].todo : r \in rivals}]
           other(d) == [call[d] EXCEPT
                          !.old = {P \in DOMAIN call[d].read :
                                     P \in @ \/ Covers(P, n)},
                          !.raced = IF d \in rivals
                                    THEN @ \cup (DevicesOf(n) \cap call[d].todo)
                                    ELSE @]
<1>1. DOMAIN call = Calls
  BY DEF Types
<1>2. call' = [d \in Calls |-> IF d = c THEN new ELSE other(d)]
  BY <1>1 DEF Started
<1>3. DevicesOf(n) \in SUBSET Switches
  BY DEF DevicesOf
<1>4. /\ new \in Call /\ new.vlan = v /\ new.todo = DevicesOf(n)
      /\ DOMAIN new.read = {} /\ ~new.failed
  <2>1. Returned(FALSE) \in Call /\ DOMAIN Returned(FALSE).read = {}
        /\ ~Returned(FALSE).failed
    BY ReturnedCall
  <2>2. DevicesOf(n) \cap UNION {call[r].todo : r \in rivals} \in SUBSET Switches
    BY <1>3
  <2> HIDE DEF rivals
  <2> QED BY <1>3, <2>1, <2>2 DEF Call
<1>5. ASSUME NEW d \in Calls
      PROVE  /\ other(d) \in Call
             /\ other(d).vlan = call[d].vlan /\ other(d).todo = call[d].todo
             /\ other(d).read = call[d].read /\ other(d).failed = call[d].failed
             /\ other(d).old = {P \in DOMAIN call[d].read :
                                  P \in call[d].old \/ Covers(P, n)}
             /\ call[d].raced \subseteq other(d).raced
             /\ call[d].vlan = v =>
                  DevicesOf(n) \cap call[d].todo \subseteq other(d).raced
  <2>1. call[d] \in Call /\ call[d].todo \in SUBSET Switches
        /\ call[d].raced \in SUBSET Switches /\ call[d].read \in Readings
    BY CallFields
  <2>2. {P \in DOMAIN call[d].read : P \in call[d].old \/ Covers(P, n)}
          \in SUBSET SUBSET Physnets
    BY <2>1, ReadingDef
  <2> QED BY <1>3, <2>1, <2>2 DEF Call
<1> HIDE DEF new, other
<1> QED BY <1>2, <1>4, <1>5

\* Only the VLANs of the physical networks of network n change with it.
LEMMA OtherPhysnets ==
  ASSUME Types, NEW n \in Networks, NEW w, db' = [db EXCEPT ![n] = w],
         deployment' = deployment, NEW P
  PROVE  /\ ~Covers(P, n) => PhysnetVlans(P)' = PhysnetVlans(P)
         /\ \A v \in PhysnetVlans(P) : v # db[n] => v \in PhysnetVlans(P)'
<1>1. \A m \in Networks : m # n => db'[m] = db[m]
  BY DEF Types
<1>2. \A m \in Networks : Covers(P, m)' <=> Covers(P, m)
  BY DEF Covers
<1> QED BY <1>1, <1>2 DEF PhysnetVlans

\* What the start of a call keeps, whatever changed for its network.
LEMMA StartKeeps ==
  ASSUME SyncInv, NEW c \in Calls, NEW v \in Values, call' = Started(c, v),
         NEW w \in Values, db' = [db EXCEPT ![c[1]] = w],
         UNCHANGED <<deployment, config, spoilt, outdated>>
  PROVE  /\ Types'
         /\ \A d \in Calls : Fresh(d)'
         /\ \A s \in Switches : Bare(s)'
         /\ \A n \in Networks : DevicesOf(n)' = DevicesOf(n)
         /\ \A s \in Switches : Converges(s)' <=> Converges(s)
<1> DEFINE n == c[1]
<1>0. n \in Networks /\ Types
  BY DEF Calls, SyncInv
<1>1. Types'
  BY <1>0, StartedCalls DEF Types
<1>2. ASSUME NEW d \in Calls PROVE Fresh(d)'
  <2>1. CASE d = c
    BY <1>0, <2>1, StartedCalls DEF Fresh
  <2>2. CASE d # c
    <3> SUFFICES ASSUME NEW P \in DOMAIN call'[d].read, P \notin call'[d].old
                 PROVE  call'[d].read[P] = PhysnetVlans(P)'
      BY DEF Fresh
    <3>1. P \in DOMAIN call[d].read /\ P \notin call[d].old /\ ~Covers(P, n)
      BY <1>0, <2>2, StartedCalls
    <3>2. call[d].read[P] = PhysnetVlans(P)
      BY <3>1 DEF SyncInv, Fresh
    <3>3. PhysnetVlans(P)' = PhysnetVlans(P)
      BY <1>0, <3>1, OtherPhysnets
    <3> QED BY <1>0, <2>2, <3>2, <3>3, StartedCalls
  <2> QED BY <2>1, <2>2
<1>3. \A s \in Switches : Bare(s)'
  BY DEF SyncInv, Bare
<1> QED BY <1>1, <1>2, <1>3 DEF DevicesOf, Covers, Converges

\* A network is created.
LEMMA CreateKeeps ==
  ASSUME SyncInv, NEW n \in Networks, CreateNetwork(n)
  PROVE  SyncInv'
<1> DEFINE c == <<n, "create">>
<1>0. PICK v \in Vlans :
        Free(v, n) /\ db' = [db EXCEPT ![n] = v] /\ call' = Started(c, v)
  BY DEF CreateNetwork
<1>1. /\ n \notin made /\ made' = made \cup {n}
      /\ UNCHANGED <<deployment, config, spoilt, outdated>>
  BY DEF CreateNetwork
<1>2. Types /\ c \in Calls /\ v \in Values /\ c[1] = n /\ v # NoVlan
  BY CallNames, NoVlanAssumption DEF SyncInv, Values
<1>3. db[n] = NoVlan /\ call[c].todo = {} /\ call[<<n, "delete">>].todo = {}
  BY <1>1 DEF SyncInv, Once
<1>4. db'[n] = v /\ \A m \in Networks : m # n => db'[m] = db[m]
  BY <1>0, <1>2 DEF Types
<1>5. /\ Types'
      /\ \A d \in Calls : Fresh(d)'
      /\ \A s \in Switches : Bare(s)'
      /\ \A m \in Networks : DevicesOf(m)' = DevicesOf(m)
      /\ \A s \in Switches : Converges(s)' <=> Converges(s)
  BY <1>0, <1>1, <1>2, StartKeeps
<1>6. /\ call'[c].vlan = v /\ call'[c].todo = DevicesOf(n)
      /\ \A d \in Calls : d # c =>
           /\ call'[d].vlan = call[d].vlan /\ call'[d].todo = call[d].todo
           /\ call'[d].failed = call[d].failed
           /\ call[d].raced \subseteq call'[d].raced
           /\ call[d].vlan = v =>
                DevicesOf(n) \cap call[d].todo \subseteq call'[d].raced
  BY <1>0, <1>2, StartedCalls
<1>7. ASSUME NEW m \in Networks PROVE Once(m)' /\ Creating(m)'
  <2>1. CASE m = n
    BY <1>1, <1>2, <1>3, <1>4, <1>5, <1>6, <2>1, CallNames DEF Once, Creating
  <2>2. CASE m # n
    <3>1. <<m, "create">> # c /\ <<m, "delete">> # c
      BY <2>2
    <3>2. Once(m) /\ Creating(m)
      BY DEF SyncInv
    <3> QED BY <1>1, <1>4, <1>5, <1>6, <2>2, <3>1, <3>2, CallNames
            DEF Once, Creating
  <2> QED BY <2>1, <2>2
<1>8. ASSUME NEW m \in Networks, NEW k \in Networks PROVE Distinct(m, k)'
  <2>1. Distinct(m, k)
    BY DEF SyncInv
  <2>2. CASE m # n /\ k # n
    BY <1>4, <1>5, <2>1, <2>2 DEF Distinct
  <2>3. CASE m = n \/ k = n
    BY <1>0, <1>4, <1>5, <2>3 DEF Free, Distinct
  <2> QED BY <2>2, <2>3
<1>9. ASSUME NEW m \in Networks, NEW d \in Calls PROVE Raced(m, d)'
  <2>0. Raced(m, d)
    BY DEF SyncInv
  <2>1. CASE m = n
    BY <1>4, <1>5, <1>6, <2>1 DEF Raced
  <2>2. CASE m # n /\ d = c
    BY <1>0, <1>4, <1>5, <1>6, <2>2 DEF Free, Raced
  <2>3. CASE m # n /\ d # c
    BY <1>4, <1>5, <1>6, <2>0, <2>3 DEF Raced
  <2> QED BY <2>1, <2>2, <2>3
<1>10. ASSUME NEW m \in Networks, NEW s \in DevicesOf(m)' \cap deployment.managed
       PROVE  Served(m, s)'
  <2>1. CASE m = n
    BY <1>5, <1>6, <2>1 DEF Served
  <2>2. CASE m # n
    <3>1. Served(m, s)
      BY <1>5 DEF SyncInv
    <3>2. <<m, "create">> # c /\ <<m, "create">> \in Calls
      BY <2>2, CallNames
    <3>3. s \in Switches
      BY DEF DevicesOf
    <3> QED BY <1>1, <1>4, <1>5, <1>6, <2>2, <3>1, <3>2, <3>3 DEF Served
  <2> QED BY <2>1, <2>2
<1>11. ASSUME NEW s \in Switches, NEW u \in Vlans PROVE IsGone(s, u)'
  <2>0. IsGone(s, u)
    BY DEF SyncInv
  <2>1. u \in PhysnetVlans(deployment.physnets[s])
          => u \in PhysnetVlans(deployment.physnets[s])'
    <3>1. u \in PhysnetVlans(deployment.physnets[s]) => u # db[n]
      BY <1>3 DEF PhysnetVlans
    <3> QED BY <1>0, <1>1, <1>2, <3>1, OtherPhysnets
  <2>2. \A m \in Networks :
          <<m, "delete">> # c /\ <<m, "delete">> \in Calls
    BY CallNames
  <2> QED BY <1>1, <1>5, <1>6, <2>0, <2>1, <2>2 DEF IsGone
<1>12. ASSUME NEW s \in deployment.managed PROVE Converged(s)'
  <2>0. s \in Switches /\ Converged(s)
    BY <1>2 DEF SyncInv, Types, AllDeployments
  <2>1. CASE s \in DevicesOf(n)
    BY <1>2, <1>6, <2>1 DEF Converged
  <2>2. CASE s \notin DevicesOf(n)
    <3>1. PhysnetVlans(deployment.physnets[s])'
            = PhysnetVlans(deployment.physnets[s])
      BY <1>0, <1>1, <1>2, <2>0, <2>2, OtherPhysnets DEF DevicesOf
    <3>2. \A d \in Calls : s \in call[d].todo => s \in call'[d].todo
      BY <1>3, <1>6
    <3> QED BY <1>1, <1>5, <2>0, <3>1, <3>2 DEF Converged
  <2> QED BY <2>1, <2>2
<1> QED BY <1>1, <1>5, <1>7, <1>8, <1>9, <1>10, <1>11, <1>12 DEF SyncInv

\* A network is deleted.
LEMMA DeleteKeeps ==
  ASSUME SyncInv, NEW n \in Networks, DeleteNetwork(n)
  PROVE  SyncInv'
<1> DEFINE c == <<n, "delete">>
           v == db[n]
<1>1. /\ v # NoVlan /\ db' = [db EXCEPT ![n] = NoVlan]
      /\ call' = Started(c, v)
      /\ UNCHANGED <<deployment, config, spoilt, outdated, made>>
  BY DEF DeleteNetwork
<1>2. /\ Types /\ c \in Calls /\ v \in Values /\ c[1] = n
      /\ NoVlan \in Values
  BY CallNames DEF SyncInv, Values, Types
<1>3. n \in made /\ call[c].todo = {}
  BY <1>1 DEF SyncInv, Once
<1>4. db'[n] = NoVlan /\ \A m \in Networks : m # n => db'[m] = db[m]
  BY <1>1, <1>2 DEF Types
<1>5. /\ Types'
      /\ \A d \in Calls : Fresh(d)'
      /\ \A s \in Switches : Bare(s)'
      /\ \A m \in Networks : DevicesOf(m)' = DevicesOf(m)
      /\ \A s \in Switches : Converges(s)' <=> Converges(s)
  BY <1>1, <1>2, StartKeeps
<1>6. /\ call'[c].vlan = v /\ call'[c].todo = DevicesOf(n)
      /\ \A d \in Calls : d # c =>
           /\ call'[d].vlan = call[d].vlan /\ call'[d].todo = call[d].todo
           /\ call'[d].failed = call[d].failed
           /\ call[d].raced \subseteq call'[d].raced
           /\ call[d].vlan = v =>
                DevicesOf(n) \cap call[d].todo \subseteq call'[d].raced
  BY <1>1, <1>2, StartedCalls
<1>c. \A m \in Networks : <<m, "create">> # c /\ <<m, "create">> \in Calls
  BY CallNames
<1>7. ASSUME NEW m \in Networks PROVE Once(m)' /\ Creating(m)'
  <2>0. Once(m) /\ Creating(m)
    BY DEF SyncInv
  <2>1. CASE m = n
    BY <1>1, <1>3, <1>4, <1>5, <1>6, <1>c, <2>0, <2>1 DEF Once, Creating
  <2>2. CASE m # n
    <3>1. <<m, "delete">> # c /\ <<m, "delete">> \in Calls
      BY <2>2, CallNames
    <3> QED BY <1>1, <1>4, <1>5, <1>6, <1>c, <2>0, <2>2, <3>1
            DEF Once, Creating
  <2> QED BY <2>1, <2>2
<1>8. \A m, k \in Networks : Distinct(m, k)'
  BY <1>4, <1>5 DEF SyncInv, Distinct
<1>9. ASSUME NEW m \in Networks, NEW d \in Calls PROVE Raced(m, d)'
  <2>0. Raced(m, d)
    BY DEF SyncInv
  <2>1. CASE m = n
    BY <1>4, <2>1 DEF Raced
  <2>2. CASE m # n /\ d = c
    <3>1. db'[m] # NoVlan /\ call'[d].vlan = db'[m]
            => call'[d].todo \cap DevicesOf(m) = {}
      BY <1>1, <1>4, <1>6, <2>2 DEF SyncInv, Distinct
    <3> QED BY <1>5, <3>1 DEF Raced
  <2>3. CASE m # n /\ d # c
    BY <1>4, <1>5, <1>6, <2>0, <2>3 DEF Raced
  <2> QED BY <2>1, <2>2, <2>3
<1>10. ASSUME NEW m \in Networks, NEW s \in DevicesOf(m)' \cap deployment.managed
       PROVE  Served(m, s)'
  <2>1. CASE m = n
    BY <1>4, <2>1 DEF Served
  <2>2. CASE m # n
    <3>1. Served(m, s)
      BY <1>5 DEF SyncInv
    <3>2. s \in Switches
      BY DEF DevicesOf
    <3> QED BY <1>1, <1>4, <1>5, <1>6, <1>c, <2>2, <3>1, <3>2 DEF Served
  <2> QED BY <2>1, <2>2
<1>11. ASSUME NEW s \in Switches, NEW u \in Vlans PROVE IsGone(s, u)'
  <2>0. IsGone(s, u)
    BY DEF SyncInv
  <2>1. ASSUME NEW m \in Networks, call[<<m, "delete">>].vlan = u,
               s \in call[<<m, "delete">>].todo
        PROVE  /\ call'[<<m, "delete">>].vlan = u
               /\ s \in call'[<<m, "delete">>].todo
    <3>1. m # n
      BY <1>3, <2>1
    <3>2. <<m, "delete">> # c /\ <<m, "delete">> \in Calls
      BY <3>1, CallNames
    <3> QED BY <1>6, <2>1, <3>2
  <2>2. CASE u \in PhysnetVlans(deployment.physnets[s])
    <3>1. CASE u = v /\ s \in DevicesOf(n)
      BY <1>6, <3>1 DEF IsGone
    <3>2. CASE u # v
      <4>1. u \in PhysnetVlans(deployment.physnets[s])'
        BY <1>1, <1>2, <2>2, <3>2, OtherPhysnets
      <4> QED BY <1>1, <4>1 DEF IsGone
    <3>3. CASE s \notin DevicesOf(n)
      <4>1. u \in PhysnetVlans(deployment.physnets[s])'
        BY <1>1, <1>2, <2>2, <3>3, OtherPhysnets DEF DevicesOf
      <4> QED BY <1>1, <4>1 DEF IsGone
    <3> QED BY <3>1, <3>2, <3>3
  <2>3. CASE u \notin PhysnetVlans(deployment.physnets[s])
    BY <1>1, <1>5, <2>0, <2>1, <2>3 DEF IsGone
  <2> QED BY <2>2, <2>3
<1>12. ASSUME NEW s \in deployment.managed PROVE Converged(s)'
  <2>0. s \in Switches /\ Converged(s)
    BY <1>2 DEF SyncInv, Types, AllDeployments
  <2>1. CASE s \in DevicesOf(n)
    BY <1>2, <1>6, <2>1 DEF Converged
  <2>2. CASE s \notin DevicesOf(n)
    <3>1. PhysnetVlans(deployment.physnets[s])'
            = PhysnetVlans(deployment.physnets[s])
      BY <1>1, <1>2, <2>0, <2>2, OtherPhysnets DEF DevicesOf
    <3>2. \A d \in Calls : s \in call[d].todo => s \in call'[d].todo
      BY <1>3, <1>6
    <3> QED BY <1>1, <1>5, <2>0, <3>1, <3>2 DEF Converged
  <2> QED BY <2>1, <2>2
<1> QED BY <1>1, <1>5, <1>7, <1>8, <1>9, <1>10, <1>11, <1>12 DEF SyncInv

-----------------------------------------------------------------------------
(* A call reads the database *)

\* A call reads the VLANs of the physical networks of a switch.
LEMMA ReadKeeps ==
  ASSUME SyncInv, NEW c \in Calls, NEW s \in Switches, ReadVlans(c, s)
  PROVE  SyncInv'
<1> DEFINE P == SwitchPhysnets(c, s)
           read == [Q \in DOMAIN call[c].read \cup {P} |->
                      IF Q = P THEN PhysnetVlans(P) ELSE call[c].read[Q]]
<1>0. Types
  BY DEF SyncInv
<1>1. /\ call' = [call EXCEPT ![c].read = read]
      /\ UNCHANGED <<deployment, db, config, spoilt, outdated, made>>
  BY DEF ReadVlans
<1>2. read \in Readings
  <2>1. P \in SUBSET Physnets
    BY <1>0 DEF Types, AllDeployments, SwitchPhysnets
  <2>2. PhysnetVlans(P) \in SUBSET Values
    BY <1>0, PhysnetType
  <2>3. call[c].read \in Readings
    BY <1>0, CallFields
  <2> HIDE DEF P
  <2> QED BY <2>1, <2>2, <2>3, ReadingDef
<1>3. /\ call' \in [Calls -> Call]
      /\ call'[c].read = read
      /\ \A d \in Calls :
           /\ call'[d].vlan = call[d].vlan /\ call'[d].todo = call[d].todo
           /\ call'[d].failed = call[d].failed /\ call'[d].old = call[d].old
           /\ call'[d].raced = call[d].raced
           /\ d # c => call'[d].read = call[d].read
  <2> HIDE DEF read
  <2> QED BY <1>0, <1>1, <1>2 DEF Types, Call
<1>4. /\ \A Q : PhysnetVlans(Q)' = PhysnetVlans(Q)
      /\ \A n \in Networks : DevicesOf(n)' = DevicesOf(n)
      /\ \A t \in Switches : Converges(t)' <=> Converges(t)
  BY <1>1 DEF PhysnetVlans, DevicesOf, Covers, Converges
<1>5. Types'
  BY <1>0, <1>1, <1>3 DEF Types
<1>6. ASSUME NEW d \in Calls PROVE Fresh(d)'
  <2>1. Fresh(d)
    BY DEF SyncInv
  <2> QED BY <1>3, <1>4, <2>1 DEF Fresh
<1>7. ASSUME NEW n \in Networks PROVE Once(n)' /\ Creating(n)'
  <2>1. Once(n) /\ Creating(n) /\ <<n, "create">> \in Calls
        /\ <<n, "delete">> \in Calls
    BY CallNames DEF SyncInv
  <2>2. Once(n)'
    BY <1>1, <1>3, <2>1 DEF Once
  <2>3. Creating(n)'
    BY <1>1, <1>3, <1>4, <2>1 DEF Creating
  <2> QED BY <2>2, <2>3
<1>8. \A n, m \in Networks : Distinct(n, m)'
  BY <1>1, <1>4 DEF SyncInv, Distinct
<1>9. \A n \in Networks, d \in Calls : Raced(n, d)'
  BY <1>1, <1>3, <1>4 DEF SyncInv, Raced
<1>10. \A t \in Switches : Bare(t)'
  BY <1>1 DEF SyncInv, Bare
<1>11. ASSUME NEW n \in Networks, NEW t \in DevicesOf(n)' \cap deployment.managed
       PROVE  Served(n, t)'
  <2>1. Served(n, t) /\ t \in Switches
    BY <1>4 DEF SyncInv, DevicesOf
  <2> QED BY <1>1, <1>3, <1>4, <2>1, CallNames DEF Served
<1>12. ASSUME NEW t \in Switches, NEW v \in Vlans PROVE IsGone(t, v)'
  <2>1. IsGone(t, v)
    BY DEF SyncInv
  <2> QED BY <1>1, <1>3, <1>4, <2>1, CallNames DEF IsGone
<1>13. ASSUME NEW t \in deployment.managed PROVE Converged(t)'
  <2>1. Converged(t) /\ t \in Switches
    BY <1>0 DEF SyncInv, Types, AllDeployments
  <2> QED BY <1>1, <1>3, <1>4, <2>1 DEF Converged
<1> QED BY <1>1, <1>5, <1>6, <1>7, <1>8, <1>9, <1>10, <1>11, <1>12, <1>13
        DEF SyncInv

-----------------------------------------------------------------------------
(* A call visits a switch *)

\* An edit sends the VLANs that were read, or changes one.
LEMMA TrunkEdit ==
  ASSUME Types, NEW c \in Calls, NEW s \in Switches, Visiting(c, s)
  PROVE  /\ TrunkVlans(c, s) \in SUBSET Values
         /\ s \notin deployment.trunked => TrunkVlans(c, s) = config[s].trunk
         /\ Converges(s) =>
              TrunkVlans(c, s) = call[c].read[deployment.physnets[s]]
         /\ ~Converges(s) =>
              /\ \A v : v # call[c].vlan =>
                   (v \in TrunkVlans(c, s) <=> v \in config[s].trunk)
              /\ s \in deployment.trunked =>
                   (call[c].vlan \in TrunkVlans(c, s) <=> c[2] = "create")
<1>1. config[s] \in Config /\ call[c].vlan \in Values
  BY CallFields DEF Types
<1>2. Converges(s) =>
        call[c].read[deployment.physnets[s]] \in SUBSET Values
  BY CallFields, ReadingDef DEF Visiting, SwitchPhysnets
<1> QED BY <1>1, <1>2 DEF TrunkVlans, Converges, Config, SwitchPhysnets

\* Some commands of an edit leave other VLANs alone, but for the trunk ports
\* that converge.
LEMMA SomeEdits ==
  ASSUME Types, NEW c \in Calls, NEW s \in Switches, Visiting(c, s),
         NEW i \in 1 .. Len(Edits(c, s)), NEW after, after = Edits(c, s)[i]
  PROVE  /\ after \in Config
         /\ s \notin deployment.managed => after = config[s]
         /\ s \notin deployment.trunked => after.trunk = config[s].trunk
         /\ \A v : v # call[c].vlan =>
              /\ v \in after.vlans <=> v \in config[s].vlans
              /\ ~Converges(s) => (v \in after.trunk <=> v \in config[s].trunk)
<1> DEFINE w == call[c].vlan
           trunk == TrunkVlans(c, s)
           before == config[s]
<1>1. /\ before \in Config /\ w \in Values /\ trunk \in SUBSET Values
      /\ s \notin deployment.trunked => trunk = before.trunk
      /\ ~Converges(s) => \A v : v # w => (v \in trunk <=> v \in before.trunk)
  BY CallFields, TrunkEdit DEF Types
<1>2. \/ after = before
      \/ /\ s \in deployment.managed
         /\ \/ after = [before EXCEPT !.vlans = before.vlans \cup {w}]
            \/ after = [before EXCEPT !.trunk = trunk]
            \/ after = [vlans |-> before.vlans \cup {w}, trunk |-> trunk]
            \/ after = [vlans |-> before.vlans \ {w}, trunk |-> trunk]
  <2>1. CASE s \notin deployment.managed
    BY <2>1 DEF Edits
  <2>2. CASE s \in deployment.managed /\ c[2] = "create"
    <3> DEFINE some == [before EXCEPT !.vlans = before.vlans \cup {w}]
               all == [vlans |-> before.vlans \cup {w}, trunk |-> trunk]
    <3>1. Edits(c, s) \in {<<before, all>>, <<before, some, all>>}
      BY <2>2 DEF Edits, AddNetwork
    <3> HIDE DEF before, some, all
    <3>2. after \in {before, some, all}
      BY <3>1
    <3> QED BY <2>2, <3>2 DEF some, all
  <2>3. CASE s \in deployment.managed /\ c[2] # "create"
    <3> DEFINE some == [before EXCEPT !.trunk = trunk]
               all == [vlans |-> before.vlans \ {w}, trunk |-> trunk]
    <3>1. Edits(c, s) \in {<<before, all>>, <<before, some, all>>}
      BY <2>3 DEF Edits, DelNetwork
    <3> HIDE DEF before, some, all
    <3>2. after \in {before, some, all}
      BY <3>1
    <3> QED BY <2>3, <3>2 DEF some, all
  <2> QED BY <2>1, <2>2, <2>3
<1> HIDE DEF w, trunk, before
<1>3. /\ after \in Config
      /\ s \notin deployment.managed => after = before
      /\ s \notin deployment.trunked => after.trunk = before.trunk
      /\ \A v : v # w =>
           /\ v \in after.vlans <=> v \in before.vlans
           /\ ~Converges(s) => (v \in after.trunk <=> v \in before.trunk)
  BY <1>1, <1>2 DEF Config
<1> QED BY <1>3 DEF w, before

\* All commands of an edit do what it is for.
LEMMA AllEdits ==
  ASSUME Types, NEW c \in Calls, NEW s \in deployment.managed, s \in Switches,
         NEW after, after = Edits(c, s)[Len(Edits(c, s))]
  PROVE  /\ after.trunk = TrunkVlans(c, s)
         /\ call[c].vlan \in after.vlans <=> c[2] = "create"
<1>1. after = [vlans |-> IF c[2] = "create"
                         THEN config[s].vlans \cup {call[c].vlan}
                         ELSE config[s].vlans \ {call[c].vlan},
               trunk |-> TrunkVlans(c, s)]
  <2>1. CASE c[2] = "create"
    BY <2>1 DEF Edits, AddNetwork
  <2>2. CASE c[2] # "create"
    BY <2>2 DEF Edits, DelNetwork
  <2> QED BY <2>1, <2>2
<1> QED BY <1>1

\* An edit leads somewhere, if only to where it began.
LEMMA EditsExist ==
  ASSUME NEW c, NEW s
  PROVE  Len(Edits(c, s)) \in 1 .. Len(Edits(c, s))
BY DEF Edits, AddNetwork, DelNetwork

\* A call after a visit: it has fewer switches to visit, or has returned.
Shrinks(new, c, s) ==
  /\ new \in Call
  /\ new.todo \subseteq call[c].todo \ {s}
  /\ new.todo # {} => /\ new.vlan = call[c].vlan
                      /\ call[c].raced \ {s} \subseteq new.raced
  /\ \/ new.read = call[c].read /\ new.old = call[c].old
     \/ DOMAIN new.read = {}

\* A visit takes the switch off the call's list, and adds nothing to it.
LEMMA VisitedCall ==
  ASSUME Types, NEW c \in Calls, NEW s \in call[c].todo
  PROVE  /\ Shrinks(Visited(c, s), c, s)
         /\ Visited(c, s).todo = call[c].todo \ {s}
         /\ Visited(c, s).failed = call[c].failed
<1>1. call[c] \in Call /\ call[c].failed \in BOOLEAN
  BY CallFields
<1>2. CASE call[c].todo = {s}
  BY <1>1, <1>2, ReturnedCall DEF Visited, Shrinks
<1>3. CASE call[c].todo # {s}
  BY <1>1, <1>3 DEF Visited, Shrinks, Call
<1> QED BY <1>2, <1>3

\* What a visit keeps, whether the edit was done or failed.
LEMMA VisitKeeps ==
  ASSUME SyncInv, NEW c \in Calls, NEW s \in Switches, s \in call[c].todo,
         NEW new, Shrinks(new, c, s), call' = [call EXCEPT ![c] = new],
         NEW after \in Config, config' = [config EXCEPT ![s] = after],
         s \notin deployment.managed => after = config[s],
         s \notin deployment.trunked => after.trunk = config[s].trunk,
         UNCHANGED <<deployment, db, made>>
  PROVE  /\ Types'
         /\ \A d \in Calls : Fresh(d)'
         /\ \A n \in Networks : Once(n)' /\ Creating(n)'
         /\ \A n, m \in Networks : Distinct(n, m)'
         /\ \A n \in Networks, d \in Calls : Raced(n, d)'
         /\ \A t \in Switches : Bare(t)'
         /\ \A P : PhysnetVlans(P)' = PhysnetVlans(P)
         /\ \A n \in Networks : DevicesOf(n)' = DevicesOf(n)
         /\ \A t \in Switches : Converges(t)' <=> Converges(t)
         /\ call'[c] = new /\ \A d \in Calls : d # c => call'[d] = call[d]
         /\ config'[s] = after
         /\ \A t \in Switches : t # s => config'[t] = config[t]
<1>0. Types
  BY DEF SyncInv
<1>1. /\ \A P : PhysnetVlans(P)' = PhysnetVlans(P)
      /\ \A n \in Networks : DevicesOf(n)' = DevicesOf(n)
      /\ \A t \in Switches : Converges(t)' <=> Converges(t)
  BY DEF PhysnetVlans, DevicesOf, Covers, Converges
<1>2. call'[c] = new /\ \A d \in Calls : d # c => call'[d] = call[d]
  BY <1>0 DEF Types
<1>3. config'[s] = after /\ \A t \in Switches : t # s => config'[t] = config[t]
  BY <1>0 DEF Types
<1>4. Types'
  BY <1>0 DEF Types, Shrinks
<1>5. ASSUME NEW d \in Calls PROVE Fresh(d)'
  <2>1. Fresh(d)
    BY DEF SyncInv
  <2> QED BY <1>1, <1>2, <2>1 DEF Fresh, Shrinks
<1>6. \A d \in Calls : call'[d].todo \subseteq call[d].todo
  BY <1>2 DEF Shrinks
<1>7. ASSUME NEW d \in Calls, NEW t \in call'[d].todo
      PROVE  /\ call'[d].vlan = call[d].vlan
             /\ t \in call[d].raced => t \in call'[d].raced
  BY <1>2, <1>7 DEF Shrinks
<1>8. ASSUME NEW n \in Networks PROVE Once(n)' /\ Creating(n)'
  <2>1. /\ Once(n) /\ Creating(n)
        /\ <<n, "create">> \in Calls /\ <<n, "delete">> \in Calls
    BY CallNames DEF SyncInv
  <2>2. Once(n)'
    BY <1>6, <2>1 DEF Once
  <2>3. Creating(n)'
    BY <1>1, <1>6, <1>7, <2>1 DEF Creating
  <2> QED BY <2>2, <2>3
<1>9. \A n, m \in Networks : Distinct(n, m)'
  BY <1>1 DEF SyncInv, Distinct
<1>10. ASSUME NEW n \in Networks, NEW d \in Calls PROVE Raced(n, d)'
  <2>1. Raced(n, d)
    BY DEF SyncInv
  <2> QED BY <1>1, <1>6, <1>7, <2>1 DEF Raced
<1>11. ASSUME NEW t \in Switches PROVE Bare(t)'
  <2>1. Bare(t)
    BY DEF SyncInv
  <2> QED BY <1>3, <2>1 DEF Bare
<1> QED BY <1>1, <1>2, <1>3, <1>4, <1>5, <1>8, <1>9, <1>10, <1>11

\* An edit that is done serves the network of a create and clears the VLAN of
\* a delete, or it was in a race, or sent an old reading, and that is noted.
LEMMA EditDoneKeeps ==
  ASSUME SyncInv, NEW c \in Calls, NEW s \in Switches, EditDone(c, s)
  PROVE  SyncInv'
<1> DEFINE w == call[c].vlan
           after == Edits(c, s)[Len(Edits(c, s))]
           new == Visited(c, s)
<1>0. Types /\ Visiting(c, s) /\ s \in call[c].todo
  BY DEF SyncInv, EditDone, Visiting, Reached
<1>1. /\ config' = [config EXCEPT ![s] = after]
      /\ call' = [call EXCEPT ![c] = new]
      /\ \A x : x \in spoilt' <=>
           IF x = <<s, w>> THEN s \in call[c].raced ELSE x \in spoilt
      /\ \A t : t \in outdated' <=> IF t = s THEN Old(c, s) ELSE t \in outdated
      /\ UNCHANGED <<deployment, db, made>>
  BY DEF EditDone, With
<1>2. /\ Shrinks(new, c, s) /\ new.todo = call[c].todo \ {s}
      /\ new.failed = call[c].failed
  BY <1>0, VisitedCall
<1>3. /\ after \in Config
      /\ s \notin deployment.managed => after = config[s]
      /\ s \notin deployment.trunked => after.trunk = config[s].trunk
      /\ \A v : v # w =>
           /\ v \in after.vlans <=> v \in config[s].vlans
           /\ ~Converges(s) => (v \in after.trunk <=> v \in config[s].trunk)
  <2> HIDE DEF w
  <2> QED BY <1>0, EditsExist, SomeEdits DEF w
<1>4. s \in deployment.managed =>
        /\ w \in after.vlans <=> c[2] = "create"
        /\ ~Converges(s) /\ s \in deployment.trunked =>
             (w \in after.trunk <=> c[2] = "create")
        /\ Converges(s) /\ ~Old(c, s) =>
             after.trunk = PhysnetVlans(deployment.physnets[s])
  <2>1. SUFFICES ASSUME s \in deployment.managed
                 PROVE  /\ w \in after.vlans <=> c[2] = "create"
                        /\ ~Converges(s) /\ s \in deployment.trunked =>
                             (w \in after.trunk <=> c[2] = "create")
                        /\ Converges(s) /\ ~Old(c, s) =>
                             after.trunk = PhysnetVlans(deployment.physnets[s])
    OBVIOUS
  <2>2. after.trunk = TrunkVlans(c, s) /\ (w \in after.vlans <=> c[2] = "create")
    BY <1>0, <2>1, AllEdits
  <2>3. Fresh(c)
    BY DEF SyncInv
  <2>4. ASSUME Converges(s), ~Old(c, s)
        PROVE  call[c].read[deployment.physnets[s]]
                 = PhysnetVlans(deployment.physnets[s])
    BY <1>0, <2>3, <2>4 DEF Old, Visiting, SwitchPhysnets, Fresh
  <2> HIDE DEF w, after
  <2> QED BY <1>0, <2>2, <2>4, TrunkEdit DEF w
<1> HIDE DEF w, after, new
<1>5. /\ Types'
      /\ \A d \in Calls : Fresh(d)'
      /\ \A n \in Networks : Once(n)' /\ Creating(n)'
      /\ \A n, m \in Networks : Distinct(n, m)'
      /\ \A n \in Networks, d \in Calls : Raced(n, d)'
      /\ \A t \in Switches : Bare(t)'
      /\ \A P : PhysnetVlans(P)' = PhysnetVlans(P)
      /\ \A n \in Networks : DevicesOf(n)' = DevicesOf(n)
      /\ \A t \in Switches : Converges(t)' <=> Converges(t)
      /\ call'[c] = new /\ \A d \in Calls : d # c => call'[d] = call[d]
      /\ config'[s] = after
      /\ \A t \in Switches : t # s => config'[t] = config[t]
  BY <1>0, <1>1, <1>2, <1>3, VisitKeeps
<1>6. /\ \A d \in Calls, t \in Switches :
           t # s => (t \in call'[d].todo <=> t \in call[d].todo)
      /\ \A d \in Calls : call'[d].failed = call[d].failed
      /\ \A d \in Calls : call'[d].todo # {} => call'[d].vlan = call[d].vlan
  BY <1>2, <1>5 DEF Shrinks
<1>7. ASSUME NEW n \in Networks, NEW t \in DevicesOf(n)' \cap deployment.managed
      PROVE  Served(n, t)'
  <2> SUFFICES ASSUME db[n] # NoVlan, ~call[<<n, "create">>].failed
               PROVE  Served(n, t)'
    BY <1>1, <1>6, CallNames DEF Served
  <2>0. Served(n, t) /\ t \in Switches /\ t \in DevicesOf(n)
        /\ <<n, "create">> \in Calls
    BY <1>5, CallNames DEF SyncInv, DevicesOf
  <2>1. CASE t # s
    BY <1>1, <1>5, <1>6, <2>0, <2>1 DEF Served
  <2>2. CASE t = s /\ db[n] = w /\ s \in call[c].raced
    BY <1>1, <2>2 DEF Served
  <2>3. CASE t = s /\ db[n] = w /\ s \notin call[c].raced
    <3>1. c = <<n, "create">>
      <4>1. Raced(n, c)
        BY DEF SyncInv
      <4> QED BY <1>0, <2>0, <2>3, <4>1 DEF Raced, w
    <3>2. s \in deployment.managed /\ c[2] = "create"
      BY <2>3, <3>1
    <3>3. w \in config'[s].vlans
      BY <1>4, <1>5, <3>2
    <3>4. CASE ~Converges(s)
      BY <1>1, <1>4, <1>5, <2>3, <3>2, <3>3, <3>4 DEF Served
    <3>5. CASE Converges(s) /\ Old(c, s)
      BY <1>1, <1>5, <2>3, <3>3, <3>5 DEF Served
    <3>6. CASE Converges(s) /\ ~Old(c, s)
      <4>1. w \in PhysnetVlans(deployment.physnets[s])
        BY <1>0, <2>0, <2>3, OnPhysnet DEF DevicesOf
      <4> QED BY <1>1, <1>4, <1>5, <2>3, <3>2, <3>3, <3>6, <4>1 DEF Served
    <3> QED BY <3>4, <3>5, <3>6
  <2>4. CASE t = s /\ db[n] # w
    <3>1. c # <<n, "create">>
      <4>1. Creating(n)
        BY DEF SyncInv
      <4> QED BY <1>0, <2>4, <4>1 DEF Creating, w
    <3>2. call'[<<n, "create">>] = call[<<n, "create">>]
      BY <1>5, <2>0, <3>1
    <3>3. /\ db[n] \in config'[s].vlans <=> db[n] \in config[s].vlans
          /\ <<s, db[n]>> \in spoilt' <=> <<s, db[n]>> \in spoilt
      BY <1>1, <1>3, <1>5, <2>4
    <3>4. CASE ~Converges(s)
      BY <1>1, <1>3, <1>5, <2>0, <2>4, <3>2, <3>3, <3>4 DEF Served
    <3>5. CASE Converges(s) /\ Old(c, s)
      BY <1>1, <1>5, <2>0, <2>4, <3>2, <3>3, <3>5 DEF Served
    <3>6. CASE Converges(s) /\ ~Old(c, s)
      <4>1. db[n] \in PhysnetVlans(deployment.physnets[s])
        BY <1>0, <2>0, <2>4, OnPhysnet DEF DevicesOf
      <4>2. db[n] \in config'[s].trunk
        BY <1>4, <1>5, <2>4, <3>6, <4>1
      <4> QED BY <1>1, <1>5, <2>0, <2>4, <3>2, <3>3, <4>2 DEF Served
    <3> QED BY <3>4, <3>5, <3>6
  <2> QED BY <2>1, <2>2, <2>3, <2>4
<1>8. ASSUME NEW t \in Switches, NEW v \in Vlans PROVE IsGone(t, v)'
  <2>0. IsGone(t, v)
    BY DEF SyncInv
  <2>1. ASSUME NEW m \in Networks, call[<<m, "delete">>].vlan = v,
               t \in call[<<m, "delete">>].todo,
               t # s \/ v # w
        PROVE  /\ call'[<<m, "delete">>].vlan = v
               /\ t \in call'[<<m, "delete">>].todo
    <3>1. <<m, "delete">> \in Calls
      BY CallNames
    <3>2. CASE t # s
      BY <1>6, <2>1, <3>1, <3>2
    <3>3. CASE v # w
      BY <1>5, <2>1, <3>1, <3>3 DEF w
    <3> QED BY <2>1, <3>2, <3>3
  <2>2. CASE t # s
    BY <1>1, <1>5, <2>0, <2>1, <2>2 DEF IsGone
  <2>3. CASE t = s /\ v # w
    BY <1>1, <1>3, <1>5, <2>0, <2>1, <2>3 DEF IsGone
  <2>4. CASE t = s /\ v = w /\ s \in call[c].raced
    BY <1>1, <2>4 DEF IsGone
  <2>5. CASE t = s /\ v = w /\ s \notin call[c].raced
    <3>1. PICK n \in Networks : c \in {<<n, "create">>, <<n, "delete">>}
      BY DEF Calls, Operations
    <3>2. CASE c = <<n, "create">>
      <4>1. s \in DevicesOf(n) /\ db[n] = w
        <5>1. Creating(n)
          BY DEF SyncInv
        <5> QED BY <1>0, <2>5, <3>2, <5>1 DEF Creating, w
      <4>2. w # NoVlan
        BY <2>5, NoVlanAssumption
      <4>3. w \in PhysnetVlans(deployment.physnets[s])
        BY <1>0, <4>1, <4>2, OnPhysnet DEF DevicesOf
      <4> QED BY <1>1, <1>5, <2>5, <4>3 DEF IsGone
    <3>3. CASE c = <<n, "delete">>
      <4>1. c[2] # "create" /\ Bare(s)'
        BY <1>5, <3>3
      <4>2. CASE s \notin deployment.managed
        BY <1>1, <2>5, <4>1, <4>2 DEF IsGone, Bare
      <4>3. CASE s \in deployment.managed
        <5>1. w \notin config'[s].vlans
          BY <1>4, <1>5, <4>1, <4>3
        <5>2. w \in config'[s].trunk => Converges(s)
          BY <1>1, <1>4, <1>5, <4>1, <4>3 DEF Bare
        <5> QED BY <1>5, <2>5, <5>1, <5>2 DEF IsGone
      <4> QED BY <4>2, <4>3
    <3> QED BY <3>1, <3>2, <3>3
  <2> QED BY <2>2, <2>3, <2>4, <2>5
<1>9. ASSUME NEW t \in deployment.managed PROVE Converged(t)'
  <2>0. Converged(t) /\ t \in Switches
    BY <1>0 DEF SyncInv, Types, AllDeployments
  <2>1. CASE t # s
    BY <1>1, <1>5, <1>6, <2>0, <2>1 DEF Converged
  <2>2. CASE t = s
    BY <1>1, <1>4, <1>5, <2>2 DEF Converged
  <2> QED BY <2>1, <2>2
<1> QED BY <1>1, <1>5, <1>7, <1>8, <1>9 DEF SyncInv

\* An edit that fails is noted at its switch; those that a create will not
\* visit any more may have an old reading, and are not served.
LEMMA EditFailsKeeps ==
  ASSUME SyncInv, NEW c \in Calls, NEW s \in Switches, EditFails(c, s)
  PROVE  SyncInv'
<1> DEFINE w == call[c].vlan
           new == IF c[2] = "create" THEN CreateRaises(c, s)
                  ELSE DeleteRaises(c, s)
<1>0. /\ Types /\ Visiting(c, s) /\ s \in call[c].todo
      /\ s \in deployment.managed
  BY DEF SyncInv, EditFails, Visiting, Reached
<1>1. PICK i \in 1 .. Len(Edits(c, s)) :
        config' = [config EXCEPT ![s] = Edits(c, s)[i]]
  BY DEF EditFails
<1> DEFINE after == Edits(c, s)[i]
<1>2. /\ call' = [call EXCEPT ![c] = new]
      /\ spoilt' = spoilt \cup {<<s, w>>}
      /\ outdated' = outdated \cup {s} \cup
                       (IF c[2] = "create" THEN call[c].todo ELSE {})
      /\ UNCHANGED <<deployment, db, made>>
  BY DEF EditFails
<1>3. /\ Shrinks(new, c, s)
      /\ c[2] = "create" => new.failed
      /\ c[2] # "create" => /\ new.todo = call[c].todo \ {s}
                            /\ new.failed = call[c].failed
  <2>1. Shrinks(Returned(TRUE), c, s) /\ Returned(TRUE).failed
    BY ReturnedCall DEF Shrinks
  <2> QED BY <1>0, <2>1, VisitedCall DEF CreateRaises, DeleteRaises
<1>4. /\ after \in Config
      /\ s \notin deployment.trunked => after.trunk = config[s].trunk
      /\ \A v : v # w =>
           /\ v \in after.vlans <=> v \in config[s].vlans
           /\ ~Converges(s) => (v \in after.trunk <=> v \in config[s].trunk)
  BY <1>0, SomeEdits
<1> HIDE DEF w, after, new
<1>5. /\ Types'
      /\ \A d \in Calls : Fresh(d)'
      /\ \A n \in Networks : Once(n)' /\ Creating(n)'
      /\ \A n, m \in Networks : Distinct(n, m)'
      /\ \A n \in Networks, d \in Calls : Raced(n, d)'
      /\ \A t \in Switches : Bare(t)'
      /\ \A P : PhysnetVlans(P)' = PhysnetVlans(P)
      /\ \A n \in Networks : DevicesOf(n)' = DevicesOf(n)
      /\ \A t \in Switches : Converges(t)' <=> Converges(t)
      /\ call'[c] = new /\ \A d \in Calls : d # c => call'[d] = call[d]
      /\ config'[s] = after
      /\ \A t \in Switches : t # s => config'[t] = config[t]
  <2>1. config' = [config EXCEPT ![s] = after]
    BY <1>1 DEF after
  <2> QED BY <1>0, <1>2, <1>3, <1>4, <2>1, VisitKeeps
<1>6. ASSUME NEW n \in Networks, NEW t \in DevicesOf(n)' \cap deployment.managed
      PROVE  Served(n, t)'
  <2>0. Served(n, t) /\ t \in Switches /\ <<n, "create">> \in Calls
    BY <1>5, CallNames DEF SyncInv, DevicesOf
  <2>1. CASE c = <<n, "create">>
    BY <1>3, <1>5, <2>1 DEF Served
  <2>2. CASE c # <<n, "create">> /\ t # s
    BY <1>2, <1>5, <2>0, <2>2 DEF Served
  <2>3. CASE c # <<n, "create">> /\ t = s /\ db[n] = w
    BY <1>2, <2>3 DEF Served
  <2>4. CASE c # <<n, "create">> /\ t = s /\ db[n] # w
    <3>1. call'[<<n, "create">>] = call[<<n, "create">>]
      BY <1>5, <2>0, <2>4
    <3>2. /\ db[n] \in config'[s].vlans <=> db[n] \in config[s].vlans
          /\ ~Converges(s) =>
               (db[n] \in config'[s].trunk <=> db[n] \in config[s].trunk)
      BY <1>4, <1>5, <2>4
    <3> QED BY <1>2, <1>5, <2>0, <2>4, <3>1, <3>2 DEF Served
  <2> QED BY <2>1, <2>2, <2>3, <2>4
<1>7. ASSUME NEW t \in Switches, NEW v \in Vlans PROVE IsGone(t, v)'
  <2>0. IsGone(t, v)
    BY DEF SyncInv
  <2>1. ASSUME NEW m \in Networks, call[<<m, "delete">>].vlan = v,
               t \in call[<<m, "delete">>].todo,
               t # s \/ v # w
        PROVE  /\ call'[<<m, "delete">>].vlan = v
               /\ t \in call'[<<m, "delete">>].todo
    <3>1. <<m, "delete">> \in Calls
      BY CallNames
    <3>2. CASE c = <<m, "delete">>
      BY <1>3, <1>5, <2>1, <3>2 DEF Shrinks, w
    <3>3. CASE c # <<m, "delete">>
      BY <1>5, <2>1, <3>1, <3>3
    <3> QED BY <3>2, <3>3
  <2>2. CASE t # s
    BY <1>2, <1>5, <2>0, <2>1, <2>2 DEF IsGone
  <2>3. CASE t = s /\ v # w
    BY <1>2, <1>4, <1>5, <2>0, <2>1, <2>3 DEF IsGone
  <2>4. CASE t = s /\ v = w
    BY <1>2, <2>4 DEF IsGone
  <2> QED BY <2>2, <2>3, <2>4
<1>8. ASSUME NEW t \in deployment.managed PROVE Converged(t)'
  <2>0. Converged(t) /\ t \in Switches
    BY <1>0 DEF SyncInv, Types, AllDeployments
  <2>1. CASE t = s \/ (c[2] = "create" /\ t \in call[c].todo)
    BY <1>2, <2>1 DEF Converged
  <2>2. CASE t # s /\ ~(c[2] = "create" /\ t \in call[c].todo)
    BY <1>2, <1>3, <1>5, <2>0, <2>2 DEF Converged
  <2> QED BY <2>1, <2>2
<1> QED BY <1>2, <1>5, <1>6, <1>7, <1>8 DEF SyncInv

\* After a crash there are no calls, and all that they would have visited is
\* noted.
LEMMA CrashKeeps ==
  ASSUME SyncInv, Crash
  PROVE  SyncInv'
<1>0. Types
  BY DEF SyncInv
<1>1. /\ \A c \in Calls : call[c].todo # {} => call'[c] = Returned(TRUE)
      /\ \A c \in Calls : call[c].todo = {} => call'[c] = call[c]
      /\ call' = [c \in Calls |-> call'[c]]
      /\ \A c \in Calls, s \in Switches : s \in call[c].todo =>
           <<s, call[c].vlan>> \in spoilt' /\ s \in outdated'
      /\ \A x : x \in spoilt => x \in spoilt'
      /\ \A t : t \in outdated => t \in outdated'
      /\ UNCHANGED <<deployment, db, config, made>>
  <2>1. DOMAIN call = Calls
    BY <1>0 DEF Types
  <2> DEFINE running == {c \in Calls : call[c].todo # {}}
  <2>2. /\ call' = [c \in Calls |->
                     IF c \in running THEN Returned(TRUE) ELSE call[c]]
        /\ spoilt' = spoilt \cup
             UNION {call[c].todo \X {call[c].vlan} : c \in running}
        /\ outdated' = outdated \cup UNION {call[c].todo : c \in running}
        /\ UNCHANGED <<deployment, db, config, made>>
    BY <2>1 DEF Crash
  <2>3. ASSUME NEW c \in Calls, NEW s \in call[c].todo
        PROVE  <<s, call[c].vlan>> \in spoilt' /\ s \in outdated'
    <3>1. c \in running
      OBVIOUS
    <3>2. <<s, call[c].vlan>> \in call[c].todo \X {call[c].vlan}
      OBVIOUS
    <3> HIDE DEF running
    <3>3. <<s, call[c].vlan>> \in
            UNION {call[d].todo \X {call[d].vlan} : d \in running}
      BY <3>1, <3>2
    <3>4. s \in UNION {call[d].todo : d \in running}
      BY <3>1
    <3> QED BY <2>2, <3>3, <3>4
  <2>4. /\ \A c \in Calls : call[c].todo # {} => call'[c] = Returned(TRUE)
        /\ \A c \in Calls : call[c].todo = {} => call'[c] = call[c]
        /\ call' = [c \in Calls |-> call'[c]]
    BY <2>2
  <2> QED BY <2>2, <2>3, <2>4
<1>2. /\ \A P : PhysnetVlans(P)' = PhysnetVlans(P)
      /\ \A n \in Networks : DevicesOf(n)' = DevicesOf(n)
      /\ \A t \in Switches : Converges(t)' <=> Converges(t)
  BY <1>1 DEF PhysnetVlans, DevicesOf, Covers, Converges
<1>3. \A c \in Calls : call'[c] \in Call /\ call'[c].todo = {}
  BY <1>0, <1>1, CallFields, ReturnedCall
<1>4. Types'
  BY <1>0, <1>1, <1>3 DEF Types
<1>5. ASSUME NEW d \in Calls PROVE Fresh(d)'
  <2>1. Fresh(d)
    BY DEF SyncInv
  <2>2. CASE call[d].todo # {}
    BY <1>1, <2>2, ReturnedCall DEF Fresh
  <2>3. CASE call[d].todo = {}
    BY <1>1, <1>2, <2>1, <2>3 DEF Fresh
  <2> QED BY <2>2, <2>3
<1>6. ASSUME NEW n \in Networks PROVE Once(n)' /\ Creating(n)'
  <2>1. Once(n)
    BY DEF SyncInv
  <2>2. Once(n)'
    BY <1>1, <1>3, <2>1, CallNames DEF Once
  <2>3. Creating(n)'
    BY <1>3, CallNames DEF Creating
  <2> QED BY <2>2, <2>3
<1>7. \A n, m \in Networks : Distinct(n, m)'
  BY <1>1, <1>2 DEF SyncInv, Distinct
<1>8. \A n \in Networks, d \in Calls : Raced(n, d)'
  BY <1>3 DEF Raced
<1>9. \A t \in Switches : Bare(t)'
  BY <1>1 DEF SyncInv, Bare
<1>10. ASSUME NEW n \in Networks, NEW t \in DevicesOf(n)' \cap deployment.managed
       PROVE  Served(n, t)'
  <2>0. Served(n, t) /\ t \in Switches /\ <<n, "create">> \in Calls
    BY <1>2, CallNames DEF SyncInv, DevicesOf
  <2>1. CASE call[<<n, "create">>].todo # {}
    BY <1>1, <2>0, <2>1, ReturnedCall DEF Served
  <2>2. CASE call[<<n, "create">>].todo = {}
    BY <1>1, <1>2, <2>0, <2>2 DEF Served
  <2> QED BY <2>1, <2>2
<1>11. ASSUME NEW t \in Switches, NEW v \in Vlans PROVE IsGone(t, v)'
  <2>0. IsGone(t, v)
    BY DEF SyncInv
  <2> QED BY <1>1, <1>2, <2>0, CallNames DEF IsGone
<1>12. ASSUME NEW t \in deployment.managed PROVE Converged(t)'
  <2>0. Converged(t) /\ t \in Switches
    BY <1>0 DEF SyncInv, Types, AllDeployments
  <2> QED BY <1>1, <1>2, <2>0 DEF Converged
<1> QED BY <1>1, <1>4, <1>5, <1>6, <1>7, <1>8, <1>9, <1>10, <1>11, <1>12
        DEF SyncInv

-----------------------------------------------------------------------------
(* Theorems *)

\* The invariant holds before any network is created.
LEMMA SyncInvInit == Init => SyncInv
<1> SUFFICES ASSUME Init PROVE SyncInv
  OBVIOUS
<1>1. /\ \A c \in Calls : call[c] = Returned(FALSE)
      /\ \A n \in Networks : db[n] = NoVlan
      /\ \A s \in Switches : config[s] = [vlans |-> {}, trunk |-> {}]
      /\ deployment \in AllDeployments
  BY DeploymentAssumption DEF Init, Calls
<1>2. Types
  BY <1>1, ReturnedCall DEF Init, Types, Calls, Values, Config
<1>3. \A c \in Calls : Fresh(c) /\ call[c].todo = {}
  BY <1>1, ReturnedCall DEF Fresh
<1>4. \A n \in Networks : Once(n) /\ Creating(n)
  BY <1>1, <1>3, CallNames DEF Once, Creating
<1>5. /\ \A n, m \in Networks : Distinct(n, m)
      /\ \A n \in Networks, d \in Calls : Raced(n, d)
  BY <1>1 DEF Distinct, Raced
<1>6. \A s \in Switches : Bare(s)
  BY <1>1 DEF Bare
<1>7. \A n \in Networks : \A s \in DevicesOf(n) \cap deployment.managed : Served(n, s)
  BY <1>1 DEF Served
<1>8. \A s \in Switches, v \in Vlans : IsGone(s, v)
  BY <1>1 DEF IsGone
<1>9. ASSUME NEW s \in deployment.managed PROVE Converged(s)
  <2>1. s \in Switches
    BY <1>1 DEF AllDeployments
  <2>2. PhysnetVlans(deployment.physnets[s]) = {}
    BY <1>1 DEF PhysnetVlans
  <2> QED BY <1>1, <2>1, <2>2 DEF Converged
<1> QED BY <1>2, <1>3, <1>4, <1>5, <1>6, <1>7, <1>8, <1>9 DEF SyncInv

\* Every action preserves the invariant.
LEMMA SyncInvStep == SyncInv /\ [Next]_vars => SyncInv'
<1> SUFFICES ASSUME SyncInv, [Next]_vars PROVE SyncInv'
  OBVIOUS
<1>1. ASSUME NEW n \in Networks, CreateNetwork(n) PROVE SyncInv'
  BY <1>1, CreateKeeps
<1>2. ASSUME NEW n \in Networks, DeleteNetwork(n) PROVE SyncInv'
  BY <1>2, DeleteKeeps
<1>3. ASSUME NEW c \in Calls, NEW s \in Switches, ReadVlans(c, s) PROVE SyncInv'
  BY <1>3, ReadKeeps
<1>4. ASSUME NEW c \in Calls, NEW s \in Switches, EditDone(c, s) PROVE SyncInv'
  BY <1>4, EditDoneKeeps
<1>5. ASSUME NEW c \in Calls, NEW s \in Switches, EditFails(c, s) PROVE SyncInv'
  BY <1>5, EditFailsKeeps
<1>6. CASE Crash
  BY <1>6, CrashKeeps
<1>7. CASE UNCHANGED vars
  <2>1. UNCHANGED <<deployment, db, call, config, spoilt, outdated, made>>
    BY <1>7 DEF vars
  <2>2. /\ \A P : PhysnetVlans(P)' = PhysnetVlans(P)
        /\ \A n \in Networks : DevicesOf(n)' = DevicesOf(n)
        /\ \A s : Converges(s)' <=> Converges(s)
    BY <2>1 DEF PhysnetVlans, DevicesOf, Covers, Converges
  <2>3. Types'
    BY <2>1 DEF SyncInv, Types
  <2>4. \A c \in Calls : Fresh(c)'
    BY <2>1, <2>2 DEF SyncInv, Fresh
  <2>5. \A n \in Networks : Once(n)' /\ Creating(n)'
    BY <2>1, <2>2 DEF SyncInv, Once, Creating
  <2>6. /\ \A n, m \in Networks : Distinct(n, m)'
        /\ \A n \in Networks, d \in Calls : Raced(n, d)'
        /\ \A s \in Switches : Bare(s)'
    BY <2>1, <2>2 DEF SyncInv, Distinct, Raced, Bare
  <2>7. \A n \in Networks :
          \A s \in DevicesOf(n)' \cap deployment'.managed : Served(n, s)'
    BY <2>1, <2>2 DEF SyncInv, Served
  <2>8. /\ \A s \in Switches, v \in Vlans : IsGone(s, v)'
        /\ \A s \in deployment'.managed : Converged(s)'
    BY <2>1, <2>2 DEF SyncInv, IsGone, Converged
  <2> QED BY <2>3, <2>4, <2>5, <2>6, <2>7, <2>8 DEF SyncInv
<1> QED BY <1>1, <1>2, <1>3, <1>4, <1>5, <1>6, <1>7 DEF Next, Calls

\* A network that was created is on every switch of its physical network and
\* on the trunk ports there, for any number of networks, switches, failures
\* and overlapping calls (generic_switch_mech.py:98-119).
THEOREM CreatedIsServed == Spec => []NetworksServed
<1>1. SyncInv => NetworksServed
  <2> SUFFICES ASSUME SyncInv, NEW n \in Networks, Created(n),
                      NEW s \in DevicesOf(n) \cap deployment.managed
               PROVE  \/ <<s, db[n]>> \in spoilt
                      \/ /\ db[n] \in config[s].vlans
                         /\ \/ db[n] \in config[s].trunk
                            \/ s \notin deployment.trunked
                            \/ Converges(s) /\ s \in outdated
    BY DEF NetworksServed
  <2>1. Served(n, s)
    BY DEF SyncInv
  <2> QED BY <2>1 DEF Served, Created
<1> QED BY <1>1, SyncInvInit, SyncInvStep, PTL DEF Spec

\* A VLAN that no network has is on no switch, but for those that the call
\* which deletes it has yet to visit, and those where the last edit of it
\* failed or raced (generic_switch_mech.py:200-225).
THEOREM DeletedIsGone == Spec => []DeletedGone
<1>1. SyncInv => DeletedGone
  <2> SUFFICES ASSUME SyncInv, NEW s \in Switches, NEW v \in Vlans
               PROVE  \/ v \in PhysnetVlans(deployment.physnets[s])
                      \/ <<s, v>> \in spoilt
                      \/ \E c \in DOMAIN call :
                           call[c].vlan = v /\ s \in call[c].todo
                      \/ /\ v \notin config[s].vlans
                         /\ v \in config[s].trunk => Converges(s)
    BY DEF DeletedGone
  <2>1. IsGone(s, v) /\ DOMAIN call = Calls
    BY DEF SyncInv, Types
  <2> QED BY <2>1, CallNames DEF IsGone
<1> QED BY <1>1, SyncInvInit, SyncInvStep, PTL DEF Spec

\* The trunk ports of a converging switch that no call has yet to visit have
\* the VLANs of the database, unless the last edit failed or sent an old
\* reading (generic_switch_mech.py:100-110, openconfig_mixin.py:62-125).
THEOREM TrunksConverge == Spec => []TrunkIsDatabase
<1>1. SyncInv => TrunkIsDatabase
  <2> SUFFICES ASSUME SyncInv, NEW s \in deployment.managed
               PROVE  \/ ~Converges(s)
                      \/ s \in outdated
                      \/ \E c \in DOMAIN call : s \in call[c].todo
                      \/ config[s].trunk = PhysnetVlans(deployment.physnets[s])
    BY DEF TrunkIsDatabase
  <2>1. Converged(s) /\ DOMAIN call = Calls
    BY DEF SyncInv, Types
  <2> QED BY <2>1 DEF Converged
<1> QED BY <1>1, SyncInvInit, SyncInvStep, PTL DEF Spec
=============================================================================
