---------------------------- MODULE NetworkSync ----------------------------
(***************************************************************************)
(* VLAN networks of Neutron and the VLANs of the switches: create_network_ *)
(* postcommit and delete_network_postcommit of generic_switch_mech.py, the *)
(* add_network and del_network of the netmiko and NETCONF devices, and the *)
(* OpenConfig edits of trunk ports.                                        *)
(*                                                                         *)
(* Calls run after their database commit and may overlap: one visits its   *)
(* switches in turn, reading the VLANs of a physical network before it     *)
(* replaces those of a trunk port.  An edit of one switch is one step, for *)
(* SSH and NETCONF sessions of a switch follow each other (BatchQueue,     *)
(* ConnectionPool, NetconfDatastore).                                      *)
(***************************************************************************)
EXTENDS Naturals, Sequences, FiniteSets

CONSTANTS
  Networks, Vlans, NoVlan,
  Switches,          \* numbered in the order of self.switches
  Physnets,
  MaxFaults,         \* bound: edits that fail, and crashes
  Deployments        \* the switches and networks, see AllDeployments

AllDeployments ==
  [physnets : [Switches -> SUBSET Physnets],   \* ngs_physical_networks
   physnet : [Networks -> Physnets],
   trunked : SUBSET Switches,                  \* have ngs_trunk_ports
   openconfig : SUBSET Switches,               \* others are netmiko switches
   managed : SUBSET Switches]                  \* ngs_manage_vlans

ASSUME SwitchesAssumption == Switches \subseteq Nat
ASSUME MaxFaultsAssumption == MaxFaults \in Nat
ASSUME NoVlanAssumption == NoVlan \notin Vlans
ASSUME DeploymentAssumption == Deployments \subseteq AllDeployments

Operations == {"create", "delete"}

VARIABLES
  deployment,
  db,        \* VLAN of a network in the database, NoVlan when there is none
  call,      \* create_network_postcommit and delete_network_postcommit
  config,    \* VLANs of a switch and of its trunk ports
  spoilt,    \* (switch, VLAN): last edited by a failing or racing call
  outdated,  \* switches whose trunk ports were last given an old reading
  made,      \* networks that were created: a new one has a new id
  faults     \* how many edits failed and processes crashed

vars == <<deployment, db, call, config, spoilt, outdated, made, faults>>

TypeOK ==
  /\ deployment \in Deployments
  /\ db \in [Networks -> Vlans \cup {NoVlan}]
  /\ \A c \in Networks \X Operations :
       /\ call[c].vlan \in Vlans \cup {NoVlan}
       /\ call[c].todo \subseteq Switches
       /\ call[c].failed \in BOOLEAN
       /\ call[c].raced \subseteq Switches
       /\ call[c].old \subseteq DOMAIN call[c].read
       /\ \A P \in DOMAIN call[c].read :
            P \subseteq Physnets /\ call[c].read[P] \subseteq Vlans
  /\ config \in [Switches -> [vlans : SUBSET Vlans, trunk : SUBSET Vlans]]
  /\ spoilt \subseteq Switches \X Vlans
  /\ outdated \subseteq Switches
  /\ made \subseteq Networks
  /\ faults \in 0 .. MaxFaults

\* A call that has returned, or never was made.
Returned(failed) ==
  [vlan |-> NoVlan, todo |-> {}, read |-> << >>,
   failed |-> failed, raced |-> {}, old |-> {}]

Init ==
  /\ deployment \in Deployments
  /\ db = [n \in Networks |-> NoVlan]
  /\ call = [c \in Networks \X Operations |-> Returned(FALSE)]
  /\ config = [s \in Switches |-> [vlans |-> {}, trunk |-> {}]]
  /\ spoilt = {}
  /\ outdated = {}
  /\ made = {}
  /\ faults = 0

-----------------------------------------------------------------------------
(* The database and the calls it starts *)

Covers(P, n) == P = {} \/ deployment.physnet[n] \in P

\* _get_physnet_vlans
PhysnetVlans(P) == {db[n] : n \in {m \in Networks : Covers(P, m)}} \ {NoVlan}

\* _get_devices_by_physnet
DevicesOf(n) == {s \in Switches : Covers(deployment.physnets[s], n)}

\* The calls when c starts: readings of the database are old, and two calls
\* for a VLAN race for the switches both have yet to visit.
Started(c, v) ==
  LET n == c[1]
      rivals == {d \in DOMAIN call : call[d].vlan = v}
  IN  [d \in DOMAIN call |->
         IF d = c
         THEN [Returned(FALSE) EXCEPT
                 !.vlan = v, !.todo = DevicesOf(n),
                 !.raced = DevicesOf(n) \cap UNION {call[r].todo : r \in rivals}]
         ELSE [call[d] EXCEPT
                 !.old = {P \in DOMAIN call[d].read :
                            P \in @ \/ Covers(P, n)},
                 !.raced = IF d \in rivals
                           THEN @ \cup (DevicesOf(n) \cap call[d].todo) ELSE @]]

\* Neutron allocates the VLANs of each physical network by itself; networks of
\* one switch have different ones, for a switch has only one set of VLANs.
Free(v, n) ==
  \A m \in Networks : db[m] = v => DevicesOf(m) \cap DevicesOf(n) = {}

\* A network is created, with a VLAN that is free for it.
CreateNetwork(n) ==
  /\ n \notin made
  /\ made' = made \cup {n}
  /\ \E v \in Vlans :
       /\ Free(v, n)
       /\ db' = [db EXCEPT ![n] = v]
       /\ call' = Started(<<n, "create">>, v)
  /\ UNCHANGED <<deployment, config, spoilt, outdated, faults>>

\* A user deletes it, or Neutron does because create_network_postcommit
\* raised; create_network_postcommit may still be running.
DeleteNetwork(n) ==
  /\ db[n] # NoVlan
  /\ db' = [db EXCEPT ![n] = NoVlan]
  /\ call' = Started(<<n, "delete">>, db[n])
  /\ UNCHANGED <<deployment, config, spoilt, outdated, made, faults>>

-----------------------------------------------------------------------------
(* A call visits a switch *)

\* trunk_vlans_converge and get_trunk_ports()
Converges(s) == s \in deployment.openconfig \cap deployment.trunked

\* Mutant: only the VLANs of the network's own physical network are read.
NetworkPhysnet(c, s) == {deployment.physnet[c[1]]}

\* What physnet_vlans_cache is keyed by.
SwitchPhysnets(c, s) == deployment.physnets[s]

\* The loop over the switches has come to s.
Reached(c, s) == s \in call[c].todo /\ \A t \in call[c].todo : s <= t

\* Nothing is read from the database when the cache has it.
ReadVlans(c, s) ==
  /\ Reached(c, s)
  /\ Converges(s)
  /\ LET P == SwitchPhysnets(c, s)
     IN  /\ P \notin DOMAIN call[c].read
         /\ call' = [call EXCEPT ![c].read =
                       [Q \in DOMAIN @ \cup {P} |->
                          IF Q = P THEN PhysnetVlans(P) ELSE @[Q]]]
  /\ UNCHANGED <<deployment, db, config, spoilt, outdated, made, faults>>

Visiting(c, s) ==
  /\ Reached(c, s)
  /\ Converges(s) => SwitchPhysnets(c, s) \in DOMAIN call[c].read

\* The trunk VLANs of switch s after its part of the edit: REPLACE with what
\* was read, or one VLAN merged or removed.
TrunkVlans(c, s) ==
  IF Converges(s) THEN call[c].read[SwitchPhysnets(c, s)]
  ELSE IF s \notin deployment.trunked THEN config[s].trunk
  ELSE IF c[2] = "create" THEN config[s].trunk \cup {call[c].vlan}
  ELSE config[s].trunk \ {call[c].vlan}

\* The configurations that the commands of add_network lead to one by one;
\* a NETCONF edit is applied at once.
AddNetwork(c, s) ==
  LET before == config[s]
      vlans == before.vlans \cup {call[c].vlan}
      after == [vlans |-> vlans, trunk |-> TrunkVlans(c, s)]
  IN  IF s \in deployment.openconfig THEN <<before, after>>
      ELSE <<before, [before EXCEPT !.vlans = vlans], after>>

\* The same for del_network, which clears the trunk ports first.
DelNetwork(c, s) ==
  LET before == config[s]
      trunk == TrunkVlans(c, s)
      after == [vlans |-> before.vlans \ {call[c].vlan}, trunk |-> trunk]
  IN  IF s \in deployment.openconfig THEN <<before, after>>
      ELSE <<before, [before EXCEPT !.trunk = trunk], after>>

\* Without ngs_manage_vlans nothing is sent.
Edits(c, s) ==
  IF s \notin deployment.managed THEN <<config[s]>>
  ELSE IF c[2] = "create" THEN AddNetwork(c, s) ELSE DelNetwork(c, s)

Old(c, s) == Converges(s) /\ SwitchPhysnets(c, s) \in call[c].old

With(S, x, in) == IF in THEN S \cup {x} ELSE S \ {x}

\* The call after its visit to a switch.
Visited(c, s) ==
  IF call[c].todo = {s} THEN Returned(call[c].failed)
  ELSE [call[c] EXCEPT !.todo = @ \ {s}, !.raced = @ \ {s}]

EditDone(c, s) ==
  /\ Visiting(c, s)
  /\ config' = [config EXCEPT ![s] = Edits(c, s)[Len(Edits(c, s))]]
  /\ call' = [call EXCEPT ![c] = Visited(c, s)]
  /\ spoilt' = With(spoilt, <<s, call[c].vlan>>, s \in call[c].raced)
  /\ outdated' = With(outdated, s, Old(c, s))
  /\ UNCHANGED <<deployment, db, made, faults>>

\* Mutant: the loop over the switches ends without the exception.
CreateBreaks(c, s) == Returned(FALSE)

\* What create_network_postcommit does about an exception: it raises.
CreateRaises(c, s) == Returned(TRUE)

\* Mutant: delete_network_postcommit raises at once as well.
DeleteStops(c, s) == Returned(TRUE)

\* delete_network_postcommit goes on, and raises the exception at the end.
DeleteRaises(c, s) == Visited(c, s)

\* Sending fails, or the device answers with an error: some of the commands
\* have been applied.  Switches that are not visited keep an old reading.
EditFails(c, s) ==
  /\ Visiting(c, s)
  /\ s \in deployment.managed
  /\ faults < MaxFaults
  /\ faults' = faults + 1
  /\ \E i \in 1 .. Len(Edits(c, s)) :
       config' = [config EXCEPT ![s] = Edits(c, s)[i]]
  /\ call' = [call EXCEPT ![c] =
                IF c[2] = "create" THEN CreateRaises(c, s)
                ELSE DeleteRaises(c, s)]
  /\ spoilt' = spoilt \cup {<<s, call[c].vlan>>}
  /\ outdated' = outdated \cup {s} \cup
                 (IF c[2] = "create" THEN call[c].todo ELSE {})
  /\ UNCHANGED <<deployment, db, made>>

\* The process dies; nothing takes its calls up again.
Crash ==
  LET running == {c \in DOMAIN call : call[c].todo # {}}
  IN  /\ running # {}
      /\ faults < MaxFaults
      /\ faults' = faults + 1
      /\ call' = [c \in DOMAIN call |->
                    IF c \in running THEN Returned(TRUE) ELSE call[c]]
      /\ spoilt' = spoilt \cup
           UNION {call[c].todo \X {call[c].vlan} : c \in running}
      /\ outdated' = outdated \cup UNION {call[c].todo : c \in running}
      /\ UNCHANGED <<deployment, db, config, made>>

Next ==
  \/ \E n \in Networks : CreateNetwork(n) \/ DeleteNetwork(n)
  \/ \E c \in Networks \X Operations :
       \E s \in Switches : ReadVlans(c, s) \/ EditDone(c, s) \/ EditFails(c, s)
  \/ Crash

Spec == Init /\ [][Next]_vars

-----------------------------------------------------------------------------
(* Properties *)

Created(n) ==
  db[n] # NoVlan /\ ~call[<<n, "create">>].failed /\ call[<<n, "create">>].todo = {}

\* A network that was created is on every switch of its physical network and
\* on the trunk ports there, whatever other networks come, go and fail, unless
\* another call for its VLAN raced with its own or failed: the switches that
\* create_network_postcommit visited got all of it (mech:98-119).
NetworksServed ==
  \A n \in Networks : Created(n) =>
    \A s \in DevicesOf(n) \cap deployment.managed :
      <<s, db[n]>> \in spoilt
      \/ /\ db[n] \in config[s].vlans
         /\ \/ db[n] \in config[s].trunk
            \/ s \notin deployment.trunked
            \/ Converges(s) /\ s \in outdated

\* A VLAN that no network has is on no switch, but for those where an edit
\* failed or raced: delete_network_postcommit visits the switches after one
\* that fails (mech:217-228), and a half-created network is deleted as well.
DeletedGone ==
  \A s \in Switches, v \in Vlans :
    \/ v \in PhysnetVlans(deployment.physnets[s])
    \/ <<s, v>> \in spoilt
    \/ \E c \in DOMAIN call : call[c].vlan = v /\ s \in call[c].todo
    \/ /\ v \notin config[s].vlans
       /\ v \in config[s].trunk => Converges(s)

\* Trunk ports of a converging switch have the VLANs that the database has for
\* its physical networks, however calls overlapped, failed or were lost
\* before: only a reading that was old when it was sent, or an edit that was
\* not made, differs, and only until the next edit (openconfig_mixin.py:68).
TrunkIsDatabase ==
  \A s \in deployment.managed :
    \/ ~Converges(s)
    \/ s \in outdated
    \/ \E c \in DOMAIN call : s \in call[c].todo
    \/ config[s].trunk = PhysnetVlans(deployment.physnets[s])
=============================================================================
