---------------------------- MODULE PortBinding ----------------------------
(***************************************************************************)
(* Binding and unbinding of ports on VXLAN networks over local VLANs, by   *)
(* generic_switch_mech.py: update_port_postcommit, delete_port_postcommit  *)
(* and the L2VNI helpers that map a VLAN of a switch to the VNI of the     *)
(* network, and remove the mapping again.                                  *)
(*                                                                         *)
(* The driver runs after the transactions of Neutron, in many threads and  *)
(* processes, and holds no lock between a query of a switch and the        *)
(* command that depends on the answer.  One query, or one set of commands, *)
(* is one step.  A port is on one network; it has a link to each switch of *)
(* LinksOf.  Neutron changes a port again when the driver has returned.    *)
(***************************************************************************)
EXTENDS Integers, Sequences, FiniteSets

CONSTANTS
  Ports, Switches,
  Networks, NoNetwork,
  Vlans, NoVlan,     \* the local VLANs that Neutron gives to segments
  NetworkOf,         \* the network of each port; its VNI is the network
  LinksOf,           \* local_link_information of each port, in order
  Scenarios          \* the environments of the driver, see AllScenarios

FaultKinds == {"command",  \* commands to a switch raise, done or not
               "query"}    \* queries fail

AllScenarios ==
  [overlap : BOOLEAN,    \* calls for different ports overlap
   exact : BOOLEAN,      \* vlan_has_vni looks at the VLAN (not on NX-OS)
   faults : SUBSET FaultKinds]

Steps == {"none", "check", "plugVni", "plugPort", "complete",
          "unplugPort", "segment", "ports", "unplugVni"}

ASSUME NamesAssumption == NoNetwork \notin Networks /\ NoVlan \notin Vlans
ASSUME PortsAssumption ==
  /\ NetworkOf \in [Ports -> Networks]
  /\ LinksOf \in [Ports -> Seq(Switches) \ {<<>>}]
  /\ \A p \in Ports : \A i, j \in DOMAIN LinksOf[p] :
       LinksOf[p][i] = LinksOf[p][j] => i = j
ASSUME ScenariosAssumption == Scenarios \subseteq AllScenarios

VARIABLES
  scenario,  \* which environment it is
  bound,     \* Neutron: vif_type of the port is 'other'
  status,    \* Neutron: status of the port
  segment,   \* Neutron: VLAN of the dynamic segment of each network
  access,    \* switch: access VLAN of the interface of each port
  vni,       \* switch: network whose VNI each VLAN is mapped to
  members,   \* switch: networks whose VNI is a member of the NVE interface
  pc,        \* step of the driver's call for each port
  link,      \* index of the link that the call works on
  vlan       \* segmentation id in the context of the call

neutronVars == <<bound, status, segment>>
switchVars == <<access, vni, members>>
callVars == <<pc, link, vlan>>
vars == <<scenario, neutronVars, switchVars, callVars>>

TypeOK ==
  /\ scenario \in Scenarios
  /\ bound \in [Ports -> BOOLEAN]
  /\ status \in [Ports -> {"DOWN", "ACTIVE"}]
  /\ segment \in [Networks -> Vlans \cup {NoVlan}]
  /\ access \in [Switches -> [Ports -> Vlans \cup {NoVlan}]]
  /\ vni \in [Switches -> [Vlans -> Networks \cup {NoNetwork}]]
  /\ members \in [Switches -> SUBSET Networks]
  /\ pc \in [Ports -> Steps]
  /\ vlan \in [Ports -> Vlans \cup {NoVlan}]
  /\ link \in [Ports -> Nat \ {0}]
  /\ \A p \in Ports : link[p] \in DOMAIN LinksOf[p]

Init ==
  /\ scenario \in Scenarios
  /\ bound = [p \in Ports |-> FALSE]
  /\ status = [p \in Ports |-> "DOWN"]
  /\ segment = [n \in Networks |-> NoVlan]
  /\ access = [s \in Switches |-> [p \in Ports |-> NoVlan]]
  /\ vni = [s \in Switches |-> [v \in Vlans |-> NoNetwork]]
  /\ members = [s \in Switches |-> {}]
  /\ pc = [p \in Ports |-> "none"]
  /\ link = [p \in Ports |-> 1]
  /\ vlan = [p \in Ports |-> NoVlan]

-----------------------------------------------------------------------------
(* Neutron.                                                                *)

Idle(p) == pc[p] = "none"

MayStart(p) == Idle(p) /\ (scenario.overlap \/ \A q \in Ports : Idle(q))

FreeVlans == Vlans \ {segment[n] : n \in Networks}

\* A call starts at the first link, with the VLAN that its context shows.
Begin(p, step, v) ==
  /\ pc' = [pc EXCEPT ![p] = step]
  /\ link' = [link EXCEPT ![p] = 1]
  /\ vlan' = [vlan EXCEPT ![p] = v]

\* bind_port, on the segment of the network or on a new one; Neutron commits
\* and calls update_port_postcommit.
Bind(p) ==
  LET n == NetworkOf[p] IN
  /\ MayStart(p)
  /\ ~bound[p]
  /\ bound' = [bound EXCEPT ![p] = TRUE]
  /\ \E v \in IF segment[n] = NoVlan THEN FreeVlans ELSE {segment[n]} :
       /\ segment' = [segment EXCEPT ![n] = v]
       /\ Begin(p, "check", v)
  /\ UNCHANGED <<status, switchVars>>

\* A port that is ACTIVE is left alone; any update of a port that is still
\* DOWN configures its links from the beginning.
Update(p) ==
  /\ MayStart(p)
  /\ bound[p]
  /\ status[p] = "DOWN"
  /\ Begin(p, "check", segment[NetworkOf[p]])
  /\ UNCHANGED <<neutronVars, switchVars>>

\* Neutron has unbound or deleted the port, and calls
\* update_port_postcommit with the old binding, or delete_port_postcommit.
Unbind(p) ==
  /\ MayStart(p)
  /\ bound[p]
  /\ bound' = [bound EXCEPT ![p] = FALSE]
  /\ status' = [status EXCEPT ![p] = "DOWN"]
  /\ Begin(p, "unplugPort", segment[NetworkOf[p]])
  /\ UNCHANGED <<segment, switchVars>>

\* A dynamic segment that no port is bound to is released.
ReleaseSegment(n) ==
  /\ segment[n] # NoVlan
  /\ \A p \in Ports : NetworkOf[p] = n => ~bound[p]
  /\ segment' = [segment EXCEPT ![n] = NoVlan]
  /\ UNCHANGED <<bound, status, switchVars, callVars>>

-----------------------------------------------------------------------------
(* update_port_postcommit of a bound port.                                 *)

Goto(p, step) ==
  /\ pc' = [pc EXCEPT ![p] = step]
  /\ UNCHANGED <<link, vlan>>

\* The driver returns, or raises.
Return(p) == Begin(p, "none", NoVlan)

SwitchOf(p) == LinksOf[p][link[p]]

\* What follows the last link: provisioning_complete, or the return.
Leave(p) == IF bound[p] THEN Goto(p, "complete") ELSE Return(p)

\* Mutant: the loop takes one link too many.
NextLinkOff(p, first) ==
  IF link[p] <= Len(LinksOf[p])
    THEN /\ link' = [link EXCEPT ![p] = link[p] + 1]
         /\ pc' = [pc EXCEPT ![p] = first]
         /\ UNCHANGED vlan
    ELSE Leave(p)

\* The for loops over local_link_information, one link after the other.
NextLink(p, first) ==
  IF link[p] < Len(LinksOf[p])
    THEN /\ link' = [link EXCEPT ![p] = link[p] + 1]
         /\ pc' = [pc EXCEPT ![p] = first]
         /\ UNCHANGED vlan
    ELSE Leave(p)

\* Mutant: any VNI will do.
HasAnyVni(s, v, n) == vni[s][v] # NoNetwork

\* vlan_has_vni; NX-OS greps for the VNI and ignores the VLAN.
VlanHasVni(s, v, n) ==
  IF scenario.exact THEN vni[s][v] = n ELSE n \in members[s]

\* _configure_l2vni_if_needed; a failed query counts as "not there".
CheckVni(p) ==
  /\ pc[p] = "check"
  /\ \/ Goto(p, IF VlanHasVni(SwitchOf(p), vlan[p], NetworkOf[p])
                  THEN "plugPort" ELSE "plugVni")
     \/ "query" \in scenario.faults /\ Goto(p, "plugVni")
  /\ UNCHANGED <<neutronVars, switchVars>>

MapVni(p) ==
  /\ vni' = [vni EXCEPT ![SwitchOf(p)][vlan[p]] = NetworkOf[p]]
  /\ members' = [members EXCEPT ![SwitchOf(p)] = @ \cup {NetworkOf[p]}]

\* plug_switch_to_network.
PlugVni(p) ==
  /\ pc[p] = "plugVni"
  /\ MapVni(p)
  /\ Goto(p, "plugPort")
  /\ UNCHANGED <<neutronVars, access>>

SetAccess(p, v) == access' = [access EXCEPT ![SwitchOf(p)][p] = v]

\* Mutant: the port is reported as provisioned after its first link.
PlugFirstPort(p) ==
  /\ pc[p] = "plugPort"
  /\ SetAccess(p, vlan[p])
  /\ Goto(p, "complete")
  /\ UNCHANGED <<neutronVars, vni, members>>

\* plug_port_to_network, plug_bond_to_network.
PlugPort(p) ==
  /\ pc[p] = "plugPort"
  /\ SetAccess(p, vlan[p])
  /\ NextLink(p, "check")
  /\ UNCHANGED <<neutronVars, vni, members>>

\* provisioning_complete: the port becomes ACTIVE.
Complete(p) ==
  /\ pc[p] = "complete"
  /\ status' = [status EXCEPT ![p] = "ACTIVE"]
  /\ Return(p)
  /\ UNCHANGED <<bound, segment, switchVars>>

\* The switch refuses, or answers too late; the exception leaves the driver
\* and the port stays DOWN.
PlugFails(p) ==
  /\ "command" \in scenario.faults
  /\ \/ /\ pc[p] = "plugVni"
        /\ MapVni(p) \/ UNCHANGED <<vni, members>>
        /\ UNCHANGED access
     \/ /\ pc[p] = "plugPort"
        /\ SetAccess(p, vlan[p]) \/ UNCHANGED access
        /\ UNCHANGED <<vni, members>>
  /\ Return(p)
  /\ UNCHANGED neutronVars

-----------------------------------------------------------------------------
(* _unplug_port_from_segment.                                              *)

\* delete_port, unplug_bond_from_network.
UnplugPort(p) ==
  /\ pc[p] = "unplugPort"
  /\ SetAccess(p, NoVlan)
  /\ Goto(p, "segment")
  /\ UNCHANGED <<neutronVars, vni, members>>

\* The exception is raised again: the other links are not unplugged.
UnplugFails(p) ==
  /\ "command" \in scenario.faults
  /\ pc[p] = "unplugPort"
  /\ SetAccess(p, NoVlan) \/ UNCHANGED access
  /\ Return(p)
  /\ UNCHANGED <<neutronVars, vni, members>>

\* _check_segment_exists_by_network: without the segment the mapping goes
\* unconditionally.
CheckSegment(p) ==
  /\ pc[p] = "segment"
  /\ Goto(p, IF segment[NetworkOf[p]] = vlan[p] THEN "ports" ELSE "unplugVni")
  /\ UNCHANGED <<neutronVars, switchVars>>

VlanHasPorts(s, v) == \E q \in Ports : access[s][q] = v

\* Mutant: every switch counts as one that cannot answer.
KeepAlways(p) ==
  /\ pc[p] = "ports"
  /\ NextLink(p, "unplugPort")
  /\ UNCHANGED <<neutronVars, switchVars>>

\* vlan_has_ports; a failed query counts as "it has".
CheckPorts(p) ==
  /\ pc[p] = "ports"
  /\ \/ IF VlanHasPorts(SwitchOf(p), vlan[p])
          THEN NextLink(p, "unplugPort")
          ELSE Goto(p, "unplugVni")
     \/ "query" \in scenario.faults /\ NextLink(p, "unplugPort")
  /\ UNCHANGED <<neutronVars, switchVars>>

UnmapVni(p) ==
  /\ vni' = [vni EXCEPT ![SwitchOf(p)][vlan[p]] = NoNetwork]
  /\ members' = [members EXCEPT ![SwitchOf(p)] = @ \ {NetworkOf[p]}]

\* _unplug_switch_from_network: "no vn-segment" asks for no VNI, and all
\* exceptions are swallowed.
UnplugVni(p) ==
  /\ pc[p] = "unplugVni"
  /\ \/ UnmapVni(p)
     \/ "command" \in scenario.faults /\ UNCHANGED <<vni, members>>
  /\ NextLink(p, "unplugPort")
  /\ UNCHANGED <<neutronVars, access>>

-----------------------------------------------------------------------------
PlugStep(p) ==
  CheckVni(p) \/ PlugVni(p) \/ PlugPort(p) \/ Complete(p) \/ PlugFails(p)

UnplugStep(p) ==
  \/ UnplugPort(p) \/ UnplugFails(p) \/ CheckSegment(p)
  \/ CheckPorts(p) \/ UnplugVni(p)

Next ==
  /\ \/ \E p \in Ports :
          Bind(p) \/ Update(p) \/ Unbind(p) \/ PlugStep(p) \/ UnplugStep(p)
     \/ \E n \in Networks : ReleaseSegment(n)
  /\ UNCHANGED scenario

Spec == Init /\ [][Next]_vars

-----------------------------------------------------------------------------
(* Properties.                                                             *)

SwitchesOf(p) == {LinksOf[p][i] : i \in DOMAIN LinksOf[p]}

\* A port that Neutron reports as ACTIVE is bound, and is plugged into the
\* VLAN of its network on every one of its links, whatever failed before.
ActiveIsPlugged ==
  \A p \in Ports : status[p] = "ACTIVE" =>
    /\ bound[p]
    /\ \A s \in SwitchesOf(p) : access[s][p] = segment[NetworkOf[p]]
                                /\ access[s][p] # NoVlan

\* While calls do not overlap, that VLAN is mapped to the VNI of the network,
\* whatever failed before: without it the port is cut off from the overlay.
\* On NX-OS, whose query does not see the VLAN, that takes that no command
\* failed.
ActiveIsMapped ==
  ~scenario.overlap /\ (scenario.exact \/ scenario.faults = {}) =>
    \A p \in Ports : status[p] = "ACTIVE" =>
      \A s \in SwitchesOf(p) : vni[s][segment[NetworkOf[p]]] = NetworkOf[p]

\* Mappings do not pile up: when the driver is at rest and nothing failed,
\* only VLANs with ports are mapped, however calls have overlapped.
NoStaleMapping ==
  scenario.faults = {} /\ (\A p \in Ports : Idle(p)) =>
    \A s \in Switches, v \in Vlans :
      vni[s][v] # NoNetwork => VlanHasPorts(s, v)

\* "VNI mappings are only removed when the last port is unplugged, verified
\* by querying the switch" (doc/source/admin/vxlan/index.rst:46-47).
RemovedWhenEmpty ==
  [][\A s \in Switches, v \in Vlans :
       vni[s][v] # NoNetwork /\ vni'[s][v] = NoNetwork
         => ~VlanHasPorts(s, v)]_vars
=============================================================================
