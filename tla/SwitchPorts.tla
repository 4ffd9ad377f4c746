---------------------------- MODULE SwitchPorts ----------------------------
(***************************************************************************)
(* Ports of one netmiko switch, and the L2VNI of their VLANs, as the calls *)
(* of the mechanism driver leave them: plug, unplug, subports added and    *)
(* deleted, with the templates of SwitchDrivers.                           *)
(*                                                                         *)
(* Calls come one after the other (PortBinding has the overlapping ones);  *)
(* a call that fails has sent some of its commands.  A VLAN belongs to one *)
(* network, whose VNI is not named.                                        *)
(***************************************************************************)
EXTENDS SwitchDrivers, FiniteSets, SequencesExt

CONSTANTS
  Ports,
  Vlans, NoVlan,     \* VLANs of networks
  DefaultVlan,       \* ngs_port_default_vlan
  Scenarios          \* the switches and environments, see AllScenarios

AllScenarios ==
  [driver : Drivers,
   overlay : DOMAIN Overlays,
   kind : AnyPort,           \* ports, or 802.3ad bonds
   ports : SUBSET Ports,     \* the ports that are used
   vlans : SUBSET Vlans,     \* the VLANs that they are bound to
   shuts : BOOLEAN,          \* ngs_disable_inactive_ports
   default : BOOLEAN,        \* a default VLAN is configured
   trunks : BOOLEAN,         \* ports become trunks
   faults : BOOLEAN]         \* calls fail

ASSUME VlanAssumption ==
  /\ IsFiniteSet(Vlans)
  /\ NoVlan \notin Vlans /\ DefaultVlan \notin Vlans \cup {NoVlan}
ASSUME SwitchAssumption ==
  /\ Scenarios \subseteq AllScenarios
  /\ \A s \in Scenarios :
       s.overlay = "none" \/ <<s.driver, s.overlay>> \in OverlayDrivers

VARIABLES
  scenario,  \* which switch and environment it is
  net,       \* Neutron: VLAN of the segment that the port is bound to
  trunk,     \* Neutron: the port is the parent of a trunk
  subs,      \* Neutron: segmentation ids of its subports
  active,    \* Neutron: ACTIVE, and what update_port_postcommit made of it
  port,      \* switch: configuration of the interface
  overlay,   \* switch: what is configured for the VNI of each VLAN
  unsure     \* ghost: VLANs that a failed call may have left on the port, or
             \* not brought there

neutronVars == <<net, trunk, subs>>
vars == <<scenario, neutronVars, active, port, overlay, unsure>>

AllVlans == Vlans \cup {DefaultVlan}

PortConfigs ==
  [mode : {"access", "trunk", "hybrid"}, access : SUBSET AllVlans,
   native : SUBSET AllVlans, tagged : SUBSET AllVlans, up : BOOLEAN]

TypeOK ==
  /\ scenario \in Scenarios
  /\ net \in [Ports -> Vlans \cup {NoVlan}]
  /\ trunk \in [Ports -> BOOLEAN]
  /\ subs \in [Ports -> SUBSET Vlans]
  /\ active \in [Ports -> {"no", "access", "trunk"}]
  /\ port \in [Ports -> PortConfigs]
  /\ overlay \in [Vlans -> SUBSET Pieces]
  /\ unsure \in [Ports -> SUBSET AllVlans]

Driver == Templates[scenario.driver]
Vni == Overlays[scenario.overlay]

\* _disable_inactive_ports, and the driver has the commands for it.
Shuts == scenario.shuts /\ scenario.kind \in Driver.shuts

\* A port in no VLAN, and shut down where that is what unused ports are.
Init ==
  /\ scenario \in Scenarios
  /\ net = [p \in Ports |-> NoVlan]
  /\ trunk = [p \in Ports |-> FALSE]
  /\ subs = [p \in Ports |-> {}]
  /\ active = [p \in Ports |-> "no"]
  /\ port = [p \in Ports |->
               [mode |-> Driver.mode, access |-> {}, native |-> {},
                tagged |-> {}, up |-> ~Shuts]]
  /\ overlay = [v \in Vlans |-> {}]
  /\ unsure = [p \in Ports |-> {}]

-----------------------------------------------------------------------------
(* Commands.                                                               *)

\* _format_commands: a template for one VLAN, or for each of several.
Format(template, v) == [i \in DOMAIN template |-> <<template[i], v>>]
FormatEach(template, vs) ==
  FlattenSeq([i \in 1..Cardinality(vs) |->
                Format(template, SetToSeq(vs)[i])])

When(condition, cmds) == IF condition THEN cmds ELSE <<>>

\* Mutant: a port that gets the default VLAN is not taken out of its own.
UnplugIntoDefault(v) ==
  (IF scenario.default THEN Format(Driver.plug, DefaultVlan)
                       ELSE Format(Driver.unplug, v))
    \o When(Shuts, Format(<<"down">>, v))

\* delete_port.  The mechanism driver passes no
\* trunk_details, and so no subport is removed by name.
UnplugCommands(v) ==
  Format(Driver.unplug, v)
    \o When(scenario.default, Format(Driver.plug, DefaultVlan))
    \o When(Shuts, Format(<<"down">>, v))

\* unplug_bond_from_network: by the templates for bonds, which do the same,
\* or by delete_port where there are none.
UnplugBondCommands(v) == UnplugCommands(v)

\* Mutant: the default VLAN is removed last.
PlugDefaultLast(v, isTrunk, vs) ==
  When(Shuts, Format(<<"up">>, v))
    \o (IF isTrunk
          THEN Format(Driver.native, v) \o FormatEach(Driver.trunk, vs)
          ELSE Format(Driver.plug, v))
    \o When(scenario.default, Format(Driver.unplug, DefaultVlan))

\* plug_port_to_network: into VLAN v, as the parent of
\* a trunk with the subports of VLANs vs, or as an access port.
PlugCommands(v, isTrunk, vs) ==
  When(Shuts, Format(<<"up">>, v))
    \o When(scenario.default, Format(Driver.unplug, DefaultVlan))
    \o (IF isTrunk
          THEN Format(Driver.native, v) \o FormatEach(Driver.trunk, vs)
          ELSE Format(Driver.plug, v))

\* plug_bond_to_network.
PlugBondCommands(v, isTrunk, vs) == PlugCommands(v, isTrunk, vs)

\* BrocadeFastIron.clean_port_vlan_if_necessary: the untagged VLAN that the
\* port is found in is unplugged first.
CleanCommands(p) ==
  When(scenario.driver = "brocade",
       FlattenSeq([i \in 1..Cardinality(port[p].access) |->
                     UnplugCommands(SetToSeq(port[p].access)[i])]))

\* An interface after a command, and after several.
Does(config, cmd) == Do(cmd[1], cmd[2], config)
After(config, cmds) == FoldLeft(Does, config, cmds)

\* The port after the first n of the commands.
Sent(p, cmds, n) == After(port[p], SubSeq(cmds, 1, n))

\* Junos discards what was not committed; on the other switches a call that
\* is cut short has sent some of its commands.
CutPoints(cmds) ==
  IF ~scenario.faults THEN {Len(cmds)}
  ELSE IF scenario.driver = "junos" THEN {0, Len(cmds)}
  ELSE 0..Len(cmds)

\* Whether the call succeeds.
MaySucceed(cmds, n, ok) == IF ok THEN n = Len(cmds) ELSE scenario.faults

-----------------------------------------------------------------------------
(* L2VNI.                                                                  *)

\* vlan_has_vni.
VlanHasVni(v) == Vni.query \in overlay[v]

\* Mutant: only tagged members are seen.
HasTaggedPorts(v, ports) == \E p \in Ports : v \in Tagged(ports[p])

\* vlan_has_ports.
VlanHasPorts(v, ports) ==
  \E p \in Ports :
    \/ "untagged" \in Vni.members /\ v \in Untagged(ports[p])
    \/ "tagged" \in Vni.members /\ v \in Tagged(ports[p])

\* plug_switch_to_network, its first n parts.
PlugVni(v, n) ==
  overlay' = [overlay EXCEPT ![v] = @ \cup {Vni.plug[i] : i \in 1..n}]

\* _configure_l2vni_if_needed.  A query that fails counts as "not
\* configured" on NX-OS; elsewhere it raises.
ConfigureVni(v, ok) ==
  \/ /\ Vni = NoVxlan \/ VlanHasVni(v)
     /\ ok
     /\ UNCHANGED overlay
  \/ /\ Vni # NoVxlan
     /\ ~VlanHasVni(v) \/ (scenario.faults /\ scenario.overlay = "nxos")
     /\ \E n \in CutPoints(Vni.plug) :
          MaySucceed(Vni.plug, n, ok) /\ PlugVni(v, n)
  \/ /\ Vni # NoVxlan /\ scenario.faults /\ scenario.overlay # "nxos"
     /\ ~ok
     /\ UNCHANGED overlay

\* configure_l2vni_for_subport, by the VNI in the profile of the subport.
ConfigureSubportVni(v, ok) == ConfigureVni(v, ok)

\* Mutant: the parts are removed in the order in which they were made.
RemoveVniFirstPart(v, ports) ==
  IF VlanHasPorts(v, ports)
    THEN UNCHANGED overlay
    ELSE \E n \in CutPoints(Vni.unplug) :
           overlay' = [overlay EXCEPT ![v] =
                         @ \ UNION {Vni.unplug[Len(Vni.unplug) + 1 - i] :
                                      i \in 1..n}]

\* _remove_l2vni_mapping while the segment exists, after the ports of the
\* switch have become ports; a failure is only logged.
RemoveVni(v, ports) ==
  IF VlanHasPorts(v, ports)
    THEN UNCHANGED overlay
    ELSE \E n \in CutPoints(Vni.unplug) :
           overlay' = [overlay EXCEPT ![v] =
                         @ \ UNION {Vni.unplug[i] : i \in 1..n}]

\* cleanup_l2vni_for_subport.
RemoveSubportVni(v, ports) == RemoveVni(v, ports)

-----------------------------------------------------------------------------
(* Neutron.  A trunk may be made of a bound port (can_trunk_bound_port);   *)
(* its subports are on other VLANs.                                        *)

switchVars == <<active, port, overlay, unsure>>

Bind(p, v) ==
  /\ p \in scenario.ports
  /\ net[p] = NoVlan
  /\ v \notin subs[p]
  /\ net' = [net EXCEPT ![p] = v]
  /\ UNCHANGED <<scenario, trunk, subs, switchVars>>

CreateTrunk(p) ==
  /\ scenario.trunks
  /\ p \in scenario.ports
  /\ ~trunk[p]
  /\ trunk' = [trunk EXCEPT ![p] = TRUE]
  /\ UNCHANGED <<scenario, net, subs, switchVars>>

DeleteTrunk(p) ==
  /\ net[p] = NoVlan
  /\ trunk[p]
  /\ trunk' = [trunk EXCEPT ![p] = FALSE]
  /\ subs' = [subs EXCEPT ![p] = {}]
  /\ UNCHANGED <<scenario, net, switchVars>>

\* Subports of a port without links: the driver returns at once.
ChangeSubports(p, v) ==
  /\ net[p] = NoVlan
  /\ trunk[p]
  /\ subs' = [subs EXCEPT ![p] = IF v \in @ THEN @ \ {v} ELSE @ \cup {v}]
  /\ UNCHANGED <<scenario, net, trunk, switchVars>>

-----------------------------------------------------------------------------
(* Calls.                                                                  *)

\* Trunks on this kind of ports, and bonds at all on Brocade, which raises
\* TypeError for them.
Supported(p) ==
  /\ trunk[p] => scenario.kind \in Driver.trunks
  /\ ~(scenario.driver = "brocade" /\ scenario.kind = "bond")

\* The VLANs that a call for the port is about.
Concerned(p) ==
  {net[p]} \cup (IF trunk[p] THEN subs[p] ELSE {})
    \cup (IF scenario.default THEN {DefaultVlan} ELSE {})

\* A call that raises: the port keeps its status, and it is open which of
\* the VLANs it carries.
Fail(p, vs) ==
  /\ unsure' = [unsure EXCEPT ![p] = @ \cup vs]
  /\ UNCHANGED active

\* A call that succeeds: what the interface does not mention any more is
\* gone for sure, but for the VLANs vs that an earlier call should have
\* brought there.
Succeed(p, vs) ==
  unsure' = [unsure EXCEPT ![p] = @ \cap
               (port'[p].access \cup port'[p].native \cup port'[p].tagged
                  \cup vs)]

\* update_port_postcommit of a bound port that is not ACTIVE: the overlay,
\* then the port.
Plug(p) ==
  /\ net[p] # NoVlan
  /\ active[p] = "no"
  /\ \/ /\ ConfigureVni(net[p], FALSE)
        /\ UNCHANGED port
        /\ Fail(p, {})
     \/ /\ ConfigureVni(net[p], TRUE)
        /\ ~Supported(p)
        /\ UNCHANGED port
        /\ Fail(p, {})
     \/ /\ ConfigureVni(net[p], TRUE)
        /\ Supported(p)
        /\ LET cmds == CleanCommands(p)
                         \o IF scenario.kind = "bond"
                              THEN PlugBondCommands(net[p], trunk[p], subs[p])
                              ELSE PlugCommands(net[p], trunk[p], subs[p])
           IN \E n \in CutPoints(cmds), ok \in BOOLEAN :
                /\ MaySucceed(cmds, n, ok)
                /\ port' = [port EXCEPT ![p] = Sent(p, cmds, n)]
                /\ IF ok
                     THEN /\ active' = [active EXCEPT ![p] =
                                          IF trunk[p] THEN "trunk" ELSE "access"]
                          /\ Succeed(p, {})
                     ELSE Fail(p, Concerned(p))
  /\ UNCHANGED <<scenario, neutronVars>>

\* Neutron has unbound the port; _unplug_port_from_segment with the segment
\* of the old binding.  There is no other attempt.
Unplug(p) ==
  /\ net[p] # NoVlan
  /\ net' = [net EXCEPT ![p] = NoVlan]
  /\ active' = [active EXCEPT ![p] = "no"]
  /\ LET cmds == IF scenario.kind = "bond" THEN UnplugBondCommands(net[p])
                                            ELSE UnplugCommands(net[p])
     IN \E n \in CutPoints(cmds), ok \in BOOLEAN :
          /\ MaySucceed(cmds, n, ok)
          /\ port' = [port EXCEPT ![p] = Sent(p, cmds, n)]
          /\ IF ok
               THEN /\ Succeed(p, {})
                    /\ RemoveVni(net[p], port')
               ELSE /\ unsure' = [unsure EXCEPT ![p] = @ \cup Concerned(p)]
                    /\ UNCHANGED overlay
  /\ UNCHANGED <<scenario, trunk, subs>>

\* trunk_driver.subports_added: add_subports_on_trunk and then
\* configure_l2vni_for_subport.  SONiC overrides the first one without
\* trunk_details, and raises TypeError; nothing is sent to ports of a kind
\* without trunks.
AddSubport(p, v) ==
  /\ net[p] # NoVlan
  /\ trunk[p]
  /\ v \notin subs[p] \cup {net[p]}
  /\ subs' = [subs EXCEPT ![p] = @ \cup {v}]
  /\ \/ /\ scenario.driver = "sonic"
        /\ UNCHANGED <<port, overlay>>
        /\ Fail(p, {v})
     \/ /\ scenario.driver # "sonic"
        /\ LET cmds == When(scenario.kind \in Driver.trunks,
                            Format(Driver.trunk, v))
           IN \E n \in CutPoints(cmds), sent, mapped \in BOOLEAN :
                /\ MaySucceed(cmds, n, sent)
                /\ port' = [port EXCEPT ![p] = Sent(p, cmds, n)]
                /\ IF sent THEN ConfigureSubportVni(v, mapped)
                           ELSE ~mapped /\ UNCHANGED overlay
                /\ IF sent /\ mapped
                     THEN Succeed(p, subs[p]) /\ UNCHANGED active
                     ELSE Fail(p, {v})
  /\ UNCHANGED <<scenario, net, trunk>>

\* trunk_driver.subports_deleted: del_subports_on_trunk and then
\* cleanup_l2vni_for_subport.
DelSubport(p, v) ==
  /\ net[p] # NoVlan
  /\ v \in subs[p]
  /\ subs' = [subs EXCEPT ![p] = @ \ {v}]
  /\ LET cmds == When(scenario.kind \in Driver.trunks,
                      Format(Driver.untrunk, v))
     IN \E n \in CutPoints(cmds), ok \in BOOLEAN :
          /\ MaySucceed(cmds, n, ok)
          /\ port' = [port EXCEPT ![p] = Sent(p, cmds, n)]
          /\ IF ok
               THEN /\ RemoveSubportVni(v, port')
                    /\ Succeed(p, subs[p] \ {v})
                    /\ UNCHANGED active
               ELSE /\ Fail(p, {v})
                    /\ UNCHANGED overlay
  /\ UNCHANGED <<scenario, net, trunk>>

Next ==
  \E p \in Ports :
    \/ CreateTrunk(p)
    \/ DeleteTrunk(p)
    \/ Plug(p)
    \/ Unplug(p)
    \/ \E v \in scenario.vlans :
         \/ Bind(p, v)
         \/ ChangeSubports(p, v)
         \/ AddSubport(p, v)
         \/ DelSubport(p, v)

Spec == Init /\ [][Next]_vars

-----------------------------------------------------------------------------
(* Properties.                                                             *)

\* The driver has SET_NATIVE_VLAN.
SetsNative == Driver.native # <<>>

\* A port that update_port_postcommit has made ACTIVE as it is now: its
\* network is untagged, the subports that no call failed for are tagged,
\* and it is up; neither taking the port out of the default VLAN nor what
\* an earlier trunk or a failed call left undoes that.  Trunks are as
\* documented only with SET_NATIVE_VLAN.
ActiveIsConnected ==
  \A p \in Ports :
    (\/ active[p] = "access" /\ ~trunk[p]
     \/ active[p] = "trunk" /\ SetsNative)
    => /\ net[p] \in Untagged(port[p])
       /\ subs[p] \ unsure[p] \subseteq Tagged(port[p])
       /\ port[p].up

Carried(p) == Untagged(port[p]) \cup Tagged(port[p])

OwnVlans(p) ==
  IF net[p] = NoVlan
    THEN IF scenario.default THEN {DefaultVlan} ELSE {}
    ELSE {net[p]} \cup subs[p]

\* The unplug of these drivers takes the port out of its tagged VLANs too.
ClearsTrunks == {"arista", "ios", "nvue", "junos", "ovs"}

\* Isolation: a port carries the VLANs of its own network and subports, the
\* default VLAN when it is free or not yet plugged, and nothing of earlier
\* tenants, unless a call failed.  With trunks this is true of the drivers
\* whose unplug template clears the port.
OwnVlansOnly ==
  (scenario.trunks => scenario.driver \in ClearsTrunks)
  => \A p \in Ports :
       Carried(p) \subseteq
         OwnVlans(p) \cup unsure[p]
           \cup (IF scenario.default /\ active[p] = "no"
                   THEN {DefaultVlan} ELSE {})

\* The overlays whose query looks for the part that is configured last, or
\* that are configured at once.
QueriesLastPart == {"arista", "sonic", "nvueStatic", "junos", "ovs"}

\* No call cut short leaves a VLAN that vlan_has_vni takes for configured and
\* that is not: such a VLAN would never be completed.  Claimed where the
\* query looks for the last part to come and the first to go.
MappedIsComplete ==
  scenario.overlay \in QueriesLastPart
  => \A v \in Vlans :
       VlanHasVni(v) => Range(Vni.plug) \subseteq overlay[v]

\* While no call fails, the VLAN of an ACTIVE port has all of its overlay,
\* whatever ports with the same VLAN come and go; and without trunks it is
\* all gone with the last port.
OverlayServed ==
  ~scenario.faults =>
    /\ \A p \in Ports :
         active[p] # "no" /\ net[p] \in Untagged(port[p])
           => overlay[net[p]] = Range(Vni.plug)
    /\ ~scenario.trunks =>
         (\A v \in Vlans :
            (\A p \in Ports : net[p] # v) => overlay[v] = {})
=============================================================================
