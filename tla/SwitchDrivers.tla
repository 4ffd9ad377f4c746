--------------------------- MODULE SwitchDrivers ---------------------------
(***************************************************************************)
(* The command templates of devices/netmiko_devices/*.py, by their effect  *)
(* on the switch.  A port is                                               *)
(*   mode    access, trunk, or hybrid where a port has both kinds of VLANs *)
(*   access  its untagged VLANs when it is not a trunk                     *)
(*   native  its untagged VLANs when it is a trunk, of those allowed on it *)
(*   tagged  its tagged VLANs; without effect in access mode               *)
(*   up      not shut down                                                 *)
(* A template is a sequence of commands; lines that only select the        *)
(* interface or leave it are part of the command that follows.  What a     *)
(* port is in without any configuration (VLAN 1, or any VLAN) is left out. *)
(***************************************************************************)
EXTENDS Integers, Sequences

\* What a command with VLAN v makes of port p.
Do(cmd, v, p) ==
  CASE cmd = "access_mode" -> [p EXCEPT !.mode = "access"]
    [] cmd = "trunk_mode"  -> [p EXCEPT !.mode = "trunk"]
    [] cmd = "hybrid_mode" -> [p EXCEPT !.mode = "hybrid"]
    [] cmd = "access_v"    -> [p EXCEPT !.access = {v}]
    [] cmd = "no_access"   -> [p EXCEPT !.access = {}]
    [] cmd = "native_v"    -> [p EXCEPT !.native = {v}]
    [] cmd = "no_native"   -> [p EXCEPT !.native = {}]
    [] cmd = "untag_v"     -> [p EXCEPT !.access = @ \cup {v}]
    [] cmd = "no_untag_v"  -> [p EXCEPT !.access = @ \ {v}]
    [] cmd = "tag_v"       -> [p EXCEPT !.tagged = @ \cup {v}]
    [] cmd = "no_tag_v"    -> [p EXCEPT !.tagged = @ \ {v}]
    [] cmd = "no_tags"     -> [p EXCEPT !.tagged = {}]
    [] cmd = "leave_v"     -> [p EXCEPT !.access = @ \ {v}, !.tagged = @ \ {v}]
    [] cmd = "up"          -> [p EXCEPT !.up = TRUE]
    [] cmd = "down"        -> [p EXCEPT !.up = FALSE]
    [] OTHER -> p

Untagged(p) == IF p.mode = "trunk" THEN p.native \cap p.tagged ELSE p.access
Tagged(p) == IF p.mode = "access" THEN {} ELSE p.tagged

\* NetmikoSwitch: no template at all.  "shuts" are the kinds of ports with
\* ENABLE and DISABLE commands, "trunks" those whose trunks are supported.
NoTemplates ==
  [mode |-> "access", plug |-> <<>>, unplug |-> <<>>,
   native |-> <<>>, trunk |-> <<>>, untrunk |-> <<>>,
   shuts |-> {}, trunks |-> {}]

AnyPort == {"port", "bond"}

-----------------------------------------------------------------------------
(* Access ports only.                                                      *)

AccessOnly(plug, unplug) ==
  [NoTemplates EXCEPT !.plug = plug, !.unplug = unplug]

AccessMode == <<"access_mode", "access_v">>

Cisco300 == AccessOnly(AccessMode, <<"no_access", "no_tags">>)
HpeComware == AccessOnly(AccessMode, <<"no_access">>)
HuaweiVrp == AccessOnly(AccessMode, <<"no_untag_v">>)
HuaweiVrp8 == AccessOnly(AccessMode, <<"no_untag_v">>)
MellanoxMlnxOS == AccessOnly(AccessMode, <<"no_access", "access_mode">>)
Ruijie == AccessOnly(AccessMode, <<"no_untag_v", "access_mode", "no_tags">>)
SupermicroSmis ==
  AccessOnly(AccessMode, <<"no_untag_v", "access_mode", "no_tags">>)

\* vlan-port-remove takes the port out of all VLANs.
Pluribus ==
  [AccessOnly(<<"no_access", "no_tags", "untag_v">>,
              <<"no_access", "no_tags">>) EXCEPT !.mode = "hybrid"]

\* A VLAN is a subinterface of the port.
NokiaSRL ==
  [AccessOnly(<<"untag_v">>, <<"no_untag_v">>) EXCEPT !.mode = "hybrid"]

\* "net_add_interface" and "net_add_bond" alike.
Cumulus ==
  [AccessOnly(<<"access_v">>, <<"no_untag_v">>) EXCEPT !.shuts = AnyPort]

\* 'untagged ether {port}' under a VLAN.
BrocadeFastIron ==
  [AccessOnly(<<"untag_v">>, <<"no_untag_v">>) EXCEPT !.mode = "hybrid"]

-----------------------------------------------------------------------------
(* Trunks.                                                                 *)

\* A native VLAN of its own, and templates for bonds; the mode of a trunk
\* is set by SET_NATIVE_VLAN alone.
AristaEos ==
  [NoTemplates EXCEPT
     !.plug = AccessMode,
     !.unplug = <<"no_untag_v", "access_mode", "no_tags">>,
     !.native = <<"trunk_mode", "native_v", "tag_v">>,
     !.trunk = <<"tag_v">>, !.untrunk = <<"no_tag_v">>,
     !.shuts = AnyPort, !.trunks = AnyPort]

CiscoIos ==
  [AristaEos EXCEPT !.trunk = <<"trunk_mode", "tag_v">>,
                    !.shuts = {}, !.trunks = {"port"}]

\* No native VLAN: the parent of a trunk is not configured.
CiscoNxOS ==
  [NoTemplates EXCEPT
     !.plug = AccessMode, !.unplug = <<"no_access">>,
     !.trunk = <<"trunk_mode", "tag_v">>, !.untrunk = <<"no_tag_v">>,
     !.shuts = AnyPort, !.trunks = {"port"}]

\* 'vlan access' and 'vlan trunk' exclude each other.
ArubaOSCX ==
  [NoTemplates EXCEPT
     !.plug = AccessMode, !.unplug = <<"no_untag_v">>,
     !.trunk = <<"trunk_mode", "tag_v">>, !.untrunk = <<"no_tag_v">>,
     !.shuts = AnyPort, !.trunks = {"port"}]

\* The access VLAN is the untagged VLAN of a trunk; bonds are not shut down.
DellOS10 ==
  [NoTemplates EXCEPT
     !.plug = AccessMode, !.unplug = <<"no_access">>,
     !.native = <<"hybrid_mode", "access_v">>,
     !.trunk = <<"hybrid_mode", "tag_v">>, !.untrunk = <<"no_tag_v">>,
     !.shuts = {"port"}, !.trunks = AnyPort]

\* 'untagged {port}' and 'tagged {port}' under a VLAN.
DellNos ==
  [NoTemplates EXCEPT
     !.mode = "hybrid",
     !.plug = <<"untag_v">>, !.unplug = <<"no_untag_v">>,
     !.trunk = <<"tag_v">>, !.untrunk = <<"no_tag_v">>,
     !.trunks = {"port"}]

\* ngs_switchport_mode = access; trunks are written in general mode only.
DellPowerConnect ==
  [NoTemplates EXCEPT
     !.plug = <<"access_v">>, !.unplug = <<"no_access">>,
     !.trunk = <<"tag_v">>, !.untrunk = <<"no_tag_v">>,
     !.trunks = {"port"}]

\* ngs_switchport_mode = general; the pvid follows the untagged VLAN.
DellPowerConnectGeneral ==
  [DellPowerConnect EXCEPT
     !.mode = "hybrid",
     !.plug = <<"untag_v", "native_v">>, !.unplug = <<"leave_v", "no_native">>,
     !.untrunk = <<"leave_v">>]

\* 'vlan members' of an access port, or of a port in trunk mode.
Juniper ==
  [NoTemplates EXCEPT
     !.mode = "hybrid",
     !.plug = <<"no_access", "no_tags", "untag_v">>,
     !.unplug = <<"no_access", "no_tags">>,
     !.trunk = <<"tag_v">>, !.untrunk = <<"no_tag_v">>,
     !.shuts = AnyPort, !.trunks = {"port"}]

\* A port with an access VLAN is no trunk.
CumulusNVUE ==
  [NoTemplates EXCEPT
     !.plug = <<"no_native", "access_mode", "access_v">>,
     !.unplug = <<"no_access", "no_native", "no_tags">>,
     !.native = <<"no_access", "trunk_mode", "native_v", "tag_v">>,
     !.trunk = <<"no_access", "trunk_mode", "tag_v">>,
     !.untrunk = <<"no_tag_v">>,
     !.shuts = AnyPort, !.trunks = AnyPort]

Sonic ==
  [NoTemplates EXCEPT
     !.mode = "hybrid",
     !.plug = <<"untag_v">>, !.unplug = <<"leave_v">>,
     !.trunk = <<"tag_v">>, !.untrunk = <<"leave_v">>,
     !.trunks = {"port"}]

\* 'tag' is the VLAN of an access port and the native VLAN of a trunk.
OvsLinux ==
  [NoTemplates EXCEPT
     !.plug = AccessMode,
     !.unplug = <<"no_access", "no_tags", "access_mode">>,
     !.native = <<"hybrid_mode", "access_v", "tag_v">>,
     !.trunk = <<"tag_v">>, !.untrunk = <<"no_tag_v">>,
     !.trunks = AnyPort]

Templates ==
  [arista |-> AristaEos, aruba |-> ArubaOSCX, brocade |-> BrocadeFastIron,
   cisco300 |-> Cisco300, ios |-> CiscoIos, nxos |-> CiscoNxOS,
   cumulus |-> Cumulus, nvue |-> CumulusNVUE, os10 |-> DellOS10,
   os9 |-> DellNos, powerconnect |-> DellPowerConnect,
   general |-> DellPowerConnectGeneral, hpe |-> HpeComware,
   huawei |-> HuaweiVrp, vrp8 |-> HuaweiVrp8, junos |-> Juniper,
   mlnxos |-> MellanoxMlnxOS, nokia |-> NokiaSRL, ovs |-> OvsLinux,
   pluribus |-> Pluribus, ruijie |-> Ruijie, smc |-> SupermicroSmis,
   sonic |-> Sonic]

Drivers == DOMAIN Templates

-----------------------------------------------------------------------------
(* L2VNI.  What a VLAN needs to be part of an overlay, in the order in     *)
(* which plug_switch_to_network configures it; what each command of        *)
(* unplug_switch_from_network takes away; the part that vlan_has_vni looks *)
(* for; and the members of a VLAN that vlan_has_ports sees.  The VLAN      *)
(* itself stays.                                                           *)

Vxlan(plug, unplug, query, members) ==
  [plug |-> plug, unplug |-> unplug, query |-> query, members |-> members]

AnyMember == {"untagged", "tagged"}

\* 'no member vni' takes the replication mode of the VNI along; the query
\* lists the members of the NVE interface.
NxosQuery == "member"
NxosMembers == AnyMember
NxosVni ==
  Vxlan(<<"evpn", "segment", "member", "flood">>,
        <<{"member", "flood"}, {"segment"}, {"evpn"}>>,
        NxosQuery, NxosMembers)

\* The row of the static mapping; the VXLAN interface is no member.
AristaQuery == "map"
AristaMembers == AnyMember
AristaVni ==
  Vxlan(<<"evpn", "map">>, <<{"map"}, {"evpn"}>>, AristaQuery, AristaMembers)

AristaMulticastVni ==
  Vxlan(<<"evpn", "map", "flood">>, <<{"flood"}, {"map"}, {"evpn"}>>,
        AristaQuery, AristaMembers)

\* The row of the VLAN, in any of three layouts.
SonicQuery == "map"
SonicMembers == AnyMember
SonicVni ==
  Vxlan(<<"evpn", "map">>, <<{"map"}, {"evpn"}>>, SonicQuery, SonicMembers)

\* With ngs_evpn_vni_config; the flood list of head-end replication is
\* common to all VNIs and stays.
NvueQuery == "map"
NvueMembers == AnyMember
NvueVni ==
  Vxlan(<<"evpn", "map", "flood">>, <<{"map", "flood"}, {"evpn"}>>,
        NvueQuery, NvueMembers)
NvueStaticVni == Vxlan(<<"map">>, <<{"map"}>>, NvueQuery, NvueMembers)

JunosQuery == "map"
JunosMembers == AnyMember
JunosVni ==
  Vxlan(<<"map", "flood", "evpn">>, <<{"flood"}, {"map"}, {"evpn"}>>,
        JunosQuery, JunosMembers)

\* An external_id of the bridge, no tunnel; only the tags of the ports are
\* read, not their trunks.
OvsQuery == "map"
OvsMembers == {"untagged"}
OvsVni == Vxlan(<<"map">>, <<{"map"}>>, OvsQuery, OvsMembers)

NoVxlan == Vxlan(<<>>, <<>>, "none", AnyMember)

Overlays ==
  [none |-> NoVxlan, nxos |-> NxosVni, arista |-> AristaVni,
   aristaMulticast |-> AristaMulticastVni, sonic |-> SonicVni,
   nvue |-> NvueVni, nvueStatic |-> NvueStaticVni, junos |-> JunosVni,
   ovs |-> OvsVni]

\* The drivers that have each of them.
OverlayDrivers ==
  {<<"nxos", "nxos">>, <<"arista", "arista">>, <<"arista", "aristaMulticast">>,
   <<"sonic", "sonic">>, <<"nvue", "nvue">>, <<"nvue", "nvueStatic">>,
   <<"junos", "junos">>, <<"ovs", "ovs">>}

Pieces == {"evpn", "segment", "map", "member", "flood"}
=============================================================================
