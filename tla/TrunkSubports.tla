--------------------------- MODULE TrunkSubports ---------------------------
(***************************************************************************)
(* A trunk port on OpenConfig switches: the callbacks of trunk_driver.py   *)
(* for added and deleted subports, and the plug and unplug of the parent   *)
(* port.  Each of them replaces the VLANs of the switch ports by those of  *)
(* its own reading of the parent port, and they may overlap.               *)
(*                                                                         *)
(* The parent port may come with trunk_details that have the segmentation  *)
(* id of the parent (test_generic_switch_mech.py:1668), with trunk_details *)
(* that lack it (:1741), or without trunk_details (:1656): the edits       *)
(* differ.  A port that is not bound has no local_link_information.        *)
(***************************************************************************)
EXTENDS Naturals, FiniteSets

CONSTANTS
  Subports,          \* by their segmentation ids
  NumLinks,          \* length of local_link_information of the parent port
  MaxCalls           \* bound: calls at a time

ASSUME NumLinksAssumption == NumLinks \in Nat \ {0}
ASSUME MaxCallsAssumption == MaxCalls \in Nat

Callbacks == Subports \X {"added", "deleted"}
PortCalls == {"parent"} \X {"plug", "unplug"}
Calls == Callbacks \cup PortCalls

\* The trunk_details of the parent port: with segmentation_id, without it,
\* or no trunk_details.
Details == {"full", "plain", "none"}

VARIABLES
  details,   \* the trunk_details that the parent port comes with
  parent,    \* the database: is the port bound, which subports has it
  running,   \* the calls, with what they know of the parent port
  switched,  \* VlanSwitchedVlan of the switch port of a link
  unsettled  \* links last edited with an old reading, or not at all

subVars == <<details, parent, running, switched, unsettled>>

Links == 1 .. NumLinks
Parents == [bound : BOOLEAN, subs : SUBSET Subports]
Idle == [state |-> "idle", read |-> {},
         next |-> 1, old |-> FALSE]

\* VlanSwitchedVlan: interface_mode; is access_vlan, is native_vlan the VLAN
\* of the parent port; and trunk_vlans.
SwitchedVlans == [mode : {"none", "access", "trunk"}, access : BOOLEAN,
                  native : BOOLEAN, tagged : SUBSET Subports]

NoVlans == [mode |-> "none", access |-> FALSE, native |-> FALSE, tagged |-> {}]

SubTypeOK ==
  /\ details \in Details
  /\ parent \in Parents
  /\ running \in [Calls -> [state : {"idle", "called", "read"}, read : SUBSET Subports,
                            next : Links, old : BOOLEAN]]
  /\ switched \in [Links -> SwitchedVlans]
  /\ unsettled \subseteq Links

SubInit ==
  /\ details \in Details
  /\ parent = [bound |-> FALSE, subs |-> {}]
  /\ running = [c \in Calls |-> Idle]
  /\ switched = [l \in Links |-> NoVlans]
  /\ unsettled = {}

-----------------------------------------------------------------------------
(* Neutron *)

\* The database changes, and a call hears of it; what others read is old.
Changes(new, c, heard) ==
  /\ running[c] = Idle
  /\ Cardinality({d \in Calls : running[d] # Idle}) < MaxCalls
  /\ parent' = new
  /\ running' = [d \in Calls |->
                   IF d = c THEN heard
                   ELSE [running[d] EXCEPT !.old = running[d].state = "read"]]
  /\ UNCHANGED <<details, switched, unsettled>>

\* A call of the mechanism driver comes with the port as it was committed.
Committed(new) ==
  [state |-> "read", read |-> new.subs, next |-> 1, old |-> FALSE]

BindParent ==
  LET new == [parent EXCEPT !.bound = TRUE]
  IN  ~parent.bound /\ Changes(new, <<"parent", "plug">>, Committed(new))

UnbindParent ==
  LET new == [parent EXCEPT !.bound = FALSE]
  IN  parent.bound /\ Changes(new, <<"parent", "unplug">>, Committed(new))

\* SUBPORTS, AFTER_CREATE and AFTER_DELETE
AttachSubport(v) ==
  /\ v \notin parent.subs
  /\ Changes([parent EXCEPT !.subs = @ \cup {v}],
             <<v, "added">>, [Idle EXCEPT !.state = "called"])

DetachSubport(v) ==
  /\ v \in parent.subs
  /\ Changes([parent EXCEPT !.subs = @ \ {v}],
             <<v, "deleted">>, [Idle EXCEPT !.state = "called"])

-----------------------------------------------------------------------------
(* The calls *)

\* The handler reads the parent port in a transaction of its own; the
\* mechanism driver returns when it finds no local_link_information.
ReadParent(c) ==
  /\ running[c].state = "called"
  /\ running' = [running EXCEPT ![c] =
                   IF parent.bound THEN Committed(parent) ELSE Idle]
  /\ UNCHANGED <<details, parent, switched, unsettled>>

\* A REPLACE leaves the mode and the VLANs that it names and no others.
AccessPort(vlan) ==
  [mode |-> "access", access |-> vlan, native |-> FALSE, tagged |-> {}]
TrunkPort(vlan, tags) ==
  [mode |-> "trunk", access |-> FALSE, native |-> vlan, tagged |-> tags]

\* A merge keeps all that it does not name.
Merged(l, tags) == [switched[l] EXCEPT !.mode = "trunk", !.tagged = tags]

\* _plug_port_to_network: the VLAN is an argument.
Plugged(c, l) ==
  IF details = "none" THEN AccessPort(TRUE)
  ELSE TrunkPort(TRUE, running[c].read)

\* _delete_port: REMOVE
Unplugged(c, l) == NoVlans

\* Mutant: the added subports are merged, as without trunk_details.
AddedMerged(c, l) == Merged(l, switched[l].tagged \cup {c[1]})

\* _add_subports_on_trunk: the VLAN of the parent port is named only when
\* trunk_details has it.
Added(c, l) ==
  IF details = "none" THEN Merged(l, switched[l].tagged \cup {c[1]})
  ELSE TrunkPort(details = "full", running[c].read)

\* _del_subports_on_trunk: as Added; access mode when no subport remains.
Deleted(c, l) ==
  IF details = "none" THEN Merged(l, switched[l].tagged \ {c[1]})
  ELSE IF running[c].read = {} THEN AccessPort(details = "full")
  ELSE TrunkPort(details = "full", running[c].read)

Edited(c, l) ==
  IF c[2] = "plug" THEN Plugged(c, l)
  ELSE IF c[2] = "unplug" THEN Unplugged(c, l)
  ELSE IF c[2] = "added" THEN Added(c, l)
  ELSE Deleted(c, l)

ToEdit(c, l) == running[c].state = "read" /\ running[c].next <= l

\* A call that may still edit the port of a link.
Pending(c, l) == running[c].state = "called" \/ ToEdit(c, l)

Editing(c, l) ==
  running[c].state = "read" /\ l = running[c].next

LinkDone(c, l) ==
  /\ Editing(c, l)
  /\ switched' = [switched EXCEPT ![l] = Edited(c, l)]
  /\ running' = [running EXCEPT ![c] =
                   IF l = NumLinks THEN Idle ELSE [@ EXCEPT !.next = l + 1]]
  /\ unsettled' = IF running[c].old THEN unsettled \cup {l}
                  ELSE unsettled \ {l}
  /\ UNCHANGED <<details, parent>>

\* The edit fails or is answered too late; the exception ends the loop over
\* the links, and Neutron only logs it.
LinkFails(c, l) ==
  /\ Editing(c, l)
  /\ switched' \in {switched, [switched EXCEPT ![l] = Edited(c, l)]}
  /\ running' = [running EXCEPT ![c] = Idle]
  /\ unsettled' = unsettled \cup {k \in Links : ToEdit(c, k)}
  /\ UNCHANGED <<details, parent>>

\* The process dies; nothing takes its calls up again.
SubCrash ==
  /\ \E c \in Calls : running[c] # Idle
  /\ running' = [c \in Calls |-> Idle]
  /\ unsettled' = unsettled \cup {l \in Links : \E c \in Calls : Pending(c, l)}
  /\ UNCHANGED <<details, parent, switched>>

SubNext ==
  \/ BindParent
  \/ UnbindParent
  \/ \E v \in Subports : AttachSubport(v) \/ DetachSubport(v)
  \/ \E c \in Callbacks : ReadParent(c)
  \/ \E c \in Calls, l \in Links : LinkDone(c, l) \/ LinkFails(c, l)
  \/ SubCrash

SubSpec == SubInit /\ [][SubNext]_subVars

-----------------------------------------------------------------------------
(* Properties *)

\* What a switch port sends and takes without and with a tag.
Untagged(sw) == IF sw.mode = "trunk" THEN sw.native ELSE sw.access
Tagged(sw) == IF sw.mode = "trunk" THEN sw.tagged ELSE {}

\* A port that is not bound has no VLANs; one that is has those of the
\* subports of the database, wherever the edits are made from trunk_details,
\* and its own untagged one where trunk_details has that.
AsDatabase(sw) ==
  /\ ~parent.bound => sw = NoVlans
  /\ parent.bound /\ details # "none" => Tagged(sw) = parent.subs
  /\ parent.bound /\ details = "full" => Untagged(sw)

\* When no call is on its way, a switch port has the VLANs of the database:
\* only an edit made from an old reading of the parent port, or one that
\* failed, differs, and the next edit repairs it (trunk_driver.py:88,
\* openconfig_mixin.py:223).
SubportsAreDatabase ==
  \A l \in Links :
    \/ l \in unsettled
    \/ \E c \in Calls : Pending(c, l)
    \/ AsDatabase(switched[l])
=============================================================================
