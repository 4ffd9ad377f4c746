-------------------------- MODULE PortBindingProofs --------------------------
(***************************************************************************)
(* Proofs about PortBinding, for any ports, links, networks and VLANs, and *)
(* in every environment: overlapping calls, failing commands and queries.  *)
(*                                                                         *)
(* ActiveIsPlugged is not inductive: what makes a port ACTIVE is a loop    *)
(* over its links that runs while Neutron and other calls change other     *)
(* ports.  IInv adds what the loop has done so far (Plugged), that its     *)
(* VLAN is still the one of the segment (InCall), and that no segment is   *)
(* released or replaced under a bound port (Served).                       *)
(*                                                                         *)
(* The two properties of the mappings rest on three more invariants.       *)
(* Watched: when nothing fails, each mapped VLAN has a port or a call at   *)
(* work on it.  Known: without overlap a network is mapped on no VLAN but  *)
(* its own, so that the query of NX-OS, which ignores the VLAN, is right.  *)
(* Mapped: what a call has passed is mapped, and what it is about to       *)
(* unmap serves nobody.                                                    *)
(***************************************************************************)
EXTENDS PortBinding, SequenceTheorems, TLAPS

Plugging == {"check", "plugVni", "plugPort", "complete"}
Looping == {"check", "plugVni", "plugPort"}
Unplugging == {"unplugPort", "segment", "ports", "unplugVni"}

\* The segment of a bound port exists.
Served(p) == bound[p] => segment[NetworkOf[p]] \in Vlans

\* A call that plugs works for a bound port that is DOWN and with the VLAN
\* of its segment; a call that unplugs works for a port that is unbound.
InCall(p) ==
  /\ pc[p] \in Plugging => /\ bound[p]
                           /\ status[p] = "DOWN"
                           /\ vlan[p] = segment[NetworkOf[p]]
  /\ pc[p] \in Unplugging => ~bound[p]

\* The links that the call has passed are plugged.
Plugged(p) ==
  \A i \in DOMAIN LinksOf[p] :
    pc[p] = "complete" \/ (pc[p] \in Looping /\ i < link[p])
      => access[LinksOf[p][i]][p] = vlan[p]

\* ActiveIsPlugged, for one port.
Active(p) ==
  status[p] = "ACTIVE" =>
    /\ bound[p]
    /\ \A i \in DOMAIN LinksOf[p] :
         access[LinksOf[p][i]][p] = segment[NetworkOf[p]]

PortInv(p) == Served(p) /\ InCall(p) /\ Plugged(p) /\ Active(p)

IInv == TypeOK /\ \A p \in Ports : PortInv(p)

-----------------------------------------------------------------------------
(* Types.                                                                  *)

NeutronType ==
  /\ scenario \in Scenarios
  /\ bound \in [Ports -> BOOLEAN]
  /\ status \in [Ports -> {"DOWN", "ACTIVE"}]
  /\ segment \in [Networks -> Vlans \cup {NoVlan}]

SwitchType ==
  /\ access \in [Switches -> [Ports -> Vlans \cup {NoVlan}]]
  /\ vni \in [Switches -> [Vlans -> Networks \cup {NoNetwork}]]
  /\ members \in [Switches -> SUBSET Networks]

CallType ==
  /\ pc \in [Ports -> Steps]
  /\ vlan \in [Ports -> Vlans \cup {NoVlan}]
  /\ link \in [Ports -> Nat \ {0}]
  /\ \A p \in Ports : link[p] \in DOMAIN LinksOf[p]

\* The type invariant in three parts, which different steps disturb.
LEMMA TypeParts == TypeOK <=> NeutronType /\ SwitchType /\ CallType
  BY DEF TypeOK, NeutronType, SwitchType, CallType

\* A port has at least one link, and its links lead to switches.
LEMMA Links ==
  ASSUME NEW p \in Ports
  PROVE  /\ Len(LinksOf[p]) \in Nat \ {0}
         /\ DOMAIN LinksOf[p] = 1 .. Len(LinksOf[p])
         /\ 1 \in DOMAIN LinksOf[p]
         /\ \A i \in DOMAIN LinksOf[p] : LinksOf[p][i] \in Switches
<1>1. LinksOf[p] \in Seq(Switches) /\ LinksOf[p] # <<>>
  BY PortsAssumption
<1>2. Len(LinksOf[p]) \in Nat \ {0}
  BY <1>1, EmptySeq, LenProperties
<1>3. QED
  BY <1>1, <1>2, LenProperties, ElementOfSeq

\* The ways in which a step changes the state of a call.
Moves(p) ==
  \/ \E step \in Steps : Goto(p, step)
  \/ \E step \in Steps, v \in Vlans \cup {NoVlan} : Begin(p, step, v)
  \/ \E step \in Steps : NextLink(p, step)

\* Whatever a call does to its own state, its types are kept.
LEMMA MoveType ==
  ASSUME CallType, NEW p \in Ports, Moves(p)
  PROVE  CallType'
<1> USE DEF CallType
<1>1. ASSUME NEW step \in Steps, Goto(p, step) PROVE CallType'
  BY <1>1 DEF Goto
<1>2. ASSUME NEW step \in Steps, NEW v \in Vlans \cup {NoVlan},
             Begin(p, step, v)
      PROVE  CallType'
  BY <1>2, Links DEF Begin
<1>3. ASSUME NEW step \in Steps, NextLink(p, step) PROVE CallType'
  <2>1. CASE link[p] < Len(LinksOf[p])
    <3>1. link[p] + 1 \in DOMAIN LinksOf[p]
      BY <2>1, Links
    <3>2. link' = [link EXCEPT ![p] = link[p] + 1]
          /\ pc' = [pc EXCEPT ![p] = step] /\ vlan' = vlan
      BY <1>3, <2>1 DEF NextLink
    <3>3. QED
      BY <3>1, <3>2
  <2>2. CASE ~(link[p] < Len(LinksOf[p]))
    <3>1. Leave(p)
      BY <1>3, <2>2 DEF NextLink
    <3>2. Goto(p, "complete") \/ Begin(p, "none", NoVlan)
      BY <3>1 DEF Leave, Return
    <3>3. {"complete", "none"} \subseteq Steps
      BY DEF Steps
    <3>4. QED
      BY <3>2, <3>3, <1>1, <1>2
  <2>3. QED
    BY <2>1, <2>2
<1>4. QED
  BY <1>1, <1>2, <1>3 DEF Moves

PortAction(p) ==
  Bind(p) \/ Update(p) \/ Unbind(p) \/ PlugStep(p) \/ UnplugStep(p)

\* Every step of a port moves its call in one of these ways.
LEMMA ActionMoves ==
  ASSUME TypeOK, NEW p \in Ports, PortAction(p)
  PROVE  Moves(p)
<1> USE DEF Steps, Moves
<1>1. segment[NetworkOf[p]] \in Vlans \cup {NoVlan}
  BY PortsAssumption DEF TypeOK
<1>2. CASE Bind(p)
  <2>1. PICK v \in IF segment[NetworkOf[p]] = NoVlan THEN FreeVlans
                    ELSE {segment[NetworkOf[p]]} : Begin(p, "check", v)
    BY <1>2 DEF Bind
  <2>2. v \in Vlans \cup {NoVlan}
    BY <1>1 DEF FreeVlans
  <2>3. QED
    BY <2>1, <2>2
<1>3. CASE Update(p)       BY <1>1, <1>3 DEF Update
<1>4. CASE Unbind(p)       BY <1>1, <1>4 DEF Unbind
<1>5. CASE CheckVni(p)     BY <1>5 DEF CheckVni
<1>6. CASE PlugVni(p)      BY <1>6 DEF PlugVni
<1>7. CASE PlugPort(p)     BY <1>7 DEF PlugPort
<1>8. CASE Complete(p)     BY <1>8 DEF Complete, Return
<1>9. CASE PlugFails(p)    BY <1>9 DEF PlugFails, Return
<1>10. CASE UnplugPort(p)    BY <1>10 DEF UnplugPort
<1>11. CASE UnplugFails(p)   BY <1>11 DEF UnplugFails, Return
<1>12. CASE CheckSegment(p)  BY <1>12 DEF CheckSegment
<1>13. CASE CheckPorts(p)    BY <1>13 DEF CheckPorts
<1>14. CASE UnplugVni(p)     BY <1>14 DEF UnplugVni
<1>15. QED
  BY <1>2, <1>3, <1>4, <1>5, <1>6, <1>7, <1>8, <1>9, <1>10, <1>11, <1>12,
     <1>13, <1>14 DEF PortAction, PlugStep, UnplugStep

\* Every step keeps the types.
LEMMA TypeStep == TypeOK /\ [Next]_vars => TypeOK'
<1> SUFFICES ASSUME TypeOK, [Next]_vars PROVE TypeOK'
  OBVIOUS
<1>1. ASSUME NEW p \in Ports, PortAction(p), UNCHANGED scenario PROVE TypeOK'
  <2>1. CallType'
    BY <1>1, ActionMoves, MoveType, TypeParts
  <2>2. NeutronType'
    <3> USE <1>1, PortsAssumption DEF TypeOK, NeutronType
    <3>1. CASE Bind(p)
      <4>1. PICK v \in IF segment[NetworkOf[p]] = NoVlan THEN FreeVlans
                        ELSE {segment[NetworkOf[p]]} :
              segment' = [segment EXCEPT ![NetworkOf[p]] = v]
        BY <3>1 DEF Bind
      <4>2. v \in Vlans \cup {NoVlan}
        BY DEF FreeVlans
      <4>3. QED
        BY <3>1, <4>1, <4>2 DEF Bind
    <3>2. CASE Unbind(p)    BY <3>2 DEF Unbind
    <3>3. CASE Complete(p)  BY <3>3 DEF Complete
    <3>4. CASE UNCHANGED neutronVars
      BY <3>4 DEF neutronVars
    <3>5. QED
      BY <3>1, <3>2, <3>3, <3>4
      DEF PortAction, PlugStep, UnplugStep, Update, CheckVni, PlugVni,
          PlugPort, PlugFails, UnplugPort, UnplugFails, CheckSegment,
          CheckPorts, UnplugVni
  <2>3. SwitchType'
    <3> USE <1>1, Links DEF SwitchType
    <3>1. SwitchType /\ vlan[p] \in Vlans \cup {NoVlan}
          /\ SwitchOf(p) \in Switches /\ NetworkOf[p] \in Networks
      BY PortsAssumption DEF TypeOK, SwitchOf
    <3>2. CASE UNCHANGED switchVars
      BY <3>1, <3>2 DEF switchVars
    <3>3. CASE MapVni(p) /\ UNCHANGED access
      BY <3>1, <3>3 DEF MapVni
    <3>4. CASE UnmapVni(p) /\ UNCHANGED access
      BY <3>1, <3>4, NamesAssumption DEF UnmapVni
    <3>5. CASE /\ SetAccess(p, vlan[p]) \/ SetAccess(p, NoVlan)
               /\ UNCHANGED <<vni, members>>
      <4>1. PICK v \in Vlans \cup {NoVlan} :
              access' = [access EXCEPT ![SwitchOf(p)][p] = v]
        BY <3>1, <3>5 DEF SetAccess
      <4>2. access' \in [Switches -> [Ports -> Vlans \cup {NoVlan}]]
        BY <3>1, <4>1
      <4>3. QED
        BY <3>1, <3>5, <4>2
    <3>6. QED
      BY <3>2, <3>3, <3>4, <3>5
      DEF PortAction, PlugStep, UnplugStep, Bind, Update, Unbind, CheckVni,
          PlugVni, PlugPort, Complete, PlugFails, UnplugPort, UnplugFails,
          CheckSegment, CheckPorts, UnplugVni, switchVars
  <2>4. QED
    BY <2>1, <2>2, <2>3 DEF TypeOK, NeutronType, SwitchType, CallType
<1>2. ASSUME NEW n \in Networks, ReleaseSegment(n), UNCHANGED scenario
      PROVE  TypeOK'
  BY <1>2 DEF ReleaseSegment, TypeOK, switchVars, callVars
<1>3. CASE UNCHANGED vars
  BY <1>3 DEF vars, neutronVars, switchVars, callVars, TypeOK
<1>4. QED
  BY <1>1, <1>2, <1>3 DEF Next, PortAction

-----------------------------------------------------------------------------
(* What a call changes is its own.                                         *)

\* The state of port q that PortInv is about, left alone.
Untouched(q) ==
  /\ bound'[q] = bound[q]
  /\ status'[q] = status[q]
  /\ pc'[q] = pc[q]
  /\ link'[q] = link[q]
  /\ vlan'[q] = vlan[q]
  /\ \A s \in Switches : access'[s][q] = access[s][q]
  /\ bound[q] => segment'[NetworkOf[q]] = segment[NetworkOf[q]]

\* What PortInv says of a port holds as long as nothing touches it.
LEMMA UntouchedKeeps ==
  ASSUME IInv, NEW q \in Ports, Untouched(q)
  PROVE  PortInv(q)'
<1>1. PortInv(q)
  BY DEF IInv
<1>2. \A i \in DOMAIN LinksOf[q] : LinksOf[q][i] \in Switches
  BY Links
<1>3. Served(q)'
  BY <1>1 DEF PortInv, Served, Untouched
<1>4. InCall(q)'
  BY <1>1 DEF PortInv, InCall, Untouched
<1>5. Plugged(q)'
  BY <1>1, <1>2 DEF PortInv, Plugged, Untouched
<1>6. Active(q)'
  BY <1>1, <1>2 DEF PortInv, Active, Untouched
<1>7. QED
  BY <1>3, <1>4, <1>5, <1>6 DEF PortInv

\* A step of one call leaves the other ports alone: the segment of a network
\* with a bound port stays, and each interface has one port.
LEMMA OthersUntouched ==
  ASSUME IInv, NEW p \in Ports, PortAction(p), NEW q \in Ports, q # p
  PROVE  Untouched(q)
<1> USE DEF IInv, TypeOK
<1>1. pc'[q] = pc[q] /\ link'[q] = link[q] /\ vlan'[q] = vlan[q]
  <2>1. Moves(p)
    BY ActionMoves
  <2>2. CASE \E step \in Steps : Goto(p, step)
    BY <2>2 DEF Goto
  <2>3. CASE \E step \in Steps, v \in Vlans \cup {NoVlan} : Begin(p, step, v)
    BY <2>3 DEF Begin
  <2>4. CASE \E step \in Steps : NextLink(p, step)
    BY <2>4 DEF NextLink, Leave, Goto, Return, Begin
  <2>5. QED
    BY <2>1, <2>2, <2>3, <2>4 DEF Moves
<1>2. bound'[q] = bound[q] /\ status'[q] = status[q]
  <2>1. CASE Bind(p) \/ Unbind(p)
    BY <2>1 DEF Bind, Unbind
  <2>2. CASE Complete(p)
    BY <2>2 DEF Complete
  <2>3. CASE UNCHANGED <<bound, status>>
    BY <2>3
  <2>4. QED
    BY <2>1, <2>2, <2>3
    DEF PortAction, PlugStep, UnplugStep, Update, CheckVni, PlugVni,
        PlugPort, PlugFails, UnplugPort, UnplugFails, CheckSegment,
        CheckPorts, UnplugVni, neutronVars
<1>3. ASSUME NEW s \in Switches PROVE access'[s][q] = access[s][q]
  <2>1. SwitchOf(p) \in Switches
    BY Links DEF SwitchOf
  <2>2. CASE UNCHANGED access
    BY <2>2
  <2>3. CASE SetAccess(p, vlan[p]) \/ SetAccess(p, NoVlan)
    <3>1. PICK v \in Vlans \cup {NoVlan} :
            access' = [access EXCEPT ![SwitchOf(p)][p] = v]
      BY <2>3 DEF SetAccess
    <3>2. QED
      BY <2>1, <3>1
  <2>4. QED
    BY <2>2, <2>3
    DEF PortAction, PlugStep, UnplugStep, Bind, Update, Unbind, CheckVni,
        PlugVni, PlugPort, Complete, PlugFails, UnplugPort, UnplugFails,
        CheckSegment, CheckPorts, UnplugVni, switchVars
<1>4. ASSUME bound[q] PROVE segment'[NetworkOf[q]] = segment[NetworkOf[q]]
  <2>1. segment[NetworkOf[q]] \in Vlans
    BY <1>4 DEF PortInv, Served
  <2>2. CASE Bind(p)
    <3>1. CASE segment[NetworkOf[p]] = NoVlan
      <4>1. NetworkOf[p] # NetworkOf[q]
        BY <2>1, <3>1, NamesAssumption
      <4>2. \E v : segment' = [segment EXCEPT ![NetworkOf[p]] = v]
        BY <2>2 DEF Bind
      <4>3. QED
        BY <4>1, <4>2, PortsAssumption
    <3>2. CASE segment[NetworkOf[p]] # NoVlan
      <4>1. segment' = [segment EXCEPT ![NetworkOf[p]] = segment[NetworkOf[p]]]
        BY <2>2, <3>2 DEF Bind
      <4>2. QED
        BY <4>1, PortsAssumption
    <3>3. QED
      BY <3>1, <3>2
  <2>3. CASE UNCHANGED segment
    BY <2>3
  <2>4. QED
    BY <2>2, <2>3
    DEF PortAction, PlugStep, UnplugStep, Update, Unbind, CheckVni, PlugVni,
        PlugPort, Complete, PlugFails, UnplugPort, UnplugFails, CheckSegment,
        CheckPorts, UnplugVni, neutronVars
<1>5. QED
  BY <1>1, <1>2, <1>3, <1>4 DEF Untouched

-----------------------------------------------------------------------------
(* What a call does to its own port.                                       *)

\* Neutron starts a call, with the VLAN of the segment it has just read.
LEMMA StartKeeps ==
  ASSUME IInv, NEW p \in Ports, Bind(p) \/ Update(p) \/ Unbind(p)
  PROVE  PortInv(p)'
<1> USE DEF Plugging, Looping, Unplugging
<1>1. PortInv(p) /\ NetworkOf[p] \in Networks
  BY PortsAssumption DEF IInv
<1>2. DOMAIN LinksOf[p] \subseteq Nat \ {0}
  BY Links
<1>3. CASE Bind(p)
  <2>1. PICK v \in IF segment[NetworkOf[p]] = NoVlan THEN FreeVlans
                    ELSE {segment[NetworkOf[p]]} :
          /\ segment' = [segment EXCEPT ![NetworkOf[p]] = v]
          /\ Begin(p, "check", v)
    BY <1>3 DEF Bind
  <2>2. v \in Vlans
    BY <1>1 DEF FreeVlans, IInv, TypeOK
  <2>3. /\ segment'[NetworkOf[p]] = v
        /\ pc'[p] = "check" /\ link'[p] = 1 /\ vlan'[p] = v
    BY <1>1, <2>1 DEF Begin, IInv, TypeOK
  <2>4. bound'[p] /\ status'[p] = "DOWN"
    BY <1>1, <1>3 DEF Bind, PortInv, Active, IInv, TypeOK
  <2>5. QED
    BY <1>2, <2>2, <2>3, <2>4
    DEF PortInv, Served, InCall, Plugged, Active
<1>4. CASE Update(p)
  <2>1. pc'[p] = "check" /\ link'[p] = 1 /\ vlan'[p] = segment[NetworkOf[p]]
    BY <1>4 DEF Update, Begin, IInv, TypeOK
  <2>2. UNCHANGED neutronVars /\ bound[p] /\ status[p] = "DOWN"
    BY <1>4 DEF Update
  <2>3. QED
    BY <1>1, <1>2, <2>1, <2>2
    DEF neutronVars, PortInv, Served, InCall, Plugged, Active
<1>5. CASE Unbind(p)
  <2>1. pc'[p] = "unplugPort" /\ ~bound'[p] /\ status'[p] = "DOWN"
    BY <1>5 DEF Unbind, Begin, IInv, TypeOK
  <2>2. QED
    BY <2>1 DEF PortInv, Served, InCall, Plugged, Active
<1>6. QED
  BY <1>3, <1>4, <1>5

\* A call that unplugs is for an unbound port: PortInv asks little of it.
LEMMA UnplugKeeps ==
  ASSUME IInv, NEW p \in Ports, UnplugStep(p)
  PROVE  PortInv(p)'
<1> USE DEF Plugging, Looping, Unplugging
<1>1. PortInv(p)
  BY DEF IInv
<1>2. ~bound[p] /\ UNCHANGED neutronVars
  BY <1>1 DEF PortInv, InCall, UnplugStep, UnplugPort, UnplugFails,
              CheckSegment, CheckPorts, UnplugVni
<1>3. ASSUME NextLink(p, "unplugPort")
      PROVE  pc'[p] \in {"unplugPort", "none"}
  BY <1>2, <1>3 DEF NextLink, Leave, Return, Begin, IInv, TypeOK
<1>4. pc'[p] \in Unplugging \cup {"none"}
  BY <1>3 DEF UnplugStep, UnplugPort, UnplugFails, CheckSegment, CheckPorts,
              UnplugVni, Goto, Return, Begin, IInv, TypeOK
<1>5. QED
  BY <1>1, <1>2, <1>4
  DEF neutronVars, PortInv, Served, InCall, Plugged, Active

\* The step that matters: the loop has passed one more link.
LEMMA PlugPortKeeps ==
  ASSUME IInv, NEW p \in Ports, PlugPort(p)
  PROVE  PortInv(p)'
<1> USE DEF Plugging, Looping, Unplugging
<1>1. PortInv(p) /\ pc[p] = "plugPort" /\ UNCHANGED neutronVars
  BY DEF IInv, PlugPort
<1>2. bound[p] /\ status[p] = "DOWN" /\ vlan[p] = segment[NetworkOf[p]]
  BY <1>1 DEF PortInv, InCall
<1>3. link[p] \in DOMAIN LinksOf[p]
  BY DEF IInv, TypeOK
<1>4. ASSUME NEW i \in DOMAIN LinksOf[p], i < link[p] \/ i = link[p]
      PROVE  access'[LinksOf[p][i]][p] = vlan[p]
  <2>1. access' = [access EXCEPT ![LinksOf[p][link[p]]][p] = vlan[p]]
    BY DEF PlugPort, SetAccess, SwitchOf
  <2>2. LinksOf[p][i] \in Switches
    BY Links
  <2>3. i < link[p] => access[LinksOf[p][i]][p] = vlan[p]
    BY <1>1 DEF PortInv, Plugged
  <2>4. QED
    BY <1>4, <2>1, <2>2, <2>3 DEF IInv, TypeOK
<1>5. vlan'[p] = vlan[p]
  BY <1>2 DEF PlugPort, NextLink, Leave, Goto
<1>6. \/ pc'[p] = "check" /\ link'[p] = link[p] + 1
      \/ pc'[p] = "complete" /\ link[p] = Len(LinksOf[p])
  <2>1. CASE link[p] < Len(LinksOf[p])
    BY <2>1 DEF PlugPort, NextLink, IInv, TypeOK
  <2>2. CASE ~(link[p] < Len(LinksOf[p]))
    <3>1. link[p] = Len(LinksOf[p])
      BY <1>3, <2>2, Links
    <3>2. Goto(p, "complete")
      BY <1>2, <2>2 DEF PlugPort, NextLink, Leave
    <3>3. QED
      BY <3>1, <3>2 DEF Goto, IInv, TypeOK
  <2>3. QED
    BY <2>1, <2>2
<1>7. Plugged(p)'
  <2>1. ASSUME NEW i \in DOMAIN LinksOf[p],
               pc'[p] = "complete" \/ (pc'[p] \in Looping /\ i < link'[p])
        PROVE  access'[LinksOf[p][i]][p] = vlan'[p]
    <3>1. i < link[p] \/ i = link[p]
      BY <1>3, <1>6, <2>1, Links
    <3>2. QED
      BY <1>4, <1>5, <3>1
  <2>2. QED
    BY <2>1 DEF Plugged
<1>8. QED
  BY <1>1, <1>2, <1>5, <1>6, <1>7
  DEF neutronVars, PortInv, Served, InCall, Active

\* The other steps of a call that plugs.
LEMMA PlugKeeps ==
  ASSUME IInv, NEW p \in Ports, PlugStep(p)
  PROVE  PortInv(p)'
<1> USE DEF Plugging, Looping, Unplugging
<1>1. PortInv(p)
  BY DEF IInv
<1>2. CASE CheckVni(p) \/ PlugVni(p)
  <2>1. pc[p] \in {"check", "plugVni"} /\ pc'[p] \in {"plugVni", "plugPort"}
    BY <1>2 DEF CheckVni, PlugVni, Goto, IInv, TypeOK
  <2>2. UNCHANGED <<neutronVars, access, link, vlan>>
    BY <1>2 DEF CheckVni, PlugVni, Goto, switchVars
  <2>3. QED
    BY <1>1, <2>1, <2>2
    DEF neutronVars, PortInv, Served, InCall, Plugged, Active
<1>3. CASE PlugPort(p)
  BY <1>3, PlugPortKeeps
<1>4. CASE Complete(p)
  <2>1. pc[p] = "complete" /\ pc'[p] = "none"
    BY <1>4 DEF Complete, Return, Begin, IInv, TypeOK
  <2>2. UNCHANGED <<bound, segment, access>>
    BY <1>4 DEF Complete, switchVars
  <2>3. QED
    BY <1>1, <2>1, <2>2 DEF PortInv, Served, InCall, Plugged, Active
<1>5. CASE PlugFails(p)
  <2>1. pc[p] \in Looping /\ pc'[p] = "none"
    BY <1>5 DEF PlugFails, Return, Begin, IInv, TypeOK
  <2>2. UNCHANGED neutronVars
    BY <1>5 DEF PlugFails
  <2>3. QED
    BY <1>1, <2>1, <2>2
    DEF neutronVars, PortInv, Served, InCall, Plugged, Active
<1>6. QED
  BY <1>2, <1>3, <1>4, <1>5 DEF PlugStep

-----------------------------------------------------------------------------
\* No port is bound and no call runs.
LEMMA Initially == Init => IInv
<1> SUFFICES ASSUME Init PROVE IInv
  OBVIOUS
<1>1. TypeOK
  BY Links DEF Init, TypeOK, Steps
<1>2. ASSUME NEW p \in Ports PROVE PortInv(p)
  BY DEF Init, PortInv, Served, InCall, Plugged, Active, Plugging, Looping,
         Unplugging
<1>3. QED
  BY <1>1, <1>2 DEF IInv

\* Every step, of this port or of another, keeps IInv.
LEMMA InductiveStep == IInv /\ [Next]_vars => IInv'
<1> SUFFICES ASSUME IInv, [Next]_vars PROVE IInv'
  OBVIOUS
<1>1. TypeOK'
  BY TypeStep DEF IInv
<1>2. ASSUME NEW q \in Ports PROVE PortInv(q)'
  <2>1. ASSUME NEW p \in Ports, PortAction(p) PROVE PortInv(q)'
    <3>1. CASE q = p
      BY <2>1, <3>1, StartKeeps, PlugKeeps, UnplugKeeps DEF PortAction
    <3>2. CASE q # p
      BY <2>1, <3>2, OthersUntouched, UntouchedKeeps
    <3>3. QED
      BY <3>1, <3>2
  <2>2. ASSUME NEW n \in Networks, ReleaseSegment(n) PROVE PortInv(q)'
    <3>1. Untouched(q)
      BY <2>2, PortsAssumption
      DEF ReleaseSegment, Untouched, switchVars, callVars, IInv, TypeOK
    <3>2. QED
      BY <3>1, UntouchedKeeps
  <2>3. CASE UNCHANGED vars
    <3>1. Untouched(q)
      BY <2>3 DEF vars, neutronVars, switchVars, callVars, Untouched
    <3>2. QED
      BY <3>1, UntouchedKeeps
  <2>4. QED
    BY <2>1, <2>2, <2>3 DEF Next, PortAction
<1>3. QED
  BY <1>1, <1>2 DEF IInv

\* IInv holds in every state.
LEMMA Invariance == Spec => []IInv
  BY Initially, InductiveStep, PTL DEF Spec

\* Every variable keeps its type: in particular the loops over the links end
\* at the last link.
THEOREM BindingTypeCorrect == Spec => []TypeOK
<1>1. IInv => TypeOK
  BY DEF IInv
<1>2. QED
  BY Invariance, <1>1, PTL

\* A port that update_port_postcommit has let become ACTIVE is bound and
\* plugged into the VLAN of its network on all its links.
THEOREM ActivePortsArePlugged == Spec => []ActiveIsPlugged
<1>1. IInv => ActiveIsPlugged
  <2> SUFFICES ASSUME IInv, NEW p \in Ports, status[p] = "ACTIVE"
               PROVE  /\ bound[p]
                      /\ \A s \in SwitchesOf(p) :
                           access[s][p] = segment[NetworkOf[p]]
                           /\ access[s][p] # NoVlan
    BY DEF ActiveIsPlugged
  <2>1. PortInv(p)
    BY DEF IInv
  <2>2. bound[p] /\ segment[NetworkOf[p]] # NoVlan
    BY <2>1, NamesAssumption DEF PortInv, Active, Served
  <2>3. ASSUME NEW s \in SwitchesOf(p)
        PROVE  access[s][p] = segment[NetworkOf[p]]
    BY <2>1, <2>3 DEF PortInv, Active, SwitchesOf
  <2>4. QED
    BY <2>2, <2>3
<1>2. QED
  BY Invariance, <1>1, PTL
-----------------------------------------------------------------------------
(* What ActiveIsMapped and NoStaleMapping rest on.                         *)

\* Neutron gives a VLAN to one segment at a time.
Distinct ==
  \A m, n \in Networks :
    m # n /\ segment[m] \in Vlans => segment[m] # segment[n]

OneByOne ==
  ~scenario.overlap => \A p, q \in Ports : p # q => Idle(p) \/ Idle(q)

\* While a port is unplugged, its VLAN belongs to no other network: the
\* segment may be released, but then nobody has it until the call returns.
OwnVlan(p) ==
  ~scenario.overlap /\ pc[p] \in Unplugging =>
    /\ vlan[p] \in Vlans
    /\ segment[NetworkOf[p]] \in {vlan[p], NoVlan}
    /\ \A n \in Networks \ {NetworkOf[p]} : segment[n] # vlan[p]

\* The links that a call has yet to unplug.
Ahead(p, i) == i > link[p] \/ (i = link[p] /\ pc[p] = "unplugPort")

\* When nothing fails, a port at rest is either ACTIVE or unplugged, and a
\* call finds its interfaces in its own VLAN or in none.
Rest(p) ==
  scenario.faults = {} =>
    /\ Idle(p) /\ bound[p] => status[p] = "ACTIVE"
    /\ \A s \in Switches : access[s][p] # NoVlan =>
         /\ Idle(p) => bound[p]
         /\ ~Idle(p) => access[s][p] = vlan[p]
         /\ \E i \in DOMAIN LinksOf[p] :
              /\ LinksOf[p][i] = s
              /\ pc[p] \in Unplugging => Ahead(p, i)

Based == IInv /\ Distinct /\ OneByOne
         /\ \A p \in Ports : OwnVlan(p) /\ Rest(p)

CallStep(p) == PortAction(p) /\ UNCHANGED scenario

\* NextLink, seen from the call of the port.
Advance(p, first) ==
  \/ /\ link[p] < Len(LinksOf[p])
     /\ pc'[p] = first /\ link'[p] = link[p] + 1 /\ vlan'[p] = vlan[p]
  \/ /\ link[p] = Len(LinksOf[p]) /\ bound[p]
     /\ pc'[p] = "complete" /\ link'[p] = link[p] /\ vlan'[p] = vlan[p]
  \/ /\ link[p] = Len(LinksOf[p]) /\ ~bound[p]
     /\ pc'[p] = "none" /\ link'[p] = 1 /\ vlan'[p] = NoVlan

\* The loop goes on to the next link, or ends at the last one.
LEMMA NextLinkAdvances ==
  ASSUME TypeOK, NEW p \in Ports, NEW first, NextLink(p, first)
  PROVE  Advance(p, first)
<1>1. link[p] \in 1 .. Len(LinksOf[p]) /\ Len(LinksOf[p]) \in Nat
  BY Links DEF TypeOK
<1>2. QED
  BY <1>1 DEF TypeOK, NextLink, Leave, Goto, Return, Begin, Advance

\* The steps of a call, seen from its port.
Starts(p) ==
  /\ pc[p] = "none" /\ MayStart(p) /\ link'[p] = 1
  /\ vlan'[p] = segment'[NetworkOf[p]]
  /\ UNCHANGED <<access, vni, members>>
  /\ \A n \in Networks : segment[n] \in Vlans => segment'[n] = segment[n]
  /\ \/ /\ ~bound[p] /\ bound'[p] /\ status'[p] = status[p]
        /\ pc'[p] = "check"
     \/ /\ bound[p] /\ bound'[p] /\ status[p] = "DOWN" /\ status' = status
        /\ UNCHANGED segment /\ pc'[p] = "check"
     \/ /\ bound[p] /\ ~bound'[p] /\ status'[p] = "DOWN"
        /\ UNCHANGED segment /\ pc'[p] = "unplugPort"

Same(p) == link'[p] = link[p] /\ vlan'[p] = vlan[p]

Ends(p) == pc'[p] = "none" /\ link'[p] = 1 /\ vlan'[p] = NoVlan

Fails(p) ==
  /\ scenario.faults # {}
  /\ pc[p] \in {"plugVni", "plugPort", "unplugPort"}
  /\ Ends(p)
  /\ UNCHANGED neutronVars

\* A step of a call is its start, a step of its loop, its end or its failure.
LEMMA CallSteps ==
  ASSUME IInv, NEW p \in Ports, PortAction(p)
  PROVE  \/ Starts(p)
         \/ /\ CheckVni(p) /\ Same(p) /\ UNCHANGED <<neutronVars, switchVars>>
            /\ \/ pc'[p] = "plugVni"
               \/ /\ pc'[p] = "plugPort"
                  /\ VlanHasVni(SwitchOf(p), vlan[p], NetworkOf[p])
         \/ PlugVni(p) /\ Same(p) /\ pc'[p] = "plugPort"
         \/ PlugPort(p) /\ Advance(p, "check")
         \/ /\ Complete(p) /\ Ends(p) /\ status'[p] = "ACTIVE"
            /\ UNCHANGED switchVars
         \/ PlugFails(p) /\ Fails(p)
         \/ UnplugPort(p) /\ Same(p) /\ pc'[p] = "segment"
         \/ UnplugFails(p) /\ Fails(p)
         \/ /\ CheckSegment(p) /\ Same(p) /\ pc'[p] \in {"ports", "unplugVni"}
            /\ UNCHANGED <<neutronVars, switchVars>>
         \/ /\ CheckPorts(p) /\ Same(p) /\ pc'[p] = "unplugVni"
            /\ ~VlanHasPorts(SwitchOf(p), vlan[p])
         \/ /\ CheckPorts(p) /\ Advance(p, "unplugPort")
            /\ scenario.faults = {} => VlanHasPorts(SwitchOf(p), vlan[p])
         \/ UnplugVni(p) /\ Advance(p, "unplugPort")
<1> USE DEF IInv, TypeOK
<1>1. NetworkOf[p] \in Networks
  BY PortsAssumption
<1>2. CASE Bind(p)
  <2>1. PortInv(p) /\ status[p] = "DOWN"
    BY <1>2 DEF Bind, PortInv, Active
  <2>2. QED
    BY <1>1, <1>2, <2>1, NamesAssumption
    DEF Bind, Begin, Starts, MayStart, Idle, switchVars
<1>3. CASE Update(p)
  BY <1>1, <1>3
  DEF Update, Begin, Starts, MayStart, Idle, switchVars, neutronVars
<1>4. CASE Unbind(p)
  BY <1>1, <1>4 DEF Unbind, Begin, Starts, MayStart, Idle, switchVars
<1>5. CASE CheckVni(p)
  BY <1>5 DEF CheckVni, Goto, Same
<1>6. CASE PlugVni(p)
  BY <1>6 DEF PlugVni, Goto, Same
<1>7. CASE PlugPort(p)
  BY <1>7, NextLinkAdvances DEF PlugPort
<1>8. CASE Complete(p)
  BY <1>8 DEF Complete, Return, Begin, Ends
<1>9. CASE PlugFails(p)
  BY <1>9 DEF PlugFails, Return, Begin, Ends, Fails
<1>10. CASE UnplugPort(p)
  BY <1>10 DEF UnplugPort, Goto, Same
<1>11. CASE UnplugFails(p)
  BY <1>11 DEF UnplugFails, Return, Begin, Ends, Fails
<1>12. CASE CheckSegment(p)
  BY <1>12 DEF CheckSegment, Goto, Same
<1>13. CASE CheckPorts(p)
  BY <1>13, NextLinkAdvances DEF CheckPorts, Goto, Same
<1>14. CASE UnplugVni(p)
  BY <1>14, NextLinkAdvances DEF UnplugVni
<1>15. QED
  BY <1>2, <1>3, <1>4, <1>5, <1>6, <1>7, <1>8, <1>9, <1>10, <1>11, <1>12,
     <1>13, <1>14 DEF PortAction, PlugStep, UnplugStep

\* Without overlap, a step of one call finds all other ports at rest.
LEMMA OthersRest ==
  ASSUME IInv, OneByOne, ~scenario.overlap, NEW p \in Ports, PortAction(p),
         NEW q \in Ports, q # p
  PROVE  Idle(q)
<1>1. Starts(p) \/ pc[p] # "none"
  BY CallSteps
  DEF CheckVni, PlugVni, PlugPort, Complete, PlugFails, UnplugPort,
      UnplugFails, CheckSegment, CheckPorts, UnplugVni
<1>2. QED
  BY <1>1 DEF OneByOne, Starts, MayStart, Idle

\* Neutron takes the VLAN of a new segment from the free ones.
LEMMA DistinctStep ==
  ASSUME IInv, Distinct, [Next]_vars
  PROVE  Distinct'
<1> USE PortsAssumption, NamesAssumption DEF IInv, TypeOK, Distinct
<1>1. ASSUME NEW p \in Ports, PortAction(p) PROVE Distinct'
  <2>1. CASE Bind(p)
    <3>1. PICK v \in IF segment[NetworkOf[p]] = NoVlan THEN FreeVlans
                      ELSE {segment[NetworkOf[p]]} :
            segment' = [segment EXCEPT ![NetworkOf[p]] = v]
      BY <2>1 DEF Bind
    <3>2. QED
      BY <3>1 DEF FreeVlans
  <2>2. CASE UNCHANGED segment
    BY <2>2
  <2>3. QED
    BY <1>1, <2>1, <2>2
    DEF PortAction, PlugStep, UnplugStep, Update, Unbind, CheckVni, PlugVni,
        PlugPort, Complete, PlugFails, UnplugPort, UnplugFails, CheckSegment,
        CheckPorts, UnplugVni, neutronVars
<1>2. ASSUME NEW n \in Networks, ReleaseSegment(n) PROVE Distinct'
  BY <1>2 DEF ReleaseSegment
<1>3. CASE UNCHANGED vars
  BY <1>3 DEF vars, neutronVars
<1>4. QED
  BY <1>1, <1>2, <1>3 DEF Next, PortAction

\* A call starts when no other runs, unless calls overlap.
LEMMA OneByOneStep ==
  ASSUME IInv, OneByOne, [Next]_vars
  PROVE  OneByOne'
<1>1. ASSUME NEW p \in Ports, CallStep(p) PROVE OneByOne'
  <2>1. ASSUME NEW q \in Ports, q # p PROVE pc'[q] = pc[q]
    BY <1>1, <2>1, OthersUntouched DEF CallStep, Untouched
  <2>2. QED
    BY <1>1, <2>1, OthersRest DEF OneByOne, CallStep, Idle
<1>2. CASE UNCHANGED <<scenario, pc>>
  BY <1>2 DEF OneByOne, Idle
<1>3. QED
  BY <1>1, <1>2
  DEF Next, CallStep, PortAction, ReleaseSegment, vars, callVars

\* What OwnVlan and Rest say of a port is left alone by other calls.
LEMMA OthersKeepBased ==
  ASSUME Based, NEW p \in Ports, CallStep(p), NEW q \in Ports, q # p
  PROVE  OwnVlan(q)' /\ Rest(q)'
<1> USE DEF Based
<1>1. Untouched(q) /\ scenario' = scenario
  BY OthersUntouched DEF CallStep
<1>2. Rest(q)'
  BY <1>1 DEF Rest, Untouched, Idle, Ahead
<1>3. OwnVlan(q)'
  <2>1. ~scenario.overlap => Idle(q)
    BY OthersRest DEF CallStep
  <2>2. QED
    BY <1>1, <2>1 DEF OwnVlan, Untouched, Idle, Unplugging
<1>4. QED
  BY <1>2, <1>3

\* The VLAN of a call that unplugs is the one of the segment at its start.
LEMMA OwnVlanKeeps ==
  ASSUME Based, NEW p \in Ports, CallStep(p)
  PROVE  OwnVlan(p)'
<1> USE PortsAssumption DEF Based, IInv, TypeOK, Unplugging, CallStep
<1>1. CASE Starts(p)
  BY <1>1 DEF Starts, OwnVlan, Distinct, PortInv, Served
<1>2. CASE pc'[p] \notin Unplugging
  BY <1>2 DEF OwnVlan
<1>3. CASE /\ pc[p] \in Unplugging /\ vlan'[p] = vlan[p]
           /\ UNCHANGED neutronVars
  BY <1>3 DEF OwnVlan, neutronVars
<1>4. QED
  BY <1>1, <1>2, <1>3, CallSteps
  DEF CheckVni, PlugVni, PlugPort, Complete, PlugFails, UnplugPort,
      UnplugFails, CheckSegment, CheckPorts, UnplugVni, Same, Ends, Fails,
      Advance

\* The step of a call, and what it leaves on the interfaces of its port.
LEMMA RestKeeps ==
  ASSUME Based, NEW p \in Ports, CallStep(p)
  PROVE  Rest(p)'
<1> USE Links DEF Based, IInv, TypeOK, CallStep, Idle
<1>0. PortInv(p) /\ Rest(p) /\ link[p] \in 1 .. Len(LinksOf[p])
      /\ SwitchOf(p) \in Switches
  BY DEF SwitchOf
<1>1. CASE scenario.faults # {}
  BY <1>1 DEF Rest
<1>2. CASE scenario.faults = {} /\ Starts(p)
  <2>1. CASE ~bound[p]
    BY <1>0, <1>2, <2>1 DEF Starts, Rest, Unplugging
  <2>2. CASE bound[p]
    <3>1. status[p] = "ACTIVE"
      BY <1>0, <1>2, <2>2 DEF Starts, Rest
    <3>2. /\ ~bound'[p] /\ pc'[p] = "unplugPort" /\ link'[p] = 1
          /\ vlan'[p] = segment[NetworkOf[p]] /\ access' = access
      BY <1>2, <2>2, <3>1 DEF Starts
    <3>3. \A i \in DOMAIN LinksOf[p] :
            /\ access[LinksOf[p][i]][p] = vlan'[p]
            /\ Ahead(p, i)'
      BY <1>0, <3>1, <3>2 DEF PortInv, Active, Ahead
    <3>4. \A s \in Switches : access[s][p] # NoVlan =>
            \E i \in DOMAIN LinksOf[p] : LinksOf[p][i] = s
      BY <1>0, <1>2 DEF Rest
    <3>5. QED
      BY <1>2, <3>2, <3>3, <3>4 DEF Rest, Ahead
  <2>3. QED
    BY <2>1, <2>2
<1>3. CASE /\ UNCHANGED <<bound, status, access>> /\ Same(p)
           /\ \/ pc[p] \in Looping /\ pc'[p] \in Looping
              \/ /\ pc[p] \in Unplugging /\ pc'[p] \in Unplugging
                 /\ pc[p] # "unplugPort"
  BY <1>0, <1>3 DEF Same, Looping, Unplugging, Rest, Ahead
<1>4. CASE PlugPort(p) /\ Advance(p, "check")
  <2>1. access' = [access EXCEPT ![SwitchOf(p)][p] = vlan[p]]
        /\ bound[p] /\ UNCHANGED neutronVars
    BY <1>0, <1>4 DEF PlugPort, SetAccess, PortInv, InCall, Plugging
  <2>2. pc'[p] \in {"check", "complete"} /\ vlan'[p] = vlan[p]
    BY <1>4, <2>1 DEF Advance
  <2>3. \A s \in Switches :
          access'[s][p] = IF s = SwitchOf(p) THEN vlan[p] ELSE access[s][p]
    BY <1>0, <2>1
  <2>4. link[p] \in DOMAIN LinksOf[p] /\ pc[p] = "plugPort"
    BY <1>4 DEF PlugPort
  <2>5. scenario.faults = {} =>
          \A s \in Switches : access[s][p] # NoVlan =>
            /\ access[s][p] = vlan[p]
            /\ \E i \in DOMAIN LinksOf[p] : LinksOf[p][i] = s
    BY <1>0, <2>4 DEF Rest
  <2>6. \A s \in Switches : s = SwitchOf(p) =>
          \E i \in DOMAIN LinksOf[p] : LinksOf[p][i] = s
    BY <2>4 DEF SwitchOf
  <2>7. bound'[p] /\ pc'[p] \notin Unplugging /\ pc'[p] # "none"
    BY <2>1, <2>2 DEF neutronVars, Unplugging
  <2>8. QED
    BY <2>2, <2>3, <2>5, <2>6, <2>7 DEF Rest
<1>5. CASE Complete(p) /\ Ends(p)
  BY <1>0, <1>5
  DEF Complete, Ends, Rest, PortInv, InCall, Plugging, Unplugging, switchVars
<1>6. CASE UnplugPort(p) /\ Same(p)
  <2>1. access' = [access EXCEPT ![SwitchOf(p)][p] = NoVlan]
        /\ UNCHANGED neutronVars /\ pc'[p] = "segment"
    BY <1>6 DEF UnplugPort, SetAccess, Goto
  <2>2. QED
    BY <1>0, <1>6, <2>1
    DEF UnplugPort, Same, Rest, SwitchOf, neutronVars, Unplugging, Ahead
<1>7. CASE /\ pc[p] \in {"ports", "unplugVni"} /\ Advance(p, "unplugPort")
           /\ UNCHANGED <<bound, status, access>>
  <2>1. ~bound[p]
    BY <1>0, <1>7 DEF PortInv, InCall, Unplugging
  <2>2. CASE link[p] < Len(LinksOf[p])
    BY <1>0, <1>7, <2>1, <2>2 DEF Advance, Rest, Unplugging, Ahead
  <2>3. CASE link[p] = Len(LinksOf[p])
    <3>1. scenario.faults = {} =>
            \A s \in Switches : access[s][p] = NoVlan
      BY <1>0, <1>7, <2>3 DEF Rest, Unplugging, Ahead
    <3>2. pc'[p] = "none"
      BY <1>7, <2>1, <2>3 DEF Advance
    <3>3. QED
      BY <1>7, <2>1, <3>1, <3>2 DEF Rest
  <2>4. QED
    BY <1>0, <2>2, <2>3
<1>8. QED
  BY <1>1, <1>2, <1>3, <1>4, <1>5, <1>6, <1>7, CallSteps
  DEF CheckVni, PlugVni, CheckSegment, CheckPorts, UnplugVni, Fails,
      neutronVars, switchVars, Looping, Unplugging

\* Every step keeps the four parts of Based.
LEMMA BasedStep == Based /\ [Next]_vars => Based'
<1> SUFFICES ASSUME Based, [Next]_vars PROVE Based'
  OBVIOUS
<1>1. IInv' /\ Distinct' /\ OneByOne'
  BY InductiveStep, DistinctStep, OneByOneStep DEF Based
<1>2. ASSUME NEW q \in Ports PROVE OwnVlan(q)' /\ Rest(q)'
  <2>1. ASSUME NEW p \in Ports, CallStep(p) PROVE OwnVlan(q)' /\ Rest(q)'
    BY <2>1, OwnVlanKeeps, RestKeeps, OthersKeepBased
  <2>2. ASSUME NEW n \in Networks, ReleaseSegment(n), UNCHANGED scenario
        PROVE  OwnVlan(q)' /\ Rest(q)'
    <3>1. UNCHANGED <<scenario, bound, status, switchVars, callVars>>
          /\ segment' = [segment EXCEPT ![n] = NoVlan]
      BY <2>2 DEF ReleaseSegment
    <3>2. Rest(q)'
      BY <3>1 DEF Based, Rest, switchVars, callVars, Idle, Ahead
    <3>3. OwnVlan(q)'
      BY <3>1, PortsAssumption, NamesAssumption
      DEF OwnVlan, callVars, Based, IInv, TypeOK
    <3>4. QED
      BY <3>2, <3>3
  <2>3. CASE UNCHANGED vars
    BY <2>3
    DEF vars, neutronVars, switchVars, callVars, Based, OwnVlan, Rest, Idle,
        Ahead
  <2>4. QED
    BY <2>1, <2>2, <2>3 DEF Next, CallStep, PortAction
<1>3. QED
  BY <1>1, <1>2 DEF Based

\* At first every interface is in no VLAN and no segment exists.
LEMMA BasedInitially == Init => Based
<1> SUFFICES ASSUME Init PROVE Based
  OBVIOUS
<1>1. IInv
  BY Initially
<1>2. ASSUME NEW p \in Ports PROVE OwnVlan(p) /\ Rest(p)
  BY DEF Init, OwnVlan, Rest, Unplugging, Idle
<1>3. Distinct /\ OneByOne
  BY NamesAssumption DEF Init, Distinct, OneByOne, Idle
<1>4. QED
  BY <1>1, <1>2, <1>3 DEF Based

-----------------------------------------------------------------------------
(* NoStaleMapping.                                                         *)

\* A call is at work on VLAN v of switch s: it is about to plug its port, or
\* has unplugged it and not yet looked after the mapping.
At(p, s, v) ==
  /\ pc[p] \in {"plugPort", "segment", "ports", "unplugVni"}
  /\ SwitchOf(p) = s
  /\ vlan[p] = v

\* When nothing fails, every mapped VLAN has a port or a call at work on it.
Watched ==
  scenario.faults = {} =>
    \A s \in Switches, v \in Vlans :
      vni[s][v] # NoNetwork =>
        VlanHasPorts(s, v) \/ \E p \in Ports : At(p, s, v)

\* A mapping without a port came with its call, or lost its last port to a
\* call that is still there: none of the two leaves before it is dealt with.
LEMMA WatchedKeeps ==
  ASSUME Based, Watched, NEW p \in Ports, CallStep(p)
  PROVE  Watched'
<1> SUFFICES ASSUME scenario.faults = {},
                    NEW s \in Switches, NEW v \in Vlans,
                    vni'[s][v] # NoNetwork
             PROVE  (VlanHasPorts(s, v) \/ \E q \in Ports : At(q, s, v))'
  BY DEF Watched, CallStep
<1> USE DEF Based, IInv, TypeOK
<1>1. /\ PortInv(p) /\ Rest(p) /\ NetworkOf[p] \in Networks
      /\ link[p] \in 1 .. Len(LinksOf[p]) /\ SwitchOf(p) \in Switches
      /\ \A i, j \in DOMAIN LinksOf[p] : LinksOf[p][i] = LinksOf[p][j] => i = j
  BY Links, PortsAssumption DEF SwitchOf
<1>2. ASSUME NEW q \in Ports, q # p
      PROVE  (At(q, s, v) => At(q, s, v)') /\ access'[s][q] = access[s][q]
  BY <1>2, OthersUntouched DEF CallStep, Untouched, At, SwitchOf
<1>3. ASSUME vni[s][v] # NoNetwork,
             access[s][p] = v => access'[s][p] = v,
             At(p, s, v) => At(p, s, v)' \/ VlanHasPorts(s, v)'
      PROVE  (VlanHasPorts(s, v) \/ \E q \in Ports : At(q, s, v))'
  BY <1>2, <1>3 DEF Watched, VlanHasPorts
<1>4. CASE Starts(p)
  BY <1>3, <1>4 DEF Starts, At
<1>5. CASE PlugVni(p) /\ Same(p) /\ pc'[p] = "plugPort"
  <2>1. CASE s = SwitchOf(p) /\ v = vlan[p]
    BY <1>5, <2>1 DEF Same, At, SwitchOf
  <2>2. CASE ~(s = SwitchOf(p) /\ v = vlan[p])
    BY <1>1, <1>3, <1>5, <2>2 DEF PlugVni, MapVni, At
  <2>3. QED
    BY <2>1, <2>2
<1>6. CASE PlugPort(p) /\ Advance(p, "check")
  <2>1. access' = [access EXCEPT ![SwitchOf(p)][p] = vlan[p]] /\ vni' = vni
    BY <1>6 DEF PlugPort, SetAccess
  <2>2. CASE s = SwitchOf(p) /\ v = vlan[p]
    BY <1>1, <2>1, <2>2 DEF VlanHasPorts
  <2>3. CASE s = SwitchOf(p) /\ v # vlan[p]
    <3>1. access[s][p] # v
      BY <1>1, <1>6, <2>3, NamesAssumption DEF Rest, PlugPort, Idle
    <3>2. QED
      BY <1>3, <2>1, <2>3, <3>1 DEF At
  <2>4. CASE s # SwitchOf(p)
    BY <1>1, <1>3, <2>1, <2>4 DEF At
  <2>5. QED
    BY <2>2, <2>3, <2>4
<1>7. CASE UnplugPort(p) /\ Same(p) /\ pc'[p] = "segment"
  <2>1. access' = [access EXCEPT ![SwitchOf(p)][p] = NoVlan] /\ vni' = vni
    BY <1>7 DEF UnplugPort, SetAccess
  <2>2. CASE s = SwitchOf(p) /\ v = vlan[p]
    BY <1>7, <2>2 DEF Same, At, SwitchOf
  <2>3. CASE s = SwitchOf(p) /\ v # vlan[p]
    <3>1. access[s][p] # v
      BY <1>1, <1>7, <2>3, NamesAssumption DEF Rest, UnplugPort, Idle
    <3>2. QED
      BY <1>3, <2>1, <2>3, <3>1 DEF At
  <2>4. CASE s # SwitchOf(p)
    BY <1>1, <1>3, <2>1, <2>4 DEF At
  <2>5. QED
    BY <2>2, <2>3, <2>4
<1>8. CASE UnplugVni(p) /\ Advance(p, "unplugPort")
  <2>1. vni' = [vni EXCEPT ![SwitchOf(p)][vlan[p]] = NoNetwork]
        /\ access' = access
    BY <1>8 DEF UnplugVni, UnmapVni
  <2>2. ~(s = SwitchOf(p) /\ v = vlan[p])
    BY <1>1, <2>1
  <2>3. QED
    BY <1>1, <1>3, <2>1, <2>2 DEF At
<1>9. CASE /\ CheckPorts(p) /\ Advance(p, "unplugPort")
           /\ VlanHasPorts(SwitchOf(p), vlan[p])
  BY <1>3, <1>9 DEF CheckPorts, switchVars, At, VlanHasPorts
<1>10. CASE /\ UNCHANGED switchVars /\ Same(p)
            /\ \/ pc[p] \in {"segment", "ports"}
                  /\ pc'[p] \in {"ports", "unplugVni"}
               \/ pc[p] \in {"check", "complete"}
  BY <1>3, <1>10 DEF switchVars, Same, At, SwitchOf
<1>11. CASE Complete(p) /\ UNCHANGED switchVars
  BY <1>3, <1>11 DEF switchVars, Complete, At
<1>12. QED
  BY <1>4, <1>5, <1>6, <1>7, <1>8, <1>9, <1>10, <1>11, CallSteps
  DEF CallStep, CheckVni, CheckSegment, CheckPorts, Fails

\* Neutron alone changes nothing that Watched is about.
LEMMA WatchedStep == Based /\ Watched /\ [Next]_vars => Watched'
<1> SUFFICES ASSUME Based, Watched, [Next]_vars PROVE Watched'
  OBVIOUS
<1>1. ASSUME NEW p \in Ports, CallStep(p) PROVE Watched'
  BY <1>1, WatchedKeeps
<1>2. CASE UNCHANGED <<scenario, switchVars, callVars>>
  BY <1>2 DEF switchVars, callVars, Watched, VlanHasPorts, At, SwitchOf
<1>3. QED
  BY <1>1, <1>2 DEF Next, CallStep, PortAction, ReleaseSegment, vars

\* In every state, whatever overlaps.
LEMMA WatchedInvariance == Spec => [](Based /\ Watched)
<1>1. Init => Watched
  BY DEF Init, Watched
<1>2. QED
  BY <1>1, BasedInitially, BasedStep, WatchedStep, PTL DEF Spec

\* However the calls for different ports overlap, when nothing failed and the
\* driver is at rest, no VLAN without a port is still mapped to a VNI: a call
\* that finds ports on the VLAN leaves the mapping to their calls.
THEOREM NoMappingGoesStale == Spec => []NoStaleMapping
<1>1. Watched => NoStaleMapping
  BY DEF Watched, NoStaleMapping, At, Idle
<1>2. QED
  BY WatchedInvariance, <1>1, PTL

-----------------------------------------------------------------------------
(* ActiveIsMapped.                                                         *)

\* A call for a port of network n will look after VLAN v of switch s.
Leaving(p, s, n, v) ==
  /\ NetworkOf[p] = n /\ vlan[p] = v /\ pc[p] \in Unplugging
  /\ \E i \in DOMAIN LinksOf[p] : i >= link[p] /\ LinksOf[p][i] = s

\* What the query of NX-OS may rely on: without overlap and failures, the VNI
\* of a network is on no VLAN but that of its segment, or one that is about
\* to lose it.
Known ==
  ~scenario.overlap /\ scenario.faults = {} =>
    \A s \in Switches, n \in Networks :
      /\ n \in members[s] => \E v \in Vlans : vni[s][v] = n
      /\ \A v \in Vlans : vni[s][v] = n =>
           segment[n] = v \/ \E p \in Ports : Leaving(p, s, n, v)

\* A call that passes a link has nothing more to do than before, less what it
\* had to do there.
LEMMA Passed ==
  ASSUME TypeOK, NEW p \in Ports, NEW s, NEW n, NEW v,
         pc[p] \in Unplugging, Advance(p, "unplugPort"), Leaving(p, s, n, v)
  PROVE  \/ Leaving(p, s, n, v)'
         \/ s = SwitchOf(p) /\ v = vlan[p] /\ n = NetworkOf[p]
<1>1. PICK i \in DOMAIN LinksOf[p] : i >= link[p] /\ LinksOf[p][i] = s
  BY DEF Leaving
<1>2. i \in 1 .. Len(LinksOf[p]) /\ link[p] \in 1 .. Len(LinksOf[p])
      /\ Len(LinksOf[p]) \in Nat
  BY Links DEF TypeOK
<1>3. CASE i = link[p]
  BY <1>1, <1>3 DEF Leaving, SwitchOf
<1>4. CASE i > link[p]
  <2>1. pc'[p] = "unplugPort" /\ link'[p] = link[p] + 1 /\ vlan'[p] = vlan[p]
    BY <1>2, <1>4 DEF Advance
  <2>2. i >= link'[p]
    BY <1>2, <1>4, <2>1
  <2>3. QED
    BY <1>1, <2>1, <2>2 DEF Leaving, Unplugging
<1>5. QED
  BY <1>1, <1>2, <1>3, <1>4

\* The step of a call, which is the only one that runs.
LEMMA KnownKeeps ==
  ASSUME Based, Known, NEW p \in Ports, CallStep(p)
  PROVE  Known'
<1> SUFFICES ASSUME ~scenario.overlap, scenario.faults = {},
                    NEW s \in Switches, NEW n \in Networks
             PROVE  /\ n \in members'[s] => \E v \in Vlans : vni'[s][v] = n
                    /\ \A v \in Vlans : vni'[s][v] = n =>
                         \/ segment'[n] = v
                         \/ \E q \in Ports : Leaving(q, s, n, v)'
  BY DEF Known, CallStep
<1> USE DEF Based, IInv, TypeOK
<1>1. /\ PortInv(p) /\ Rest(p) /\ OwnVlan(p) /\ NetworkOf[p] \in Networks
      /\ link[p] \in 1 .. Len(LinksOf[p]) /\ SwitchOf(p) \in Switches
      /\ \A i, j \in DOMAIN LinksOf[p] : LinksOf[p][i] = LinksOf[p][j] => i = j
      /\ DOMAIN LinksOf[p] = 1 .. Len(LinksOf[p])
  BY Links, PortsAssumption DEF SwitchOf
<1>2. \A q \in Ports : q # p => Idle(q)
  BY OthersRest DEF CallStep
<1>3. /\ n \in members[s] => \E v \in Vlans : vni[s][v] = n
      /\ \A v \in Vlans : vni[s][v] = n =>
           segment[n] = v \/ Leaving(p, s, n, v)
  <2>1. ASSUME NEW v \in Vlans, NEW q \in Ports, Leaving(q, s, n, v)
        PROVE  Leaving(p, s, n, v)
    BY <1>2, <2>1 DEF Leaving, Idle, Unplugging
  <2>2. QED
    BY <2>1 DEF Known
<1>4. CASE Starts(p)
  <2>1. \A v \in Vlans : ~Leaving(p, s, n, v)
    BY <1>4 DEF Starts, Leaving, Unplugging
  <2>2. UNCHANGED <<vni, members>>
        /\ (segment[n] \in Vlans => segment'[n] = segment[n])
    BY <1>4 DEF Starts
  <2>3. QED
    BY <1>3, <2>1, <2>2
<1>5. CASE UNCHANGED <<segment, vni, members>> /\ pc[p] \notin Unplugging
  <2>1. \A v \in Vlans : ~Leaving(p, s, n, v)
    BY <1>5 DEF Leaving
  <2>2. QED
    BY <1>3, <1>5, <2>1
<1>6. CASE PlugVni(p)
  <2>1. vni' = [vni EXCEPT ![SwitchOf(p)][vlan[p]] = NetworkOf[p]]
        /\ members' = [members EXCEPT ![SwitchOf(p)] = @ \cup {NetworkOf[p]}]
        /\ segment' = segment
    BY <1>6 DEF PlugVni, MapVni, neutronVars
  <2>2. pc[p] \notin Unplugging
    BY <1>6 DEF PlugVni, Unplugging
  <2>3. vlan[p] \in Vlans /\ vlan[p] = segment[NetworkOf[p]]
    BY <1>1, <1>6 DEF PlugVni, PortInv, InCall, Served, Plugging
  <2>4. CASE s = SwitchOf(p)
    <3>1. \A v \in Vlans :
            vni'[s][v] = IF v = vlan[p] THEN NetworkOf[p] ELSE vni[s][v]
      BY <1>1, <2>1, <2>4
    <3>2. \A v \in Vlans : vni[s][v] = n => segment[n] = v
      BY <1>3, <2>2 DEF Leaving
    <3>3. members'[s] = members[s] \cup {NetworkOf[p]}
      BY <2>1, <2>4
    <3>4. n # NetworkOf[p] => segment[n] # vlan[p]
      BY <1>1, <2>3 DEF Distinct
    <3>5. QED
      BY <1>3, <2>1, <2>3, <3>1, <3>2, <3>3, <3>4
  <2>5. CASE s # SwitchOf(p)
    BY <1>3, <2>1, <2>2, <2>5 DEF Leaving
  <2>6. QED
    BY <2>4, <2>5
<1>7. CASE /\ UNCHANGED <<vni, members>> /\ segment' = segment
           /\ pc[p] \in Unplugging /\ pc'[p] \in Unplugging /\ Same(p)
  BY <1>3, <1>7 DEF Leaving, Same
<1>8. CASE /\ CheckPorts(p) /\ Advance(p, "unplugPort")
           /\ VlanHasPorts(SwitchOf(p), vlan[p])
  <2>1. PICK q \in Ports : access[SwitchOf(p)][q] = vlan[p]
    BY <1>8 DEF VlanHasPorts
  <2>2. vlan[p] \in Vlans /\ pc[p] = "ports" /\ pc[p] \in Unplugging
    BY <1>1, <1>8 DEF CheckPorts, OwnVlan, Unplugging
  <2>3. ASSUME q = p PROVE FALSE
    <3>1. access[SwitchOf(p)][p] # NoVlan
      BY <2>1, <2>2, <2>3, NamesAssumption
    <3>2. PICK i \in DOMAIN LinksOf[p] :
            LinksOf[p][i] = SwitchOf(p) /\ Ahead(p, i)
      BY <1>1, <2>2, <3>1 DEF Rest
    <3>3. i = link[p]
      BY <1>1, <3>2 DEF SwitchOf
    <3>4. QED
      BY <1>1, <2>2, <3>2, <3>3 DEF Ahead
  <2>4. segment[NetworkOf[q]] = vlan[p]
    BY <1>1, <1>2, <2>1, <2>2, <2>3, NamesAssumption
    DEF Rest, PortInv, Active
  <2>5. NetworkOf[q] = NetworkOf[p]
    BY <1>1, <2>2, <2>4, PortsAssumption DEF OwnVlan
  <2>6. UNCHANGED <<neutronVars, vni, members>>
    BY <1>8 DEF CheckPorts, switchVars
  <2>7. ASSUME NEW v \in Vlans, Leaving(p, s, n, v)
        PROVE  segment[n] = v \/ Leaving(p, s, n, v)'
    BY <1>1, <1>8, <2>2, <2>4, <2>5, <2>7, Passed
  <2>8. QED
    BY <1>3, <2>6, <2>7 DEF neutronVars
<1>9. CASE UnplugVni(p) /\ Advance(p, "unplugPort")
  <2>1. vni' = [vni EXCEPT ![SwitchOf(p)][vlan[p]] = NoNetwork]
        /\ members' = [members EXCEPT ![SwitchOf(p)] = @ \ {NetworkOf[p]}]
        /\ segment' = segment
    BY <1>9 DEF UnplugVni, UnmapVni, neutronVars
  <2>2. pc[p] \in Unplugging
    BY <1>9 DEF UnplugVni, Unplugging
  <2>3. ASSUME NEW v \in Vlans, Leaving(p, s, n, v), vni'[s][v] = n
        PROVE  Leaving(p, s, n, v)'
    <3>1. ~(s = SwitchOf(p) /\ v = vlan[p])
      BY <1>1, <2>1, <2>3, NamesAssumption
    <3>2. QED
      BY <1>9, <2>2, <2>3, <3>1, Passed
  <2>4. \A v \in Vlans : vni'[s][v] = n => vni[s][v] = n
    BY <1>1, <2>1, NamesAssumption
  <2>5. ASSUME n \in members'[s] PROVE \E v \in Vlans : vni'[s][v] = n
    <3>1. n \in members[s] /\ (s = SwitchOf(p) => n # NetworkOf[p])
      BY <1>1, <2>1, <2>5
    <3>2. PICK v \in Vlans : vni[s][v] = n
      BY <1>3, <3>1
    <3>3. s # SwitchOf(p) \/ v # vlan[p]
      BY <1>1, <1>3, <2>2, <3>1, <3>2 DEF OwnVlan, Leaving
    <3>4. vni'[s][v] = n
      BY <1>1, <2>1, <3>2, <3>3
    <3>5. QED
      BY <3>4
  <2>6. QED
    BY <1>3, <2>1, <2>3, <2>4, <2>5
<1>10. QED
  BY <1>4, <1>5, <1>6, <1>7, <1>8, <1>9, CallSteps
  DEF CallStep, CheckVni, PlugPort, CheckSegment, CheckPorts, Fails,
      UnplugPort, switchVars, neutronVars, Complete, Unplugging, Same

\* Neutron releases a segment only when the calls of its ports, if any, are
\* there to remove what is mapped.
LEMMA KnownReleases ==
  ASSUME Based, Watched, Known, NEW m \in Networks, ReleaseSegment(m),
         UNCHANGED scenario
  PROVE  Known'
<1> SUFFICES ASSUME ~scenario.overlap, scenario.faults = {},
                    NEW s \in Switches, NEW n \in Networks
             PROVE  /\ n \in members'[s] => \E v \in Vlans : vni'[s][v] = n
                    /\ \A v \in Vlans : vni'[s][v] = n =>
                         \/ segment'[n] = v
                         \/ \E q \in Ports : Leaving(q, s, n, v)'
  BY DEF Known
<1> USE DEF Based, IInv, TypeOK
<1>1. UNCHANGED <<switchVars, callVars>>
      /\ segment' = [segment EXCEPT ![m] = NoVlan]
      /\ \A q \in Ports : NetworkOf[q] = m => ~bound[q]
  BY DEF ReleaseSegment
<1>2. \A q \in Ports, v \in Vlans :
        Leaving(q, s, n, v)' <=> Leaving(q, s, n, v)
  BY <1>1 DEF callVars, Leaving
<1>3. ASSUME NEW v \in Vlans, vni[s][v] = n, n = m, segment[n] = v
      PROVE  \E q \in Ports : Leaving(q, s, n, v)
  <2>1. PICK q \in Ports : access[s][q] = v \/ At(q, s, v)
    BY <1>3, NamesAssumption DEF Watched, VlanHasPorts
  <2>2. PortInv(q) /\ Rest(q) /\ OwnVlan(q) /\ NetworkOf[q] \in Networks
        /\ link[q] \in DOMAIN LinksOf[q]
    BY PortsAssumption
  <2>3. bound[q] => segment[NetworkOf[q]] # v
    BY <1>1, <1>3, <2>2 DEF Distinct
  <2>4. CASE access[s][q] = v
    <3>1. PICK i \in DOMAIN LinksOf[q] :
            LinksOf[q][i] = s /\ (pc[q] \in Unplugging => Ahead(q, i))
      BY <2>2, <2>4, NamesAssumption DEF Rest
    <3>2. ~Idle(q)
      BY <2>2, <2>3, <2>4, <3>1, NamesAssumption DEF Rest, PortInv, Active
    <3>3. vlan[q] = v
      BY <2>2, <2>4, <3>2, NamesAssumption DEF Rest
    <3>4. pc[q] \in Unplugging
      BY <2>2, <2>3, <3>2, <3>3
      DEF PortInv, InCall, Plugging, Unplugging, Steps, Idle
    <3>5. NetworkOf[q] = n
      BY <1>3, <2>2, <3>3, <3>4 DEF OwnVlan
    <3>6. i >= link[q]
      BY <2>2, <3>1, <3>4, Links DEF Ahead
    <3>7. QED
      BY <3>1, <3>3, <3>4, <3>5, <3>6 DEF Leaving
  <2>5. CASE At(q, s, v)
    <3>1. pc[q] \in Unplugging /\ vlan[q] = v /\ LinksOf[q][link[q]] = s
      BY <2>2, <2>3, <2>5
      DEF At, PortInv, InCall, Plugging, Unplugging, SwitchOf
    <3>2. NetworkOf[q] = n
      BY <1>3, <2>2, <3>1 DEF OwnVlan
    <3>3. link[q] >= link[q]
      BY <2>2, Links
    <3>4. QED
      BY <2>2, <3>1, <3>2, <3>3 DEF Leaving
  <2>6. QED
    BY <2>1, <2>4, <2>5
<1>4. QED
  BY <1>1, <1>2, <1>3 DEF Known, switchVars

\* Every step keeps Known.
LEMMA KnownStep == Based /\ Watched /\ Known /\ [Next]_vars => Known'
<1> SUFFICES ASSUME Based, Watched, Known, [Next]_vars PROVE Known'
  OBVIOUS
<1>1. ASSUME NEW p \in Ports, CallStep(p) PROVE Known'
  BY <1>1, KnownKeeps
<1>2. ASSUME NEW n \in Networks, ReleaseSegment(n), UNCHANGED scenario
      PROVE  Known'
  BY <1>2, KnownReleases
<1>3. CASE UNCHANGED vars
  BY <1>3
  DEF vars, neutronVars, switchVars, callVars, Known, Leaving
<1>4. QED
  BY <1>1, <1>2, <1>3 DEF Next, CallStep, PortAction

\* The links that the call has passed, and the one it is about to plug.
Passing(p, i) ==
  \/ pc[p] = "complete"
  \/ pc[p] \in Looping /\ i < link[p]
  \/ pc[p] = "plugPort" /\ i = link[p]

\* Those links are mapped to the network, as are all links of a port that is
\* ACTIVE; and a call that removes a mapping takes it from no such port.
Mapped(p) ==
  ~scenario.overlap /\ (scenario.exact \/ scenario.faults = {}) =>
    /\ \A i \in DOMAIN LinksOf[p] : Passing(p, i) =>
         vni[LinksOf[p][i]][vlan[p]] = NetworkOf[p]
    /\ status[p] = "ACTIVE" => \A i \in DOMAIN LinksOf[p] :
         vni[LinksOf[p][i]][segment[NetworkOf[p]]] = NetworkOf[p]
    /\ pc[p] = "unplugVni" => \A q \in Ports : \A i \in DOMAIN LinksOf[q] :
         status[q] = "ACTIVE" /\ LinksOf[q][i] = SwitchOf(p) =>
           segment[NetworkOf[q]] # vlan[p]

\* A call maps its VLAN to its own network, and removes a mapping only where
\* no port that is ACTIVE has it.
LEMMA OthersStayMapped ==
  ASSUME Based, NEW p \in Ports, CallStep(p), Mapped(p),
         NEW q \in Ports, q # p, Mapped(q)
  PROVE  Mapped(q)'
<1> SUFFICES ASSUME ~scenario.overlap,
                    scenario.exact \/ scenario.faults = {}
             PROVE  Mapped(q)'
  BY DEF Mapped, CallStep
<1> USE DEF Based, IInv, TypeOK
<1>1. Idle(q) /\ Untouched(q) /\ PortInv(q) /\ PortInv(p)
      /\ NetworkOf[q] \in Networks /\ NetworkOf[p] \in Networks
      /\ SwitchOf(p) \in Switches
      /\ \A i \in DOMAIN LinksOf[q] : LinksOf[q][i] \in Switches
  BY OthersRest, OthersUntouched, PortsAssumption, Links
  DEF CallStep, SwitchOf
<1>2. Idle(q)'
  BY <1>1 DEF Idle, Untouched
<1>3. ASSUME status[q] = "ACTIVE", NEW i \in DOMAIN LinksOf[q]
      PROVE  vni'[LinksOf[q][i]][segment[NetworkOf[q]]] = NetworkOf[q]
  <2>1. vni[LinksOf[q][i]][segment[NetworkOf[q]]] = NetworkOf[q]
        /\ bound[q] /\ segment[NetworkOf[q]] \in Vlans
    BY <1>1, <1>3 DEF Mapped, PortInv, Active, Served
  <2>2. CASE vni' = vni
    BY <2>1, <2>2
  <2>3. CASE MapVni(p) /\ pc[p] \in Plugging
    <3>1. vlan[p] = segment[NetworkOf[p]] /\ vlan[p] \in Vlans
      BY <1>1, <2>3 DEF PortInv, InCall, Served
    <3>2. vlan[p] = segment[NetworkOf[q]] => NetworkOf[p] = NetworkOf[q]
      BY <1>1, <3>1 DEF Distinct
    <3>3. QED
      BY <1>1, <2>1, <2>3, <3>1, <3>2 DEF MapVni
  <2>4. CASE UnplugVni(p) /\ UnmapVni(p)
    <3>1. LinksOf[q][i] = SwitchOf(p) => segment[NetworkOf[q]] # vlan[p]
      BY <1>3, <2>4 DEF UnplugVni, Mapped
    <3>2. QED
      BY <1>1, <2>1, <2>4, <3>1 DEF UnmapVni
  <2>5. QED
    BY <2>2, <2>3, <2>4, CallSteps
    DEF CallStep, Starts, PlugVni, PlugPort, PlugFails, UnplugPort,
        UnplugFails, CheckPorts, UnplugVni, switchVars, Plugging
<1>4. pc'[q] = "none" /\ status'[q] = status[q]
  BY <1>1, <1>2 DEF Idle, Untouched
<1>5. status[q] = "ACTIVE" => segment'[NetworkOf[q]] = segment[NetworkOf[q]]
  BY <1>1 DEF PortInv, Active, Untouched
<1>6. QED
  BY <1>3, <1>4, <1>5 DEF Mapped, Passing, Looping

\* The steps of a call, seen from its port: the query is right about the
\* mapping it finds, and the last link makes the port ACTIVE.
LEMMA MappedKeeps ==
  ASSUME Based, Known, NEW p \in Ports, CallStep(p), Mapped(p)
  PROVE  Mapped(p)'
<1> SUFFICES ASSUME ~scenario.overlap,
                    scenario.exact \/ scenario.faults = {}
             PROVE  Mapped(p)'
  BY DEF Mapped, CallStep
<1> USE DEF Based, IInv, TypeOK
<1>1. /\ PortInv(p) /\ OwnVlan(p) /\ NetworkOf[p] \in Networks
      /\ SwitchOf(p) \in Switches /\ link[p] \in 1 .. Len(LinksOf[p])
      /\ DOMAIN LinksOf[p] = 1 .. Len(LinksOf[p])
      /\ \A i \in DOMAIN LinksOf[p] : LinksOf[p][i] \in Switches
      /\ \A i, j \in DOMAIN LinksOf[p] : LinksOf[p][i] = LinksOf[p][j] => i = j
      /\ Len(LinksOf[p]) \in Nat
  BY Links, PortsAssumption DEF SwitchOf
<1>2. \A q \in Ports : q # p => Idle(q)
  BY OthersRest DEF CallStep
<1>3. pc[p] # "none" => status[p] # "ACTIVE"
  BY <1>1 DEF PortInv, InCall, Active, Plugging, Unplugging, Steps
<1>4. CASE Starts(p)
  BY <1>1, <1>4
  DEF Starts, Mapped, Passing, Looping, PortInv, Active
<1>5. CASE Fails(p)
  BY <1>3, <1>5 DEF Fails, Ends, neutronVars, Mapped, Passing, Looping
<1>6. CASE CheckVni(p) /\ Same(p) /\ UNCHANGED <<neutronVars, switchVars>>
  <2>1. vlan[p] = segment[NetworkOf[p]] /\ vlan[p] \in Vlans
    BY <1>1, <1>6 DEF CheckVni, PortInv, InCall, Served, Plugging
  <2>2. ASSUME VlanHasVni(SwitchOf(p), vlan[p], NetworkOf[p])
        PROVE  vni[SwitchOf(p)][vlan[p]] = NetworkOf[p]
    <3>1. CASE scenario.exact
      BY <2>2, <3>1 DEF VlanHasVni
    <3>2. CASE ~scenario.exact
      <4>1. PICK v \in Vlans : vni[SwitchOf(p)][v] = NetworkOf[p]
        BY <1>1, <2>2, <3>2 DEF VlanHasVni, Known
      <4>2. \A q \in Ports : pc[q] \notin Unplugging
        BY <1>2, <1>6 DEF CheckVni, Idle, Unplugging
      <4>3. v = segment[NetworkOf[p]]
        BY <1>1, <3>2, <4>1, <4>2 DEF Known, Leaving
      <4>4. QED
        BY <2>1, <4>1, <4>3
    <3>3. QED
      BY <3>1, <3>2
  <2>3. pc[p] = "check" /\ pc'[p] \in {"plugVni", "plugPort"}
        /\ (pc'[p] = "plugPort" =>
              vni[SwitchOf(p)][vlan[p]] = NetworkOf[p])
    BY <1>6, <2>2 DEF CheckVni, Goto
  <2>4. QED
    BY <1>1, <1>3, <1>6, <2>3
    DEF Mapped, Passing, Looping, Same, SwitchOf, neutronVars, switchVars
<1>7. CASE PlugVni(p) /\ Same(p) /\ pc'[p] = "plugPort"
  <2>1. vni' = [vni EXCEPT ![SwitchOf(p)][vlan[p]] = NetworkOf[p]]
        /\ UNCHANGED neutronVars /\ pc[p] = "plugVni"
    BY <1>7 DEF PlugVni, MapVni
  <2>2. vlan[p] \in Vlans
    BY <1>1, <2>1 DEF PortInv, InCall, Served, Plugging
  <2>3. ASSUME NEW i \in DOMAIN LinksOf[p], i <= link[p]
        PROVE  vni'[LinksOf[p][i]][vlan[p]] = NetworkOf[p]
    <3>1. CASE i = link[p]
      BY <1>1, <2>1, <2>2, <3>1 DEF SwitchOf
    <3>2. CASE i < link[p]
      BY <1>1, <2>1, <2>2, <3>2 DEF Mapped, Passing, Looping
    <3>3. QED
      BY <1>1, <2>3, <3>1, <3>2
  <2>4. QED
    BY <1>1, <1>3, <1>7, <2>1, <2>3
    DEF Mapped, Passing, Looping, Same, neutronVars
<1>8. CASE PlugPort(p) /\ Advance(p, "check")
  <2>1. UNCHANGED <<neutronVars, vni>> /\ pc[p] = "plugPort" /\ bound[p]
    BY <1>1, <1>8 DEF PlugPort, PortInv, InCall, Plugging
  <2>2. vlan'[p] = vlan[p] /\ pc'[p] \in {"check", "complete"}
        /\ \A i \in DOMAIN LinksOf[p] :
             Passing(p, i)' => Passing(p, i)
    BY <1>1, <1>8, <2>1 DEF Advance, Passing, Looping
  <2>3. QED
    BY <1>3, <2>1, <2>2 DEF Mapped, neutronVars
<1>9. CASE /\ Complete(p) /\ Ends(p) /\ status'[p] = "ACTIVE"
           /\ UNCHANGED switchVars
  <2>1. pc[p] = "complete" /\ segment' = segment /\ pc'[p] = "none"
    BY <1>9 DEF Complete, Ends
  <2>2. vlan[p] = segment[NetworkOf[p]]
    BY <1>1, <2>1 DEF PortInv, InCall, Plugging
  <2>3. QED
    BY <1>9, <2>1, <2>2 DEF Mapped, Passing, Looping, switchVars
<1>10. CASE /\ pc[p] \in Unplugging /\ UNCHANGED neutronVars
            /\ pc'[p] \in {"unplugPort", "segment", "ports", "none"}
  BY <1>3, <1>10 DEF Mapped, Passing, Looping, Unplugging, neutronVars
<1>11. CASE /\ pc[p] \in Unplugging /\ pc'[p] = "unplugVni" /\ Same(p)
            /\ UNCHANGED <<neutronVars, vni>>
            /\ \/ CheckSegment(p)
               \/ ~VlanHasPorts(SwitchOf(p), vlan[p])
  <2>1. ASSUME NEW q \in Ports, NEW i \in DOMAIN LinksOf[q],
               status[q] = "ACTIVE", LinksOf[q][i] = SwitchOf(p)
        PROVE  segment[NetworkOf[q]] # vlan[p]
    <3>1. PortInv(q) /\ NetworkOf[q] \in Networks
      BY PortsAssumption
    <3>2. CASE CheckSegment(p)
      BY <1>1, <1>11, <3>1, <3>2 DEF CheckSegment, Goto, OwnVlan
    <3>3. CASE ~VlanHasPorts(SwitchOf(p), vlan[p])
      BY <2>1, <3>1, <3>3 DEF PortInv, Active, VlanHasPorts
    <3>4. QED
      BY <1>11, <3>2, <3>3
  <2>2. QED
    BY <1>3, <1>11, <2>1
    DEF Mapped, Passing, Looping, Unplugging, Same, SwitchOf, neutronVars
<1>12. QED
  BY <1>1, <1>4, <1>5, <1>6, <1>7, <1>8, <1>9, <1>10, <1>11, CallSteps
  DEF CallStep, CheckSegment, CheckPorts, UnplugPort, UnplugVni, Advance,
      PortInv, InCall, Unplugging, switchVars

MappedInv == Based /\ Watched /\ Known /\ \A p \in Ports : Mapped(p)

\* Every step keeps the invariant that ActiveIsMapped rests on.
LEMMA MappedStep == MappedInv /\ [Next]_vars => MappedInv'
<1> SUFFICES ASSUME MappedInv, [Next]_vars PROVE MappedInv'
  OBVIOUS
<1>1. Based' /\ Watched' /\ Known'
  BY BasedStep, WatchedStep, KnownStep DEF MappedInv
<1>2. ASSUME NEW q \in Ports PROVE Mapped(q)'
  <2>1. ASSUME NEW p \in Ports, CallStep(p) PROVE Mapped(q)'
    BY <2>1, MappedKeeps, OthersStayMapped DEF MappedInv
  <2>2. ASSUME NEW n \in Networks, ReleaseSegment(n), UNCHANGED scenario
        PROVE  Mapped(q)'
    <3>1. /\ UNCHANGED <<scenario, status, switchVars, callVars>>
          /\ \A r \in Ports : status[r] = "ACTIVE" =>
               segment'[NetworkOf[r]] = segment[NetworkOf[r]]
      BY <2>2, PortsAssumption
      DEF ReleaseSegment, MappedInv, Based, IInv, PortInv, Active, TypeOK
    <3>2. Mapped(q)
      BY DEF MappedInv
    <3>3. QED
      BY <3>1, <3>2 DEF Mapped, Passing, SwitchOf, switchVars, callVars
  <2>3. CASE UNCHANGED vars
    BY <2>3
    DEF vars, neutronVars, switchVars, callVars, MappedInv, Mapped, Passing,
        SwitchOf
  <2>4. QED
    BY <2>1, <2>2, <2>3 DEF Next, CallStep, PortAction
<1>3. QED
  BY <1>1, <1>2 DEF MappedInv

\* While calls do not overlap, the VLAN of an ACTIVE port is mapped to the VNI
\* of its network on each of its switches, also when commands and queries
\* fail; on NX-OS, whose query ignores the VLAN, when nothing fails.
THEOREM ActivePortsAreMapped == Spec => []ActiveIsMapped
<1>1. Init => MappedInv
  <2>1. Init => Watched /\ Known /\ \A p \in Ports : Mapped(p)
    BY NamesAssumption
    DEF Init, Watched, Known, Mapped, Passing, Looping
  <2>2. QED
    BY <2>1, BasedInitially DEF MappedInv
<1>2. MappedInv => ActiveIsMapped
  BY DEF MappedInv, Mapped, ActiveIsMapped, SwitchesOf
<1>3. QED
  BY <1>1, <1>2, MappedStep, PTL DEF Spec
=============================================================================
