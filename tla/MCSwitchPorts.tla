--------------------------- MODULE MCSwitchPorts ---------------------------
EXTENDS SwitchPorts

CONSTANTS p1, p2, v1, v2, v3

\* Every driver, with one port, while calls fail.
OnePort ==
  {s \in [driver : Drivers, overlay : {"none"}, kind : AnyPort,
          ports : {{p1}}, vlans : {{v1, v2}}, shuts : BOOLEAN,
          default : BOOLEAN, trunks : BOOLEAN, faults : BOOLEAN] :
     s.faults \/ ~s.shuts}

\* Two subports of one trunk, on the drivers that have trunks.
TwoSubports ==
  [driver : {"arista", "ios", "nvue", "os10", "ovs"}, overlay : {"none"},
   kind : {"port"}, ports : {{p1}}, vlans : {Vlans}, shuts : {FALSE},
   default : {FALSE}, trunks : {TRUE}, faults : {TRUE}]

\* Two ports of an overlay.
TwoPorts ==
  {[driver |-> d[1], overlay |-> d[2], kind |-> "port", ports |-> {p1, p2},
    vlans |-> {v1, v2}, shuts |-> FALSE, default |-> FALSE,
    trunks |-> e[1], faults |-> e[2]] :
     d \in OverlayDrivers, e \in (BOOLEAN \X BOOLEAN) \ {<<TRUE, TRUE>>}}

SwitchScenarios == OnePort \cup TwoSubports \cup TwoPorts
=============================================================================
