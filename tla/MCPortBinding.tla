--------------------------- MODULE MCPortBinding ---------------------------
(* Instances of PortBinding for TLC. *)
EXTENDS PortBinding, TLC

CONSTANTS a1, a2, b1, A, B, s1, s2, v1, v2

\* Two ports on network A and one on network B.
PortsOfA == {a1, a2}
AllPorts == {a1, a2, b1}
TheirNetworks == [p \in Ports |-> IF p = b1 THEN B ELSE A]

\* One switch; or a1 with a link to each of two switches.
OneLink == [p \in Ports |-> <<s1>>]
TwoLinks == [p \in Ports |-> IF p = a1 THEN <<s1, s2>> ELSE <<s1>>]

Serial(exact, faults) ==
  [overlap |-> FALSE, exact |-> exact, faults |-> faults]
Overlapping == [overlap |-> TRUE, exact |-> TRUE, faults |-> {}]

Usual == {Serial(TRUE, FaultKinds), Serial(TRUE, {}), Serial(FALSE, {}),
          Overlapping}
OnlyOverlap == {Overlapping}
=============================================================================
