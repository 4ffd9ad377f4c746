-------------------------- MODULE MCSecurityGroups --------------------------
EXTENDS SecurityGroups, TLC

CONSTANTS w1, w2, g1, g2, p1, p2, r1, r2

AllOn1 == [p \in Ports |-> 1]

Alike == {[s \in Switches |-> d] : d \in {"named", "table"}}

Scenario(drivers, switches, groups, ports, contents, faults) ==
  [driver |-> drivers, switches |-> switches, groups |-> groups,
   ports |-> ports, rules |-> contents, faults |-> faults]

\* Callbacks that fail; two ports; two groups; two switches.
GroupScenarios ==
  UNION {{Scenario(d, <<1>>, {g1}, {p1}, {r1, r2}, TRUE),
          Scenario(d, <<1>>, {g1}, {p1, p2}, {r1}, FALSE),
          Scenario(d, <<1>>, {g1, g2}, {p1}, {r1}, FALSE)} : d \in Alike}
  \cup {Scenario(d, <<1, 2>>, {g1}, {}, {r1, r2}, TRUE) :
          d \in [Switches -> {"named", "table"}]}

Symmetry == Permutations(Workers) \cup Permutations(Rules)
=============================================================================
