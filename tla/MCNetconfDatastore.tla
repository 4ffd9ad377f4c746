------------------------- MODULE MCNetconfDatastore -------------------------
(* Instances of NetconfDatastore for TLC. *)
EXTENDS NetconfDatastore

CONSTANTS c1, c2, vlan1, port, vlan2, banner

\* Each call writes a VLAN of its own and the same port; the operator writes
\* something else.
Two == {c1, c2}
AllItems == {vlan1, port, vlan2, banner}
TheirItems == [c \in Calls |-> IF c = c1 THEN {vlan1, port} ELSE {port, vlan2}]

\* A switch with a candidate datastore, and one without.
WithCandidate(confirmed, operator, faults) ==
  [target |-> "candidate", confirmed |-> confirmed, saves |-> FALSE,
   coordinated |-> FALSE, operator |-> operator, faults |-> faults]
Writable(saves, faults) ==
  [target |-> "running", confirmed |-> FALSE, saves |-> saves,
   coordinated |-> TRUE, operator |-> FALSE, faults |-> faults]
NoTarget == [Writable(FALSE, {"timeout", "lost"}) EXCEPT !.target = "none"]

Switches ==
  {WithCandidate(TRUE, FALSE, {"slow", "lost", "crash"}),
   WithCandidate(TRUE, TRUE, {"slow", "lost"}),
   WithCandidate(TRUE, FALSE, {"busy", "refused", "slow"}),
   WithCandidate(FALSE, TRUE, {"busy", "refused", "lost"}),
   Writable(TRUE, FaultKinds), Writable(FALSE, {"busy", "lost"}), NoTarget}

OnlyBusy == {WithCandidate(TRUE, FALSE, {"busy"})}
=============================================================================
