-------------------------- MODULE MCConnectionPool --------------------------
(* Instances of ConnectionPool for TLC. *)
EXTENDS ConnectionPool, TLC

CONSTANTS c1, c2, c3, p1, p2

\* Senders of one process are told apart by nothing but their call.
Symmetry == Permutations(Calls)

Three == {c1, c2, c3}

OneProcess == [c \in Calls |-> p1]
TwoProcesses == [c \in Calls |-> IF c = c3 THEN p2 ELSE p1]

None == {}
FirstQuery == {c1}

Outages == {"drop", "crash", "acquireTimeout"}
Refusals == {"connect", "command", "rejected"}
=============================================================================
