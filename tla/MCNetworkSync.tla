--------------------------- MODULE MCNetworkSync ---------------------------
EXTENDS NetworkSync, TrunkSubports, TLC

CONSTANTS n1, n2, p, q

a == 1
b == 2

\* Switch a comes first, on physical networks P; b is on Q; the first network
\* is on p, the second one on second.
Deployment(P, Q, second, openconfig, trunked, managed) ==
  [physnets |-> (a :> P @@ b :> Q), physnet |-> (n1 :> p @@ n2 :> second),
   openconfig |-> openconfig, trunked |-> trunked, managed |-> managed]

\* Two OpenConfig switches, with the same and with other physical networks;
\* one of each kind, also on physical networks of their own; no trunk ports,
\* or VLANs that are not managed.
NetworkDeployments ==
  {Deployment({p, q}, {p, q}, q, {a, b}, {a, b}, {a, b}),
   Deployment({}, {q}, q, {a, b}, {a, b}, {a, b}),
   Deployment({p}, {p, q}, p, {b}, {a, b}, {a, b}),
   Deployment({p}, {p}, p, {b}, {a}, {a, b}),
   Deployment({p}, {q}, q, {b}, {a, b}, {a, b}),
   Deployment({p}, {p}, p, {a, b}, {a, b}, {b})}

Symmetry == Permutations(Vlans)

-----------------------------------------------------------------------------
(* Networks and trunks have no state in common: each is explored while the *)
(* other one rests.                                                        *)

VARIABLE part

SyncInit ==
  /\ part \in {"networks", "trunk"}
  /\ Init
  /\ SubInit
  /\ part = "trunk" => deployment = CHOOSE d \in Deployments : TRUE
  /\ part = "networks" => details = "full"

SyncNext ==
  /\ UNCHANGED part
  /\ \/ part = "networks" /\ Next /\ UNCHANGED subVars
     \/ part = "trunk" /\ SubNext /\ UNCHANGED vars

SyncSpec == SyncInit /\ [][SyncNext]_<<part, vars, subVars>>
=============================================================================
