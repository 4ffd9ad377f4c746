SPECIFICATION SyncSpec
CONSTANTS
  n1 = n1
  n2 = n2
  p = p
  q = q
  Networks = {n1, n2}
  Vlans = {v1, v2}
  NoVlan = NoVlan
  Switches = {1, 2}
  MaxFaults = 2
  Physnets = {p, q}
  Subports = {u1, u2}
  NumLinks = 2
  MaxCalls = 2
  Deployments <- NetworkDeployments
INVARIANTS
  NetworksServed
  DeletedGone
  TrunkIsDatabase
  SubportsAreDatabase
SYMMETRY Symmetry
CHECK_DEADLOCK FALSE
