\* Three ports, two networks, two switches; calls overlap, or fail one by one.
SPECIFICATION Spec
CONSTANTS
  a1 = a1
  a2 = a2
  b1 = b1
  A = A
  B = B
  s1 = s1
  s2 = s2
  v1 = v1
  v2 = v2
  NoNetwork = NoNetwork
  NoVlan = NoVlan
  Ports <- AllPorts
  Networks = {A, B}
  Switches = {s1, s2}
  LinksOf <- TwoLinks
  Vlans = {v1, v2}
  NetworkOf <- TheirNetworks
  Scenarios <- Usual
INVARIANTS
  TypeOK
  ActiveIsPlugged
  ActiveIsMapped
  NoStaleMapping
