\* A port is bound while the last other one is unplugged.
SPECIFICATION Spec
CONSTANTS
  a1 = a1
  a2 = a2
  b1 = b1
  A = A
  B = B
  s1 = s1
  s2 = s2
  v1 = v1
  v2 = v2
  NoNetwork = NoNetwork
  NoVlan = NoVlan
  Ports <- PortsOfA
  Networks = {A, B}
  Switches = {s1}
  LinksOf <- OneLink
  Vlans = {v1}
  NetworkOf <- TheirNetworks
  Scenarios <- OnlyOverlap
PROPERTIES
  RemovedWhenEmpty
