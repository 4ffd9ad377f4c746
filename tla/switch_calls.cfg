SPECIFICATION Spec
CONSTANTS
  p1 = p1
  p2 = p2
  v1 = v1
  v2 = v2
  v3 = v3
  Ports = {p1, p2}
  Vlans = {v1, v2, v3}
  NoVlan = NoVlan
  DefaultVlan = DefaultVlan
  Scenarios <- SwitchScenarios
INVARIANTS
  ActiveIsConnected
  OwnVlansOnly
  MappedIsComplete
  OverlayServed
CHECK_DEADLOCK FALSE
