\* Two calls; the switch answers some RPCs with operation-failed.
SPECIFICATION Spec
CONSTANTS
  c1 = c1
  c2 = c2
  vlan1 = vlan1
  vlan2 = vlan2
  port = port
  banner = banner
  NoCall = NoCall
  Operator = Operator
  Calls <- Two
  Items <- AllItems
  ItemsOf <- TheirItems
  MaxConnections = 1
  MaxAttempts = 2
  Scenarios <- OnlyBusy
INVARIANTS
  UnconfirmedIsUndone
