\* Two calls on switches with a candidate datastore and without, confirmed
\* commits or plain ones, an operator, failing RPCs, lost sessions, crashes.
SPECIFICATION FairSpec
CONSTANTS
  c1 = c1
  c2 = c2
  vlan1 = vlan1
  vlan2 = vlan2
  port = port
  banner = banner
  NoCall = NoCall
  Operator = Operator
  Calls <- Two
  Items <- AllItems
  ItemsOf <- TheirItems
  MaxConnections = 1
  MaxAttempts = 2
  Scenarios <- Switches
INVARIANTS
  DoneIsDone
  DoneIsSaved
  AllOrNothing
  FailedIsUndone
PROPERTIES
  CommitsOwnEdit
  CallsEnd
