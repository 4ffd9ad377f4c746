\* Two senders and a query in two processes that reuse connections; sessions
\* drop, waits for a lock time out, processes die with the lock.
SPECIFICATION FairSpec
CONSTANTS
  c1 = c1
  c2 = c2
  c3 = c3
  p1 = p1
  p2 = p2
  NoCall = NoCall
  Calls <- Three
  Queries <- FirstQuery
  Processes = {p1, p2}
  ProcessOf <- TwoProcesses
  MaxConnections = 1
  Coordinated = TRUE
  Reuse = TRUE
  SaveConfig = TRUE
  Faults <- Outages
INVARIANTS
  TypeOK
  OnePlace
  NoLeak
  RunsOnce
PROPERTIES
  CallsEnd
