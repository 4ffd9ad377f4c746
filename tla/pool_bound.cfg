\* Three senders of one process and two locks; connections and commands fail,
\* outputs are rejected and the pool is drained.
SPECIFICATION Spec
CONSTANTS
  c1 = c1
  c2 = c2
  c3 = c3
  p1 = p1
  p2 = p2
  NoCall = NoCall
  Calls <- Three
  Queries <- None
  Processes = {p1}
  ProcessOf <- OneProcess
  MaxConnections = 2
  Coordinated = TRUE
  Reuse = TRUE
  SaveConfig = FALSE
  Faults <- Refusals
SYMMETRY Symmetry
INVARIANTS
  SessionsBounded
