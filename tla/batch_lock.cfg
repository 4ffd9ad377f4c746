\* Two calls under every fault; each step of a worker stays within lock_ttl.
SPECIFICATION Spec
CONSTANTS
  b1 = b1
  b2 = b2
  NoBatch = NoBatch
  Batches <- Two
  Faults <- AllFaults
  LockExpiresAt <- Never
SYMMETRY Symmetry
INVARIANTS
  TypeOK
  SerialSessions
  FIFO
  OwnAnswer
PROPERTIES
  KeepsPromise
