\* Sending the commands may outlast lock_ttl.
SPECIFICATION Spec
CONSTANTS
  b1 = b1
  b2 = b2
  NoBatch = NoBatch
  Batches <- Two
  Faults <- NoFaults
  LockExpiresAt <- InSend
INVARIANTS
  FIFO
