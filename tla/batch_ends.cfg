\* Processes die, watches miss their event, and sending the commands may
\* outlast lock_ttl; nothing times out.
SPECIFICATION FairSpec
CONSTANTS
  b1 = b1
  b2 = b2
  NoBatch = NoBatch
  Batches <- Two
  Faults <- DeathsAndMissedWatches
  LockExpiresAt <- InSend
INVARIANTS
  NothingLost
PROPERTIES
  RecordsUnderLock
  RecordedOnce
  EveryoneAnswered
  WorkersEnd
