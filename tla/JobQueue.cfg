\* Three workers over one table; leases, attempts and backoff at their smallest.
SPECIFICATION FairSpec
CONSTANTS
  w1 = w1
  w2 = w2
  w3 = w3
  Nobody = "nobody"
  Jobs = {1, 2, 3}
  Workers = {w1, w2, w3}
  IdOf <- MCIdOf
  KindOf <- MCKindOf
  Handles <- MCHandles
  MaxAttempts <- MCMaxAttempts
  Lease = 1
  RetryBase = 1
  RetryCap = 2
  MaxDelay = 1
  MaxAge = 1
INVARIANTS
  TypeOK
  OverlapOnlyAfterExpiry
PROPERTIES
  EndedRowsStay
  ImplementsLedger
  EveryJobEnds
