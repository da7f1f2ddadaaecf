SPECIFICATION FairSpec
CONSTANTS
  Executors = {e1, e2}
  Tokens = {t1, t2, t3}
  NoToken = NoToken
  e1 = e1
  e2 = e2
  t1 = t1
  t2 = t2
  t3 = t3
  Ttl = 3
  RetryLimit = 2
  RetryDelay = 1
  LockModes = {TRUE, FALSE}
  MaxFaults = 2
  MaxRenewals = 1
INVARIANTS
  TypeOK
  OneLiveLease
  LeaseIsTheKey
  NoOrphanKey
PROPERTIES
  LeaseSpec
  KeyIsFreedAgain
  AcquireEnds
