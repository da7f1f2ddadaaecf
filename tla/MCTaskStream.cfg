SPECIFICATION Spec
CONSTANTS
  w1 = w1
  w2 = w2
  n1 = n1
  n2 = n2
  Workers = {w1, w2}
  NameOf <- SharedName
  Nobody = Nobody
  Tasks = {t1, t2}
  MaxRetries = 1
  BatchSize = 2
  MaxFaults = 1
  MaxReclaims = 1
  MaxEntries = 5
CHECK_DEADLOCK FALSE
INVARIANTS
  TypeOK
  AckedIsSettled
  NoCauselessRepeat
  DeadAfterAllRetries
