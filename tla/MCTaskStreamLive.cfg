SPECIFICATION FairSpec
CONSTANTS
  w1 = w1
  w2 = w2
  n1 = n1
  n2 = n2
  Workers = {w1, w2}
  NameOf <- OwnNames
  Nobody = Nobody
  Tasks = {t1}
  MaxRetries = 1
  BatchSize = 2
  MaxFaults = 2
  MaxReclaims = 1
  MaxEntries = 8
CHECK_DEADLOCK FALSE
PROPERTIES
  TaskSettles
