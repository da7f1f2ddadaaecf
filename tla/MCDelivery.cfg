SPECIFICATION FairSpec
CONSTANTS
  check = check
  dispatch = dispatch
  w1 = w1
  w2 = w2
  n1 = n1
  n2 = n2
  c1 = c1
  Coordinators = {c1}
  Tasks <- OrderTasks
  Deps <- OrderDeps
  Sequence <- OrderSequence
  CheckTasks <- Checks
  NoState = NoState
  MaxCopies = 2
  MaxAborts = 1
  Workers = {w1}
  NameOf <- OwnNames
  Nobody = Nobody
  MaxRetries = 1
  BatchSize = 1
  MaxFaults = 1
  MaxReclaims = 1
  MaxEntries = 6
  MaxDisturbances = 1
  Registries <- BothRegistries
CHECK_DEADLOCK FALSE
INVARIANTS
  EffectsInOrder
  OnceUnlessCaused
PROPERTIES
  PlanSpec
  PlanSettles
