SPECIFICATION Spec
CONSTANTS
  check = check
  reply = reply
  dispatch = dispatch
  c1 = c1
  c2 = c2
  Coordinators = {c1}
  Tasks <- OrderTasks
  Deps <- OrderDeps
  Sequence <- OrderSequence
  CheckTasks <- Checks
  NoState = NoState
  MaxCopies = 2
  MaxAborts = 0
  MaxOverlapped = 0
CHECK_DEADLOCK FALSE
INVARIANTS
  CheckedBeforeDispatch
