SPECIFICATION Spec
CONSTANTS
  check = check
  reply = reply
  dispatch = dispatch
  c1 = c1
  c2 = c2
  Coordinators = {c1, c2}
  Tasks <- PlanTasks
  Deps <- PlanDeps
  Sequence <- PlanSequence
  CheckTasks <- Checks
  NoState = NoState
  MaxCopies = 4
  MaxAborts = 2
  MaxOverlapped = 1
CONSTRAINT Bounded
SYMMETRY Symmetry
CHECK_DEADLOCK FALSE
INVARIANTS
  TypeOK
  DependenciesFirst
  DeletedWhenFinished
  ApprovalFillsArguments
  ReissuedOnlyByAborts
  FinishedIsDeleted
PROPERTIES
  TaskGraphSpec
  BlockedForGood
  NothingForgotten
