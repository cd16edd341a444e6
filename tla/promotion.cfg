CONSTANTS
  backend = backend
  frontend = frontend
  bundle1 = bundle1
  Dep = {backend, frontend}
  Bundle = {bundle1}
  Steps <- MCTwoSteps
  Slot <- MCOwnSlots
  Policed = {}
  Request = {r1}
  Worker = worker
  None = none
  SlowCalls = TRUE
  MaxAttempts <- MCRetryFrontend
SPECIFICATION Spec
INVARIANTS
  TypeOK
  AttemptPostedOnce
  WaitingIsUnsent
  OrderedRelease
PROPERTY ImplementsLedger
CHECK_DEADLOCK FALSE
