CONSTANTS
  backend = backend
  frontend = frontend
  bundle1 = bundle1
  Dep = {backend, frontend}
  Bundle = {bundle1}
  Steps <- MCTwoSteps
  Slot <- MCOwnSlots
  Policed = {frontend}
  Request = {r1}
  Worker = worker
  None = none
  SlowCalls = TRUE
  MaxAttempts <- MCOnce
SPECIFICATION LiveSpec
INVARIANT SuccessIsReal
PROPERTY InFlightEnds
CHECK_DEADLOCK FALSE
