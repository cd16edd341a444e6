CONSTANTS
  backend = backend
  frontend = frontend
  bundle1 = bundle1
  Dep = {backend}
  Bundle = {bundle1}
  Steps <- MCOneStep
  Slot <- MCOwnSlots
  Policed = {}
  Request = {r1}
  Worker = worker
  None = none
  SlowCalls = FALSE
  MaxAttempts <- MCOnce
SPECIFICATION LiveSpec
PROPERTY BundlesSettle
CHECK_DEADLOCK FALSE
