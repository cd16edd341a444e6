SPECIFICATION ChoreographyLiveSpec
CONSTANTS
  backend = backend
  frontend = frontend
  Step = {backend, frontend}
  Order <- MCOrder
  Driver = {worker, request}
  Sweeper = worker
  MaxDrops = 2
INVARIANTS
  ChoreographyTypeOK
  VerdictIsWhole
PROPERTIES
  RewriteKeepsLedger
  RewriteEnds
CHECK_DEADLOCK FALSE
