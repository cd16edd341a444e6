CONSTANTS
  backend = backend
  frontend = frontend
  hotfix = hotfix
  bundle1 = bundle1
  sha1 = sha1
  sha2 = sha2
  sha3 = sha3
  Dep = {backend, frontend}
  Bundle = {bundle1}
  Steps <- MCTwoSteps
  TagSpace <- MCTagSpace
  CommitOf <- MCCommitOf
  Version = {v1}
  Request = {r1}
  Worker = worker
  None = none
  MaxRequests = 1
  MaxEdits = 0
SPECIFICATION Spec
PROPERTY SweepCountsPublishing
CHECK_DEADLOCK FALSE
