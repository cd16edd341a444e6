CONSTANTS
  backend = backend
  frontend = frontend
  hotfix = hotfix
  bundle1 = bundle1
  sha1 = sha1
  sha2 = sha2
  sha3 = sha3
  Dep = {backend}
  Bundle = {bundle1}
  Steps <- MCOneStep
  TagSpace <- MCTagSpace
  CommitOf <- MCCommitOf
  Version = {v1, v2}
  Request = {r1, r2}
  Worker = worker
  None = none
  MaxRequests = 2
  MaxEdits = 0
SPECIFICATION Spec
INVARIANT OneVersion
CHECK_DEADLOCK FALSE
