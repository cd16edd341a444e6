CONSTANTS
  backend = backend
  frontend = frontend
  hotfix = hotfix
  bundle1 = bundle1
  sha1 = sha1
  sha2 = sha2
  sha3 = sha3
  Dep = {backend, hotfix}
  Bundle = {bundle1}
  Steps <- MCOneStep
  TagSpace <- MCTagSpace
  CommitOf <- MCCommitOf
  Version = {v1}
  Request = {r1, r2}
  Worker = worker
  None = none
  MaxRequests = 2
  MaxEdits = 1
SPECIFICATION LiveSpec
INVARIANT PublishedIsTagged
PROPERTY PublishingEnds
CHECK_DEADLOCK FALSE
