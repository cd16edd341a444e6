CONSTANTS
  backend = backend
  frontend = frontend
  r1 = r1
  schedule1 = schedule1
  job1 = job1
  plan1 = plan1
  human1 = human1
  Component = {backend, frontend}
  Route = {r1, r2}
  Schedule = {schedule1}
  Job = {job1}
  Plan = {plan1}
  Human = {human1}
  Of <- MCOf
  Request = {u1}
  Agent = {a1, a2}
  Worker = worker
  None = none
  MaxEdits = 1
  MaxVisits = 1
SPECIFICATION MCSpec
INVARIANTS
  LaunchTypeOK
  LaunchedOnce
  OnePromotionPerSlot
  SucceededIsLinked
  PlannedAsApproved
  JobsTrue
PROPERTIES
  SchedulesEnd
  JobsEnd
CHECK_DEADLOCK FALSE
