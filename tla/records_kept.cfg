SPECIFICATION MigrationSpec
CONSTANTS
  Dep = {d1, d2}  Key = {backend, frontend}  Repo = {x, y}
  Server = {s1, s2}  Seeded = s1  None = none  MaxChanges = 1
INVARIANT RecordsKept
CHECK_DEADLOCK FALSE
