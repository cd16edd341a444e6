SPECIFICATION MCSpec
CONSTANTS
  w = w  u = u  n1 = n1  e1 = e1  e2 = e2
  a = a  b = b  c = c  t1 = t1  t2 = t2  x1 = x1  c1 = c1  c2 = c2
  Event = {e1, e2}  Notice = {n1}  Addressed = {e1}
  Dispatcher = {w, u}  Poller = w  MaxAttempts = 2
  Release = {r1}  Clerk = {s1, s2}
  Component = {a, b, c}  First <- MCFirst
  Target = {t1, t2}  Drone = {x1}  Inherit = Inherit
  Editor = {p, q}  MaxEdits = 2
  Connection = {c1, c2}  Admin = {s1, s2}  MaxTokens = 2  MaxAsked = 3
  Dep = {d1, d2}  Key = {backend, frontend}  Repo = {x, y}
  Server = {v1}  Seeded = v1  None = none  MaxChanges = 1
  Wish = {q1}  MaxCalls = 3
INVARIANTS
  ServicesTypeOK AttemptsBounded
  FlowAgrees AnsweredOnce
  HistoryKept PositionsDistinct
  VerdictOfToken RotationHolds DefaultStays
  NeverUnguarded RebuildFits
  AnswersTrue
PROPERTIES SlotsGuarded SentStays EventsQueued MailEnds
CHECK_DEADLOCK FALSE
