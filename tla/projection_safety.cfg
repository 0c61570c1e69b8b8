\* Snapshots and full events, two at a time, and every failure between statements.
SPECIFICATION Spec
CONSTANTS
  r1 = r1
  r2 = r2
  Null = Null
  Snapshot = Snapshot
  Now = Now
  alpha = alpha
  mayor = mayor
  auth = auth
  hook1 = hook1
  docs = docs
  readme = readme
  NoDir = NoDir
  Events <- FullEvents
  Workspace <- OneConvoy
  Requests = {r1, r2}
  StaleAfter = 0
  MaxTime = 1
  MaxRows = 1
SYMMETRY Symmetry
INVARIANTS TypeOK RowIsBacked AcceptedIsListed NoMissedAlert
