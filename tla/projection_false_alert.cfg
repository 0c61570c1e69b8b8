\* Reports of one agent are processed out of order.
SPECIFICATION Spec
CONSTANTS
  r1 = r1
  r2 = r2
  Null = Null
  Snapshot = Snapshot
  Now = Now
  alpha = alpha
  mayor = mayor
  auth = auth
  hook1 = hook1
  docs = docs
  readme = readme
  NoDir = NoDir
  Events <- RigEvents
  Workspace <- OneRig
  Requests = {r1, r2}
  StaleAfter = 1
  MaxTime = 2
  MaxRows = 2
INVARIANT AlertIsTrue
