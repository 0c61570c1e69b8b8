\* An agent without a rig is stale.
SPECIFICATION Spec
CONSTANTS
  r1 = r1
  Null = Null
  Snapshot = Snapshot
  Now = Now
  alpha = alpha
  mayor = mayor
  auth = auth
  hook1 = hook1
  docs = docs
  readme = readme
  NoDir = NoDir
  Events <- OnlyBeats
  Workspace <- OneRig
  Requests = {r1}
  StaleAfter = 1
  MaxTime = 2
  MaxRows = 2
INVARIANT AlertsAnswered
