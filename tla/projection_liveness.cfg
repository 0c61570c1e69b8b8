\* Failures may happen for a while; events and heartbeats never cease.
SPECIFICATION FairSpec
CONSTANTS
  r1 = r1
  r2 = r2
  Null = Null
  Snapshot = Snapshot
  Now = Now
  alpha = alpha
  mayor = mayor
  auth = auth
  hook1 = hook1
  docs = docs
  readme = readme
  NoDir = NoDir
  Events <- BeatAndRig
  Workspace <- OneRig
  Requests = {r1, r2}
  StaleAfter = 1
  MaxTime = 0
  MaxRows = 1
PROPERTIES EventuallyListed PathIsRestored
