\* Two requests, a stop or a kill at any time, and retention by days, some of which overflow.
SPECIFICATION FairSpec
CONSTANTS
  p1 = p1
  r1 = r1
  r2 = r2
  e1 = e1
  e2 = e2
  s1 = s1
  Procs = {p1}
  Requests = {r1, r2}
  Items = {e1, e2, s1}
  Batch <- MCBatch
  TableOf <- MCTableOf
  Retentions <- MCRetentions
  MaxDays = 3
  MaxTime = 2
INVARIANTS TypeOK AcceptedIsKept DrainIsGraceful
PROPERTIES RetentionKept EventuallyPruned StopsWhenTold
