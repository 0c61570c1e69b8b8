\* A line is appended to a .jsonl file while the agent sends what it has read.
SPECIFICATION Spec
CONSTANTS
  e1 = e1
  e2 = e2
  r1 = r1
  r2 = r2
  None = None
  Events = {e1, e2}
  Malformed = {}
  Bad = {}
  Names = {1, 2}
  Contents <- MCContents
  MaxLines = 2
  Requests = {r1, r2}
  MaxBatch = 3
  MaxCopies = 2
  Appended = {e1, e2}
INVARIANT SentIsStored
