\* Two files, dropped or appended to, a bad and a malformed event, batches over the limit, every failure,
\* any number of times.
SPECIFICATION Spec
CONSTANTS
  e1 = e1
  e2 = e2
  e3 = e3
  e4 = e4
  r1 = r1
  r2 = r2
  None = None
  Events = {e1, e2, e3, e4}
  Malformed = {e4}
  Bad = {e3}
  Names = {1, 2}
  Contents <- MCContents
  MaxLines = 2
  Requests = {r1, r2}
  MaxBatch = 2
  MaxCopies = 2
  Appended = {e1, e2}
SYMMETRY Symmetry
INVARIANTS TypeOK SentIsStoredOrRaced NothingLost NoNeedlessDuplicate
PROPERTY ImplementsAtLeastOnce
