\* The whole process of the agent; files that fit together, that do not, and a malformed one.
SPECIFICATION LoopSpec
CONSTANTS
  e1 = e1
  e2 = e2
  e3 = e3
  e4 = e4
  r1 = r1
  None = None
  Events = {e1, e2, e3, e4}
  Malformed = {e4}
  Bad = {}
  Names = {1, 2}
  Contents <- MCContents
  Requests = {r1}
  MaxBatch = 2
  MaxCopies = 1
  Appended = {e1}
INVARIANT LoopTypeOK
PROPERTIES EventuallyStored EventuallyRetired StopsWhenTold GoesOnReporting DrivesTheSpool
