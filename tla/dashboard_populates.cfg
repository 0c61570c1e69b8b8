\* A workspace whose agent reports; the other lists may stay empty.
SPECIFICATION FairSpec
CONSTANTS
  k1 = k1
  NoKey = NoKey
  Slots = {1}
  Keys = {k1}
  Good = {k1}
PROPERTY Populates
