\* Three processes, two of them API processes that may start without migrating,
\* migrate side by side, die at any step and start again.
SPECIFICATION FairSpec
CONSTANTS
  a1 = a1
  a2 = a2
  m1 = m1
  Procs = {a1, a2, m1}
  Apis = {a1, a2}
  Last = 2
INVARIANTS TypeOK RecordedInOrder UpHasSchema
PROPERTIES ImplementsSerialUpgrade SomeoneFinishes LoneMigratorFinishes
