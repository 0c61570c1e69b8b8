\* Two requests and two admin commands at a time, one key, two minutes.
SPECIFICATION AccessSpec
CONSTANTS
  w1 = w1
  c1 = c1
  c2 = c2
  k1 = k1
  o1 = o1
  a1 = a1
  a2 = a2
  NoBucket = NoBucket
  NoId = NoId
  Workspaces = {w1}
  Callers = {c1, c2}
  Orgs = {o1}
  Keys = {k1}
  Admins = {a1, a2}
  Rate = 2
  Minute = 2
  MaxTime = 3
SYMMETRY Symmetry
INVARIANTS TypeOK WithinBudget WithinRealTime AccessTypeOK RevokedIsShutOut PrintedIsGood CreationsAreTrue
PROPERTY DeniedOnlyWhenSpent
