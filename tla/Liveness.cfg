SPECIFICATION LiveSpec
CONSTANTS
  Call = {a, b}
  Mutation <- CollectorMutations
  Key = {k1}
  Content = {x1}
  Request = {r1, r2, r3}
  Absent = Absent
  NoCondition = NoCondition
  Nothing = Nothing
  NodeCount = 1
  Required = 1
  Ttl = 1
  Window = 1
  MaxTime = 1
  k1 = k1
  x1 = x1
  x2 = x2
  r1 = r1
  r2 = r2
  r3 = r3
PROPERTIES EveryCallEnds
