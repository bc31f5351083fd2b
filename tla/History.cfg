SPECIFICATION Spec
CONSTANTS
  Call = {a, b}
  Mutation <- HistoryMutations
  Key = {k1}
  Content = {x1, x2}
  Request = {r1, r2, r3}
  Absent = Absent
  NoCondition = NoCondition
  Nothing = Nothing
  NodeCount = 3
  Required = 2
  Ttl = 2
  Window = 1
  MaxTime = 0
  k1 = k1
  x1 = x1
  x2 = x2
  r1 = r1
  r2 = r2
  r3 = r3
SYMMETRY Calls
INVARIANTS OneOutcome IntentHeld CommittedBytes
PROPERTIES LinearHistory
