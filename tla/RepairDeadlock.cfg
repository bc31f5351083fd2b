SPECIFICATION Spec
CONSTANTS
  Call = {a, b}
  Version = {v}
  Request = {r}
  NodeCount = 2
  Required = 1
  Nothing = Nothing
  Spared = {}
  MaxFaults = 1
  MaxFailures = 1
  MaxGeneration = 1
SYMMETRY Names
INVARIANTS DegradedReadIsServed
