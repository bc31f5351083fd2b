SPECIFICATION FairSpec
CONSTANTS
  Call = {a, b}
  Version = {v}
  Request = {r, s}
  NodeCount = 2
  Required = 1
  Nothing = Nothing
  Spared = {2}
  MaxFaults = 1
  MaxFailures = 1
  MaxGeneration = 2
INVARIANTS TypeOK OneRepairPerTask
PROPERTIES TasksAreFenced DamageHeals WorkGetsDone
