SPECIFICATION Spec
CONSTANTS
  Call = {a, b}
  Reader = {p}
  Mutation <- RetryMutations
  Bucket = {b1}
  KeyCount = 1
  Nothing = Nothing
  FirstPage = 1
  Limit <- Limits
  MaxItems = 1
  MaxVersions = 1
  b1 = b1
  r1 = r1
  r2 = r2
INVARIANTS ExactRetryReplays
