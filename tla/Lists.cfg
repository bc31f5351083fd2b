SPECIFICATION LiveSpec
CONSTANTS
  Call = {a, b}
  Reader = {p}
  Mutation <- ListMutations
  Bucket = {b1}
  KeyCount = 3
  Nothing = Nothing
  FirstPage = 1
  Limit <- Limits
  MaxItems = 2
  MaxVersions = 3
  b1 = b1
  r1 = r1
  r2 = r2
INVARIANTS TypeOK ReaderSeesOneMoment BucketMadeOnce SnapshotPerReceipt
PROPERTIES ReadersEnd
