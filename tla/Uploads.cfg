SPECIFICATION Spec
CONSTANTS
  Call = {a, b}
  Upload = {u1}
  Mutation <- RaceMutations
  Bytes = {b1, b2}
  Node = {n1}
  PartCount = 2
  Required = 1
  Nothing = Nothing
  u1 = u1
  b1 = b1
  b2 = b2
  r1 = r1
  r2 = r2
SYMMETRY Names
INVARIANTS TypeOK CompletedIsItsParts AnswersHold NeededStays
PROPERTIES UploadEndsOnce LinearUploads
