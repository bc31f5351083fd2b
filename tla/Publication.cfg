SPECIFICATION Spec
CONSTANTS
  Call = {a, b}
  Digest = {x}
  Temp = {t1, t2, t3}
  Absent = Absent
  Partial = Partial
  Rotten = Rotten
SYMMETRY Names
INVARIANTS TypeOK NoPartialBlob
PROPERTIES ReceiptsAreDurable
