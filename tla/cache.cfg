CONSTANTS
  r1 = r1
  r2 = r2
  Reader <- MCReader
  Occupied <- MCOccupied
  TTL = 2
  MaxLatency = 1
  MaxVersion = 2
  MaxTime = 5
SPECIFICATION Spec
SYMMETRY MCSymmetry
INVARIANTS
  TypeOK
  AnswerMatchesRow
  QueriesPredateEntry
PROPERTIES
  StalenessBounded
  IsStaleRegister
