SPECIFICATION FairSpec
CONSTANTS
  Clients = {k1, k2}
  Customers = {a, b}
  Names = {n1, n2}
  Emails = {e1, e2}
  NoRow = NoRow
  MaxUpdates = 3
  WriteFailures = 1
  ReadFailures = 1
  MaxLate = 0
INVARIANTS
  TypeOK
  AckedAreShown
  SequentialModelsAgree
PROPERTY
  ImplementsProjection
