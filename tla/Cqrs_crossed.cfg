SPECIFICATION Spec
CONSTANTS
  Clients = {k1, k2}
  Customers = {a}
  Names = {n1, n2}
  Emails = {e1, e2}
  NoRow = NoRow
  MaxUpdates = 3
  WriteFailures = 0
  ReadFailures = 0
  MaxLate = 0
INVARIANT
  ModelsAgree
