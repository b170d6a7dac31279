SPECIFICATION FairSpec
CONSTANTS
  Clients = {k1, k2}
  Customers = {a, b}
  Names = {n1, n2}
  Emails = {e1}
  NoRow = NoRow
  MaxUpdates = 3
  WriteFailures = 1
  ReadFailures = 2
  MaxLate = 1
PROPERTY
  QueueDrains
