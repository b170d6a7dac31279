SPECIFICATION Spec
CONSTANTS
  Accounts = {a1}
  Requests = {r1, r2, r3}
  Kinds = {"open", "withdraw"}
  InitialBalances = {1}
  Amounts = {1}
  Versions = {0, 1, 2}
  SNAPSHOT_THRESHOLD = 2
  MaxFailures = 0
  HashAggregateId <- SharedHash
SYMMETRY RequestSymmetry
INVARIANT
  NoOverdraft
