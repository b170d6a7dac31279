SPECIFICATION FairSpec
CONSTANTS
  Accounts = {a1}
  Requests = {r1, r2, r3}
  Kinds = {"open", "withdraw", "rebuild"}
  InitialBalances = {1}
  Amounts = {1}
  Versions = {0, 1, 2}
  SNAPSHOT_THRESHOLD = 3
  MaxFailures = 1
  HashAggregateId <- SharedHash
PROPERTY
  EveryTaskEnds
