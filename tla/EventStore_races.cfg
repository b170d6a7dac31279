SPECIFICATION Spec
CONSTANTS
  Accounts = {a1, a2}
  Requests = {r1, r2, r3}
  Kinds = {"open", "deposit", "withdraw", "close", "get", "log", "stateAt", "snapshot", "rebuild"}
  InitialBalances = {1}
  Amounts = {1}
  Versions = {0, 1, 2}
  SNAPSHOT_THRESHOLD = 2
  MaxFailures = 2
  HashAggregateId <- SharedHash
SYMMETRY RequestSymmetry
INVARIANTS
  TypeOK
  VersionsGapless
  NoVersionConflict
  SnapshotsAreReplays
  LoadsAreReplays
  AnswersAreFresh
  AnsweredCommandsAreLogged
  EventsWereLegalWhenChecked
  AutoSnapshotLagsByOneAtMost
PROPERTY
  ImplementsLog
