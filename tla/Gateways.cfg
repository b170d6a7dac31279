SPECIFICATION AnySpec
CONSTANTS
  Clients = {c1, c2}
  MaxRequests = 3
  MaxStops = 1
  Visitors = {v1, v2}
  UserIds = {1, 2}
  ProductIds = {1}
  PathIds <- SomePathIds
  NaN = NaN
  Int32Modulus = 16
  MaxOutages = 2
INVARIANTS
  AnswersTellWhatHappened
  ReadsAreCurrent
  RestAnswersMatch
  FailuresAreOutages
PROPERTY
  EveryRequestIsAnswered
