SPECIFICATION AnySpec
CONSTANTS
  Purchases = {p1, p2}
  RandomIds = {7}
  MaxLosses = 2
  Posts = {r1, r2}
  r1 = r1
  r2 = r2
  NoType = NoType
  BodyType <- SomeTypes
  MaxDisruptions = 1
  MaxLeaves = 1
  Orders = {o1, o2}
  Names = {"pear", "apple", "melon"}
  Quantities <- Boundary
  Null = Null
  pears = pears
  apples = apples
  moreApples = moreApples
  Docs = {pears, apples, moreApples}
  NameOf <- SharedName
  InitialStock <- Stock2
  Listed = {pears, apples}
  NoDoc = NoDoc
  MaxFailures = 1
INVARIANTS
  NeverNegative
  DatabasesAgree
  GroupsSkipNothing
  SubscribersMissNothing
PROPERTIES
  OnlyOrdersTake
  EveryEventIsPassed
  EveryOrderIsHandled
  ImplementsFanOut
