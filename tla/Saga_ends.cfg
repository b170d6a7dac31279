SPECIFICATION OneTroubleSpec
CONSTANTS
  Orders = {o1, o2}
  Products = {p1}
  Quantities = {2}
  Checks = {}
  InitialStock <- Stock3
  MaxFailures = 1
  MaxResends = 1
INVARIANT
  StockBalances
PROPERTIES
  EverySagaEnds
  VerdictsAreApplied
