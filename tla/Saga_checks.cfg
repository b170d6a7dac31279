SPECIFICATION OneTroubleSpec
CONSTANTS
  Orders = {o1}
  Products = {p1}
  Quantities = {1}
  Checks = {c1, c2}
  InitialStock <- Stock2
  MaxFailures = 1
  MaxResends = 1
INVARIANT
  MoneyMovesOnce
