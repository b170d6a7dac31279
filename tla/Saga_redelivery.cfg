SPECIFICATION Spec
CONSTANTS
  Orders = {o1}
  Products = {p1}
  Quantities = {1, 2}
  Checks = {}
  InitialStock <- Stock2
  MaxFailures = 1
  MaxResends = 0
INVARIANT
  DecrementedOnce
