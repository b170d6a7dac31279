SPECIFICATION TwoTroublesSpec
CONSTANTS
  Orders = {o1, o2}
  Products = {p1}
  Quantities = {2}
  Checks = {}
  InitialStock <- Stock3
  MaxFailures = 2
  MaxResends = 1
SYMMETRY OrderSymmetry
INVARIANT
  TypeOK
  MoneyMovesOnce
  OneVerdict
  OutcomesAgree
  NoOversell
  StuckOrdersLostAnEvent
PROPERTY
  StatusIsFinal
