SPECIFICATION HierSpec
CONSTANTS
  na = na nb = nb nl = nl
  Areas = {east, west}
  Density <- MCDensity
  MaxCrews = 0
  Accounts = {na, nb, nl, ns}
  TierOf <- MCTierOf
  Visits = {v1}
  Asks = {}
  Editors = {e1, e2}
INVARIANT RegionFollowsEdge
CHECK_DEADLOCK FALSE
